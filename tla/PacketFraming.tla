---------------------------- MODULE PacketFraming ----------------------------
(***************************************************************************)
(* How the receive thread makes messages of the bytes of one connection:   *)
(* CRecvPacketModel::SetRecvBuffer and the loop of DealRecvBuff around it. *)
(*                                                                         *)
(* On the wire a message is a sign (0x5a), a head that holds its length    *)
(* and its body.  A place in the stream is [m, o]: o = 0 is the sign of    *)
(* the m-th message sent, o in 1 .. sent[m] its bytes, the first HeadLen   *)
(* of which are the head.  A chunk, what one recv returns, is the bytes    *)
(* from cur up to but not including last.                                  *)
(***************************************************************************)
EXTENDS Integers, Sequences

CONSTANTS
    HeadLen,    \* sizeof(UAGENT_MSG_HEAD)
    BufferLen,  \* BUFFER_DATA_RECV_LEN
    MsgLens,    \* lengths of messages, head included
    Cuts,       \* the offsets of a message at which TCP may end a chunk
    MaxMsgs     \* bound: messages sent in a behaviour

ASSUME PacketFramingAssumption ==
    /\ HeadLen \in Nat \ {0}
    /\ BufferLen \in Nat
    /\ MsgLens \subseteq Nat /\ \A len \in MsgLens : HeadLen <= len
    /\ Cuts \subseteq Nat /\ 0 \in Cuts
    /\ MaxMsgs \in Nat

VARIABLES
    sent,           \* lengths of the messages the board has sent
    dispatched,     \* history: what DealMsg was called for, 0 for no whole message
    cur, last,      \* the chunk DealRecvBuff is at
    at,             \* where it is: "recv", "set", "deal" or "check"
    m_IsNothing, m_nMsgLen, m_nBuffLen,
    m_Buffer,       \* the place of its first byte, or Nowhere
    headCut         \* history: a chunk has ended inside a head

model == <<m_IsNothing, m_nMsgLen, m_nBuffLen, m_Buffer>>
chunk == <<cur, last, at, headCut>>
vars  == <<sent, dispatched, chunk, model>>

Garbage == -1       \* a length read where no head was, bytes that are not one message
Nowhere == [m |-> 0, o |-> 0]
Place   == [m : 1 .. MaxMsgs + 1, o : Nat]
WireEnd == [m |-> Len(sent) + 1, o |-> 0]
Before(p, q) == p.m < q.m \/ (p.m = q.m /\ p.o < q.o)
IsPlace(p)   == \/ p = WireEnd
                \/ p.m \in 1 .. Len(sent) /\ p.o \in 0 .. sent[p.m]
After(p)     == IF p.o = sent[p.m] THEN [m |-> p.m + 1, o |-> 0] ELSE [p EXCEPT !.o = @ + 1]

(* The connection's reader is in range and its chunk is a part of the       *)
(* stream.                                                                  *)
TypeOK ==
    /\ sent \in Seq(MsgLens) /\ Len(sent) <= MaxMsgs
    /\ dispatched \in Seq(0 .. MaxMsgs)
    /\ cur \in Place /\ last \in Place /\ IsPlace(cur) /\ IsPlace(last) /\ ~Before(last, cur)
    /\ at \in {"recv", "set", "deal", "check"}
    /\ m_IsNothing \in BOOLEAN
    /\ m_nMsgLen \in Nat \cup {Garbage} /\ m_nBuffLen \in Nat \cup {Garbage}
    /\ m_Buffer \in Place \cup {Nowhere}
    /\ headCut \in BOOLEAN

Init ==
    /\ sent = <<>> /\ dispatched = <<>>
    /\ cur = WireEnd /\ last = WireEnd /\ at = "recv"
    /\ m_IsNothing = TRUE /\ m_nMsgLen = 0 /\ m_nBuffLen = 0 /\ m_Buffer = Nowhere
    /\ headCut = FALSE

(* The board sends a message. *)
Send(len) ==
    /\ Len(sent) < MaxMsgs
    /\ sent' = Append(sent, len)
    /\ UNCHANGED <<dispatched, chunk, model>>

(* recv returns a chunk of what has been sent. *)
Recv ==
    /\ at = "recv" /\ cur # WireEnd
    /\ \E m \in cur.m .. Len(sent) + 1, o \in Cuts :
           LET p == [m |-> m, o |-> o]
           IN  IsPlace(p) /\ Before(cur, p) /\ last' = p
    /\ headCut' = IF last'.o \in 2 .. HeadLen THEN TRUE ELSE headCut
    /\ at' = "set"
    /\ UNCHANGED <<sent, dispatched, cur, model>>

-----------------------------------------------------------------------------
(* SetRecvBuffer: what it does with the bytes from p up to last.            *)

(* The bytes of p's own message that are left in the chunk; all of them if  *)
(* the chunk goes on into another one.                                      *)
Here(p)    == IF last.m = p.m THEN last.o - p.o ELSE sent[p.m] + 1 - p.o
HasHead(p) == p.o = 1 /\ Here(p) >= HeadLen

(* It returns 0: the chunk is used up. *)
Return0 == cur' = last /\ at' = "check"
(* It returns what follows q: the caller deals with the message and calls   *)
(* again if anything follows.                                               *)
ReturnAt(q) == cur' = q /\ at' = IF q = last THEN "check" ELSE "deal"

(* A head is read at p and the bytes after it are copied.  Where there is   *)
(* no whole head the length is whatever the bytes, or those a former recv   *)
(* has left in the buffer, make.                                            *)
TakeHead(p) ==
    /\ m_IsNothing' = FALSE
    /\ IF HasHead(p)
       THEN /\ m_nMsgLen' = sent[p.m] /\ m_nBuffLen' = Here(p) /\ m_Buffer' = p
            /\ IF last.m > p.m THEN ReturnAt([m |-> p.m + 1, o |-> 0]) ELSE Return0
       ELSE /\ m_nMsgLen' = Garbage /\ m_Buffer' = Nowhere
            /\ \/ m_nBuffLen' = 0 /\ Return0
               \/ /\ m_nBuffLen' = Garbage
                  /\ \E m \in p.m .. last.m, o \in Cuts :
                        LET q == [m |-> m, o |-> o]
                        IN  IsPlace(q) /\ Before(p, q) /\ ~Before(last, q) /\ ReturnAt(q)

(* Not a sign: the chunk is dropped.  A byte of a message may look like one. *)
NoSign ==
    /\ at = "set" /\ m_IsNothing /\ cur.o # 0
    /\ Return0
    /\ UNCHANGED <<sent, dispatched, last, headCut, model>>

(* The sign, and nothing after it or less than a head: what there is of the *)
(* head is not kept.  If cur is no sign but looks like one, the bytes after *)
(* it may be few although they reach into another message.                  *)
SignOnly ==
    /\ at = "set" /\ m_IsNothing
    /\ IF last.m = cur.m THEN last.o - After(cur).o < HeadLen ELSE cur.o # 0
    /\ m_IsNothing' = FALSE
    /\ Return0
    /\ UNCHANGED <<sent, dispatched, last, headCut, m_nMsgLen, m_nBuffLen, m_Buffer>>

SignAndHead ==
    /\ at = "set" /\ m_IsNothing
    /\ last.m = cur.m => last.o - After(cur).o >= HeadLen
    /\ After(cur) # last
    /\ TakeHead(After(cur))
    /\ UNCHANGED <<sent, dispatched, last, headCut>>

HeadFirst ==
    /\ at = "set" /\ ~m_IsNothing /\ m_nMsgLen = 0
    /\ TakeHead(cur)
    /\ UNCHANGED <<sent, dispatched, last, headCut>>

(* GetLackLen; the bytes at cur follow those in the buffer, or none is      *)
(* copied; what follows the bytes that were lacking.                        *)
Lack == m_nMsgLen - m_nBuffLen
Follows == \/ m_Buffer # Nowhere /\ cur.m = m_Buffer.m /\ cur.o = m_Buffer.o + m_nBuffLen
           \/ Lack = 0
Rest == IF cur.o + Lack > sent[cur.m] THEN [m |-> cur.m + 1, o |-> 0]
                                      ELSE [cur EXCEPT !.o = @ + Lack]

(* Faulty variant: what follows the message in the chunk is copied too.     *)
BugCopyAll ==
    /\ at = "set" /\ ~m_IsNothing /\ m_nMsgLen \notin {0, Garbage}
    /\ m_Buffer' = IF Follows THEN m_Buffer ELSE Nowhere
    /\ m_nBuffLen' = m_nBuffLen + Here(cur) + (IF last.m = cur.m THEN 0 ELSE last.o)
    /\ Return0
    /\ UNCHANGED <<sent, dispatched, last, headCut, m_IsNothing, m_nMsgLen>>

(* The head has been read before: the chunk completes the message or is     *)
(* its middle.                                                              *)
Continue ==
    /\ at = "set" /\ ~m_IsNothing /\ m_nMsgLen \notin {0, Garbage}
    /\ m_Buffer' = IF Follows THEN m_Buffer ELSE Nowhere
    /\ IF Here(cur) >= Lack
       THEN m_nBuffLen' = m_nMsgLen /\ ReturnAt(Rest)
       ELSE m_nBuffLen' = m_nBuffLen + Here(cur) /\ Return0
    /\ UNCHANGED <<sent, dispatched, last, headCut, m_IsNothing, m_nMsgLen>>

(* With a length that is none anything may complete it. *)
ContinueGarbage ==
    /\ at = "set" /\ ~m_IsNothing /\ m_nMsgLen = Garbage
    /\ \/ Return0 /\ UNCHANGED m_nBuffLen
       \/ /\ m_nBuffLen' = Garbage
          /\ \E m \in cur.m .. last.m, o \in Cuts :
                LET q == [m |-> m, o |-> o]
                IN  IsPlace(q) /\ Before(cur, q) /\ ~Before(last, q) /\ ReturnAt(q)
    /\ UNCHANGED <<sent, dispatched, last, headCut, m_IsNothing, m_nMsgLen, m_Buffer>>

-----------------------------------------------------------------------------
(* DealRecvBuff *)

(* The message DealMsg is given. *)
Whole == m_Buffer # Nowhere /\ m_Buffer.o = 1 /\ m_nMsgLen = sent[m_Buffer.m]
DealMsg == dispatched' = Append(dispatched, IF Whole THEN m_Buffer.m ELSE 0)

ResetModel == m_IsNothing' = TRUE /\ m_nMsgLen' = 0 /\ m_nBuffLen' = 0 /\ m_Buffer' = Nowhere

(* Faulty variant: the model is not reset between two messages. *)
BugNoReset ==
    /\ at = "deal" /\ at' = "set"
    /\ DealMsg
    /\ UNCHANGED <<sent, cur, last, headCut, model>>

(* More follows in the chunk. *)
DealAndGoOn ==
    /\ at = "deal" /\ at' = "set"
    /\ DealMsg /\ ResetModel
    /\ UNCHANGED <<sent, cur, last, headCut>>

(* Faulty variant: a message that ends with its chunk waits for the next.   *)
BugNoCheck ==
    /\ at = "check" /\ at' = "recv"
    /\ UNCHANGED <<sent, dispatched, cur, last, headCut, model>>

(* The chunk is used up: IsIntegrityMsg. *)
CheckIntegrity ==
    /\ at = "check" /\ at' = "recv"
    /\ IF m_nMsgLen = m_nBuffLen /\ m_nBuffLen # 0
       THEN DealMsg /\ ResetModel
       ELSE UNCHANGED <<dispatched, model>>
    /\ UNCHANGED <<sent, cur, last, headCut>>

(* A memcpy has gone beyond the buffer, into the lengths behind it and the  *)
(* heap: nothing is said of the receive thread from there on.               *)
Overrun == m_nBuffLen > BufferLen

ReceiveStep ==
    /\ ~Overrun
    /\ \/ Recv \/ NoSign \/ SignOnly \/ SignAndHead \/ HeadFirst \/ Continue
       \/ ContinueGarbage \/ DealAndGoOn \/ CheckIntegrity

Next == ReceiveStep \/ \E len \in MsgLens : Send(len)

(* The receive thread is scheduled and TCP delivers. *)
Spec == Init /\ [][Next]_vars /\ WF_vars(ReceiveStep)

-----------------------------------------------------------------------------
(* Properties *)

(* The i-th message DealMsg is called for is the i-th message sent, whole.  *)
DispatchedAsSent == \A i \in 1 .. Len(dispatched) : dispatched[i] = i

(* WorkManager.cpp:1296: what is not yet enough waits for the next call of  *)
(* DealRecvBuff.  So once all that was sent has been received, all of it    *)
(* has been dispatched: no message, and no part of one, is lost.            *)
NothingLeftBehind ==
    at = "recv" /\ cur = WireEnd => Len(dispatched) = Len(sent)

(* That is so as long as no chunk has ended inside a head.                  *)
NothingLeftBehindWhole == headCut \/ NothingLeftBehind

(* However TCP cuts the stream the reader implements a stream of messages,  *)
(* dispatched whole and in order, each eventually, until a chunk ends       *)
(* inside a head or a message overruns the buffer; what is dispatched after *)
(* a cut head may be no message or leave one out but never goes back        *)
(* (SetRecvBuffer, DealRecvBuff).                                           *)
Stream == INSTANCE MessageStream WITH delivered <- dispatched, broken <- headCut \/ Overrun
ImplementsStream == Stream!Spec

(* While no chunk has ended inside a head, the buffer is overrun by the     *)
(* bytes of a message that is longer than it and by nothing else: of a      *)
(* chunk only what belongs to the message is copied behind what is there    *)
(* (GetLackLen), whatever precedes or follows it.                           *)
BufferIsEnough ==
    Overrun => headCut \/ (m_Buffer # Nowhere /\ sent[m_Buffer.m] > BufferLen)

(* RecvPacketModel.h:3-5: with 1024*11 bytes the buffer is not exceeded.    *)
BufferIsNeverExceeded == headCut \/ ~Overrun

==============================================================================
