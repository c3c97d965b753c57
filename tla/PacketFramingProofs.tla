------------------------- MODULE PacketFramingProofs -------------------------
(***************************************************************************)
(* Theorems about the framing of the receive stream, for any lengths of    *)
(* messages, any number of them and any cuts.  There are two inductive     *)
(* invariants.  IInv, kept until a chunk ends inside a head, says what the *)
(* packet model holds, by the place in the stream up to which it has read. *)
(* BrokenInv is kept for ever: the reader stays in range, goes forward     *)
(* only, and what its buffer holds is later than all it has dispatched.    *)
(***************************************************************************)
EXTENDS PacketFraming, SequenceTheorems, TLAPS

(* The packet model after ResetModel, after a sign, and with the first k    *)
(* bytes of message m.                                                      *)
HasNothing == m_IsNothing /\ m_nMsgLen = 0 /\ m_nBuffLen = 0 /\ m_Buffer = Nowhere
HasSign    == ~m_IsNothing /\ m_nMsgLen = 0 /\ m_nBuffLen = 0 /\ m_Buffer = Nowhere
Has(m, k)  == ~m_IsNothing /\ m_nMsgLen = sent[m] /\ m_nBuffLen = k /\ m_Buffer = [m |-> m, o |-> 1]

(* Everything before p was read; the message before p is to be dispatched.  *)
Reading(p) ==
    /\ Len(dispatched) = p.m - 1
    /\ \/ p.o = 0 /\ HasNothing
       \/ p.o = 1 /\ HasSign
       \/ p.o > HeadLen /\ Has(p.m, p.o - 1)
Complete(p) ==
    /\ p.m > 1 /\ p.o = 0
    /\ Len(dispatched) = p.m - 2
    /\ Has(p.m - 1, sent[p.m - 1])

IsCut(p) == IsPlace(p) /\ p \in Place /\ (p.o = 0 \/ p.o = 1 \/ p.o > HeadLen)
IInv ==
    /\ sent \in Seq(MsgLens) /\ Len(sent) <= MaxMsgs
    /\ dispatched \in Seq(0 .. MaxMsgs) /\ DispatchedAsSent
    /\ at \in {"recv", "set", "deal", "check"}
    /\ IsCut(cur) /\ IsCut(last)
    /\ at \in {"recv", "check"} => cur = last
    /\ at \in {"set", "deal"}   => Before(cur, last)
    /\ at \in {"recv", "set"}   => Reading(cur)
    /\ at = "deal"  => Complete(cur)
    /\ at = "check" => Reading(cur) \/ Complete(cur)

(* The chunk is not yet used up where it is being used. *)
InChunk == at \in {"set", "deal"} => Before(cur, last)
(* A length that was read is not exceeded by what is held of the message,   *)
(* and not reached before the message is dealt with.                        *)
Lengths ==
    \/ m_nMsgLen = Garbage
    \/ /\ m_nMsgLen \in Nat /\ m_nBuffLen \in Nat /\ m_nBuffLen <= m_nMsgLen
       /\ at \in {"recv", "set"} => m_nMsgLen = 0 \/ m_nBuffLen # m_nMsgLen
(* The buffer holds bytes of one message, later than those dispatched; the  *)
(* whole of it only once the reader is past it.                             *)
Holds ==
    m_Buffer # Nowhere =>
        /\ m_Buffer.o = 1 /\ m_Buffer.m \in 1 .. Len(sent) /\ m_Buffer.m <= cur.m
        /\ m_nMsgLen = sent[m_Buffer.m]
        /\ \A i \in 1 .. Len(dispatched) : dispatched[i] < m_Buffer.m
        /\ at = "deal" => m_Buffer.m < cur.m
        /\ m_nBuffLen = m_nMsgLen => m_Buffer.m < cur.m
BrokenInv ==
    /\ TypeOK /\ InChunk /\ Lengths /\ Holds
    /\ \A i \in 1 .. Len(dispatched) : dispatched[i] < cur.m

-----------------------------------------------------------------------------
(* The lengths of the messages sent are naturals, long enough for a head.   *)
LEMMA SentLengths ==
    ASSUME sent \in Seq(MsgLens)
    PROVE  /\ Len(sent) \in Nat /\ HeadLen \in Nat \ {0}
           /\ \A m \in 1 .. Len(sent) : sent[m] \in Nat /\ sent[m] >= HeadLen
<1>1. Len(sent) \in Nat /\ \A m \in 1 .. Len(sent) : sent[m] \in MsgLens
  BY ElementOfSeq, LenProperties
<1>2. HeadLen \in Nat \ {0} /\ \A len \in MsgLens : len \in Nat /\ HeadLen <= len
  BY PacketFramingAssumption
<1>3. ASSUME NEW m \in 1 .. Len(sent) PROVE sent[m] \in Nat /\ sent[m] >= HeadLen
  <2>1. sent[m] \in MsgLens
    BY <1>1
  <2>2. QED
    BY <2>1, <1>2
<1>4. QED
  BY <1>1, <1>2, <1>3

(* A place before another one is inside a message that has been sent.       *)
LEMMA BeforePlace ==
    ASSUME sent \in Seq(MsgLens), NEW p, NEW q, p \in Place, q \in Place, IsPlace(p), IsPlace(q), Before(p, q)
    PROVE  /\ p.m \in 1 .. Len(sent) /\ p.o \in 0 .. sent[p.m]
           /\ sent[p.m] \in Nat /\ sent[p.m] >= HeadLen
           /\ q.m = p.m => q.o \in 0 .. sent[p.m] /\ q.o > p.o
           /\ q.m # p.m => /\ q.m > p.m /\ q.m <= Len(sent) + 1
                           /\ [m |-> p.m + 1, o |-> 0] = q \/ Before([m |-> p.m + 1, o |-> 0], q)
<1>1. Len(sent) \in Nat /\ \A m \in 1 .. Len(sent) : sent[m] \in Nat /\ sent[m] >= HeadLen
  BY SentLengths
<1>2. p.m \in Nat /\ p.o \in Nat /\ q.m \in Nat /\ q.o \in Nat /\ q = [m |-> q.m, o |-> q.o]
  BY PacketFramingAssumption DEF Place
<1>3. p # WireEnd
  BY <1>1, <1>2 DEF Before, IsPlace, WireEnd
<1>4. q.m <= Len(sent) + 1
  BY <1>1, <1>2 DEF IsPlace, WireEnd
<1>5. p.m \in 1 .. Len(sent) /\ p.o \in 0 .. sent[p.m]
  BY <1>3 DEF IsPlace
<1>6. q.m = p.m => q.o \in 0 .. sent[p.m] /\ q.o > p.o
  BY <1>1, <1>2, <1>5 DEF Before, IsPlace, WireEnd
<1>7. q.m # p.m => q.m > p.m
  BY <1>2 DEF Before
<1>8. q.m # p.m => [m |-> p.m + 1, o |-> 0] = q \/ Before([m |-> p.m + 1, o |-> 0], q)
  BY <1>2, <1>7 DEF Before
<1>9. QED
  BY <1>1, <1>4, <1>5, <1>6, <1>7, <1>8

(* The start of the message after one that has been sent is a cut.          *)
LEMMA NextStart ==
    ASSUME sent \in Seq(MsgLens), Len(sent) <= MaxMsgs, NEW m \in 1 .. Len(sent)
    PROVE  IsCut([m |-> m + 1, o |-> 0])
<1>1. Len(sent) \in Nat /\ \A k \in 1 .. Len(sent) : sent[k] \in Nat
  BY SentLengths
<1>2. IsPlace([m |-> m + 1, o |-> 0])
  BY <1>1 DEF IsPlace, WireEnd
<1>3. [m |-> m + 1, o |-> 0] \in Place
  BY <1>1, PacketFramingAssumption DEF Place
<1>4. QED
  BY <1>2, <1>3 DEF IsCut

(* The first bytes of a message are in the buffer, up to the end of the     *)
(* chunk or of the message.                                                 *)
LEMMA FirstStep ==
    ASSUME IInv, at = "set", NEW p, p = [m |-> cur.m, o |-> 1], p = cur \/ Before(cur, p), Before(p, last),
           Len(dispatched) = cur.m - 1, TakeHead(p), UNCHANGED <<sent, dispatched, last>>
    PROVE  IInv'
<1>1. /\ cur.m \in 1 .. Len(sent) /\ sent[cur.m] \in Nat /\ sent[cur.m] >= HeadLen
      /\ last.m = cur.m => last.o \in 0 .. sent[cur.m]
      /\ last.m # cur.m => /\ last.m > cur.m
                           /\ [m |-> cur.m + 1, o |-> 0] = last \/ Before([m |-> cur.m + 1, o |-> 0], last)
      /\ HeadLen \in Nat \ {0} /\ cur.m \in Nat /\ last.m \in Nat /\ last.o \in Nat
  BY BeforePlace, SentLengths DEF IInv, IsCut, Place
<1>2. HasHead(p)
  BY <1>1 DEF HasHead, Here, IInv, IsCut, Before
<1>3. m_IsNothing' = FALSE /\ m_nMsgLen' = sent[cur.m] /\ m_nBuffLen' = Here(p) /\ m_Buffer' = p
  BY <1>2 DEF TakeHead
<1>4. CASE last.m > cur.m
  <2>1. ReturnAt([m |-> cur.m + 1, o |-> 0])
    BY <1>2, <1>4 DEF TakeHead
  <2>2. Here(p) = sent[cur.m]
    BY <1>1, <1>4 DEF Here
  <2>3. cur' = [m |-> cur.m + 1, o |-> 0] /\ IsCut(cur)'
    BY <2>1, <1>1, NextStart DEF ReturnAt, IInv, IsCut, IsPlace, WireEnd
  <2>4. Complete(cur)'
    BY <2>2, <2>3, <1>1, <1>3 DEF Complete, Has
  <2>5. QED
    BY <2>1, <2>3, <2>4, <1>1, <1>4 DEF ReturnAt, IInv, IsCut, IsPlace, WireEnd, DispatchedAsSent, Before
<1>5. CASE ~(last.m > cur.m)
  <2>1. last.m = cur.m /\ Here(p) = last.o - 1 /\ last.o > HeadLen
    BY <1>1, <1>5 DEF Here, IInv, IsCut, Before
  <2>2. cur' = last /\ at' = "check"
    BY <1>2, <1>5 DEF TakeHead, Return0
  <2>3. Reading(cur)'
    BY <2>1, <2>2, <1>1, <1>3 DEF Reading, Has
  <2>4. QED
    BY <2>2, <2>3 DEF IInv, IsCut, IsPlace, WireEnd, DispatchedAsSent
<1>6. QED
  BY <1>4, <1>5

(* The chunk is used up by a sign.                                          *)
LEMMA SignOnlyStep == IInv /\ SignOnly => IInv'
<1> SUFFICES ASSUME IInv, SignOnly PROVE IInv'
  OBVIOUS
<1>1. at = "set" /\ Reading(cur) /\ Before(cur, last) /\ m_IsNothing
  BY DEF IInv, SignOnly
<1>2. cur.o = 0 /\ HasNothing /\ Len(dispatched) = cur.m - 1
  BY <1>1 DEF Reading, HasSign, Has
<1>3. /\ sent[cur.m] \in Nat /\ sent[cur.m] >= HeadLen /\ HeadLen \in Nat \ {0}
      /\ last.m = cur.m => last.o \in Nat /\ last.o > cur.o
      /\ cur = [m |-> cur.m, o |-> 0]
  BY <1>1, <1>2, BeforePlace, SentLengths DEF IInv, IsCut, Place
<1>4. After(cur) = [m |-> cur.m, o |-> 1]
  BY <1>2, <1>3 DEF After
<1>5. last.m = cur.m /\ last.o - 1 < HeadLen
  BY <1>2, <1>4 DEF SignOnly
<1>6. last.o = 1
  BY <1>2, <1>3, <1>5 DEF IInv, IsCut
<1>7. Reading(cur)'
  BY <1>2, <1>5, <1>6 DEF SignOnly, Return0, Reading, HasNothing, HasSign
<1>8. QED
  BY <1>7 DEF SignOnly, Return0, IInv, IsCut, IsPlace, WireEnd, DispatchedAsSent

(* A sign and the head behind it are read.                                  *)
LEMMA SignAndHeadStep == IInv /\ SignAndHead => IInv'
<1> SUFFICES ASSUME IInv, SignAndHead PROVE IInv'
  OBVIOUS
<1>1. at = "set" /\ Reading(cur) /\ Before(cur, last) /\ m_IsNothing
  BY DEF IInv, SignAndHead
<1>2. cur.o = 0 /\ Len(dispatched) = cur.m - 1
  BY <1>1 DEF Reading, HasSign, Has
<1>3. /\ cur.m \in Nat /\ sent[cur.m] \in Nat /\ sent[cur.m] >= HeadLen /\ HeadLen \in Nat \ {0}
      /\ last.m = cur.m => last.o \in Nat /\ last.o > cur.o
      /\ last.m # cur.m => last.m > cur.m
      /\ cur = [m |-> cur.m, o |-> 0] /\ last = [m |-> last.m, o |-> last.o]
  <2>1. /\ sent \in Seq(MsgLens) /\ cur \in Place /\ last \in Place
        /\ IsPlace(cur) /\ IsPlace(last)
    BY DEF IInv, IsCut
  <2>2. cur = [m |-> cur.m, o |-> 0] /\ last = [m |-> last.m, o |-> last.o]
    BY <1>2, <2>1 DEF Place
  <2>3. /\ cur.m \in 1 .. Len(sent) /\ sent[cur.m] \in Nat /\ sent[cur.m] >= HeadLen
        /\ last.m = cur.m => last.o \in 0 .. sent[cur.m] /\ last.o > cur.o
        /\ last.m # cur.m => last.m > cur.m
    BY <1>1, <2>1, BeforePlace
  <2>4. Len(sent) \in Nat /\ HeadLen \in Nat \ {0} /\ last.o \in Nat
    BY <2>1, SentLengths DEF Place
  <2>5. QED
    BY <2>2, <2>3, <2>4
<1>4. After(cur) = [m |-> cur.m, o |-> 1]
  BY <1>2, <1>3 DEF After
<1>5. Before(cur, After(cur)) /\ Before(After(cur), last)
  BY <1>2, <1>3, <1>4 DEF Before, SignAndHead
<1>6. QED
  BY <1>1, <1>2, <1>4, <1>5, FirstStep DEF SignAndHead

(* The head is read that a chunk begins with.                               *)
LEMMA HeadFirstStep == IInv /\ HeadFirst => IInv'
<1> SUFFICES ASSUME IInv, HeadFirst PROVE IInv'
  OBVIOUS
<1>1. at = "set" /\ Reading(cur) /\ Before(cur, last) /\ ~m_IsNothing /\ m_nMsgLen = 0
  BY DEF IInv, HeadFirst
<1>2. sent[cur.m] \in Nat /\ sent[cur.m] >= HeadLen /\ HeadLen \in Nat \ {0} /\ cur = [m |-> cur.m, o |-> cur.o]
  BY <1>1, BeforePlace, SentLengths DEF IInv, IsCut, Place
<1>3. cur.o = 1 /\ Len(dispatched) = cur.m - 1
  BY <1>1, <1>2 DEF Reading, HasNothing, Has
<1>4. QED
  BY <1>1, <1>2, <1>3, FirstStep DEF HeadFirst

(* The rest of a message, or more of it, is added to the buffer.            *)
LEMMA ContinueStep == IInv /\ Continue => IInv'
<1> SUFFICES ASSUME IInv, Continue PROVE IInv'
  OBVIOUS
<1>1. at = "set" /\ Reading(cur) /\ Before(cur, last) /\ ~m_IsNothing /\ m_nMsgLen # 0
  BY DEF IInv, Continue
<1>2. cur.o > HeadLen /\ Has(cur.m, cur.o - 1) /\ Len(dispatched) = cur.m - 1
  BY <1>1 DEF Reading, HasNothing, HasSign
<1>3. /\ cur.m \in 1 .. Len(sent) /\ cur.o \in 0 .. sent[cur.m] /\ sent[cur.m] \in Nat
      /\ last.m = cur.m => last.o \in 0 .. sent[cur.m] /\ last.o > cur.o
      /\ last.m # cur.m => /\ last.m > cur.m
                           /\ [m |-> cur.m + 1, o |-> 0] = last \/ Before([m |-> cur.m + 1, o |-> 0], last)
      /\ HeadLen \in Nat \ {0} /\ cur.m \in Nat /\ last.m \in Nat /\ last.o \in Nat
  BY <1>1, BeforePlace, SentLengths DEF IInv, IsCut, Place
<1>4. Lack = sent[cur.m] - (cur.o - 1) /\ Follows
  BY <1>2, <1>3 DEF Has, Lack, Follows, Nowhere
<1>5. m_IsNothing' = FALSE /\ m_nMsgLen' = sent[cur.m] /\ m_Buffer' = [m |-> cur.m, o |-> 1]
  BY <1>2, <1>4 DEF Continue, Has
<1>6. UNCHANGED <<sent, dispatched, last>>
  BY DEF Continue
<1>7. CASE last.m # cur.m
  <2>1. Here(cur) = sent[cur.m] + 1 - cur.o
    BY <1>7 DEF Here
  <2>2. Here(cur) >= Lack
    BY <2>1, <1>3, <1>4
  <2>3. Rest = [m |-> cur.m + 1, o |-> 0]
    BY <1>3, <1>4 DEF Rest
  <2>4. m_nBuffLen' = sent[cur.m] /\ ReturnAt([m |-> cur.m + 1, o |-> 0])
    BY <2>2, <2>3, <1>2 DEF Continue, Has
  <2>5. cur' = [m |-> cur.m + 1, o |-> 0] /\ IsCut(cur)'
    BY <2>4, <1>3, <1>6, NextStart DEF ReturnAt, IInv, IsCut, IsPlace, WireEnd
  <2>6. Complete(cur)'
    BY <2>4, <2>5, <1>2, <1>3, <1>5, <1>6 DEF Complete, Has
  <2>7. QED
    BY <2>4, <2>5, <2>6, <1>3, <1>6, <1>7 DEF ReturnAt, IInv, IsCut, IsPlace, WireEnd, DispatchedAsSent, Before
<1>8. CASE last.m = cur.m
  <2>1. Here(cur) = last.o - cur.o
    BY <1>8 DEF Here
  <2>2. ~(Here(cur) >= Lack)
    BY <2>1, <1>3, <1>4, <1>8
  <2>3. m_nBuffLen' = last.o - 1 /\ cur' = last /\ at' = "check"
    BY <2>1, <2>2, <1>2, <1>3, <1>8 DEF Continue, Has, Return0
  <2>4. last.o > HeadLen
    BY <1>2, <1>3, <1>8
  <2>5. Reading(cur)'
    BY <2>3, <2>4, <1>2, <1>5, <1>6, <1>8 DEF Reading, Has
  <2>6. QED
    BY <2>3, <2>5, <1>6 DEF IInv, IsCut, IsPlace, WireEnd, DispatchedAsSent
<1>9. QED
  BY <1>7, <1>8

(* A whole message is dispatched: the next number is added.                 *)
LEMMA DispatchStep ==
    ASSUME IInv, Complete(cur), DealMsg
    PROVE  /\ Len(dispatched) \in Nat
           /\ dispatched' = Append(dispatched, Len(dispatched) + 1)
           /\ dispatched' \in Seq(0 .. MaxMsgs)
           /\ Len(dispatched') = cur.m - 1
           /\ \A i \in 1 .. Len(dispatched') : dispatched'[i] = i
<1>1. cur.m \in Nat /\ cur.m > 1 /\ cur.m <= MaxMsgs + 1 /\ Len(dispatched) = cur.m - 2
  BY PacketFramingAssumption DEF IInv, IsCut, Place, Complete
<1>2. Whole /\ m_Buffer.m = cur.m - 1
  BY DEF Complete, Has, Whole, Nowhere
<1>3. dispatched' = Append(dispatched, cur.m - 1)
  BY <1>2 DEF DealMsg
<1>4. cur.m - 1 \in 0 .. MaxMsgs
  BY <1>1, PacketFramingAssumption
<1>5. QED
  BY <1>1, <1>3, <1>4, AppendProperties DEF IInv, DispatchedAsSent

(* Inside a message the buffer holds a part of it only: IsIntegrityMsg says *)
(* that there is no message to deal with.                                   *)
LEMMA ReadingIsPart ==
    ASSUME IInv, Reading(cur)
    PROVE  ~(m_nMsgLen = m_nBuffLen /\ m_nBuffLen # 0)
<1>1. CASE HasNothing \/ HasSign
  BY <1>1 DEF HasNothing, HasSign
<1>2. CASE cur.o > HeadLen /\ Has(cur.m, cur.o - 1)
  <2>1. cur.o \in Nat /\ cur.o > 0
    BY <1>2, SentLengths DEF IInv, IsCut, Place
  <2>2. cur.o \in 0 .. sent[cur.m] /\ sent[cur.m] \in Nat
    BY <2>1, SentLengths DEF IInv, IsCut, IsPlace, WireEnd
  <2>3. QED
    BY <1>2, <2>1, <2>2 DEF Has
<1>3. QED
  BY <1>1, <1>2 DEF Reading

(* Dispatching leaves the packet model empty and the chunk where it is.     *)
LEMMA DealStep == IInv /\ (DealAndGoOn \/ CheckIntegrity) => IInv'
<1>1. ASSUME IInv, DealAndGoOn PROVE IInv'
  <2>1. Complete(cur) /\ DealMsg /\ at = "deal"
    BY <1>1 DEF IInv, DealAndGoOn
  <2>2. /\ dispatched' \in Seq(0 .. MaxMsgs) /\ Len(dispatched') = cur.m - 1
        /\ \A i \in 1 .. Len(dispatched') : dispatched'[i] = i
    BY <1>1, <2>1, DispatchStep
  <2>3. Reading(cur)'
    BY <1>1, <2>1, <2>2 DEF DealAndGoOn, ResetModel, Reading, HasNothing, Complete
  <2>4. QED
    BY <1>1, <2>2, <2>3 DEF DealAndGoOn, IInv, IsCut, IsPlace, WireEnd, DispatchedAsSent
<1>2. ASSUME IInv, CheckIntegrity, Complete(cur) PROVE IInv'
  <2>1. m_nMsgLen = m_nBuffLen /\ m_nBuffLen # 0
    <3>1. cur.m \in Nat /\ cur.m > 1 /\ cur.m <= Len(sent) + 1
      BY <1>2, SentLengths DEF Complete, IInv, IsCut, IsPlace, Place, WireEnd
    <3>2. sent[cur.m - 1] \in Nat /\ sent[cur.m - 1] # 0
      BY <1>2, <3>1, SentLengths DEF IInv
    <3>3. QED
      BY <1>2, <3>2 DEF Complete, Has
  <2>2. DealMsg /\ ResetModel
    BY <1>2, <2>1 DEF CheckIntegrity
  <2>3. /\ dispatched' \in Seq(0 .. MaxMsgs) /\ Len(dispatched') = cur.m - 1
        /\ \A i \in 1 .. Len(dispatched') : dispatched'[i] = i
    BY <1>2, <2>2, DispatchStep
  <2>4. Reading(cur)'
    BY <1>2, <2>2, <2>3 DEF CheckIntegrity, ResetModel, Reading, HasNothing, Complete
  <2>5. QED
    BY <1>2, <2>3, <2>4 DEF CheckIntegrity, IInv, IsCut, IsPlace, WireEnd, DispatchedAsSent
<1>3. ASSUME IInv, CheckIntegrity, Reading(cur) PROVE IInv'
  <2>1. ~(m_nMsgLen = m_nBuffLen /\ m_nBuffLen # 0)
    BY <1>3, ReadingIsPart DEF CheckIntegrity, IInv
  <2>2. UNCHANGED <<dispatched, model, sent, cur, last>> /\ at = "check" /\ at' = "recv"
    BY <1>3, <2>1 DEF CheckIntegrity
  <2>3. QED
    BY <1>3, <2>2 DEF IInv, IsCut, IsPlace, WireEnd, DispatchedAsSent, Reading, HasNothing, HasSign, Has, model
<1>4. QED
  BY <1>1, <1>2, <1>3 DEF IInv, CheckIntegrity

(* A message that is sent moves the end of the stream, not what is before.  *)
LEMMA SendStep == ASSUME NEW len \in MsgLens, IInv, Send(len) PROVE IInv'
<1>1. /\ Len(sent) \in Nat /\ Len(sent) < MaxMsgs /\ len \in Nat
      /\ \A m \in 1 .. Len(sent) : sent[m] \in Nat
  BY SentLengths, PacketFramingAssumption DEF IInv, Send
<1>2. /\ sent' \in Seq(MsgLens) /\ Len(sent') = Len(sent) + 1 /\ sent'[Len(sent) + 1] = len
      /\ \A m \in 1 .. Len(sent) : sent'[m] = sent[m]
  BY AppendProperties DEF IInv, Send
<1>3. ASSUME NEW p, IsCut(p) PROVE IsPlace(p)' /\ (Reading(p) => Reading(p)') /\ (Complete(p) => Complete(p)')
  <2>1. p \in Place /\ p.m \in Nat /\ p.o \in Nat /\ p.m >= 1
    BY <1>3, PacketFramingAssumption DEF IsCut, Place
  <2>2. CASE p = WireEnd
    <3>1. IsPlace(p)'
      BY <1>1, <1>2, <2>2 DEF IsPlace, WireEnd
    <3>2. p.m = Len(sent) + 1 /\ p.o = 0
      BY <2>2 DEF WireEnd
    <3>3. Reading(p) => Reading(p)'
      BY <1>1, <1>2, <3>2, PacketFramingAssumption DEF Send, Reading, HasNothing, HasSign, Has, model
    <3>4. Complete(p) => Complete(p)'
      BY <1>1, <1>2, <3>2 DEF Send, Complete, Has, model
    <3>5. QED
      BY <3>1, <3>3, <3>4
  <2>3. CASE p.m \in 1 .. Len(sent) /\ p.o \in 0 .. sent[p.m]
    <3>1. IsPlace(p)'
      BY <1>1, <1>2, <2>3 DEF IsPlace
    <3>2. Reading(p) => Reading(p)'
      BY <1>1, <1>2, <2>3 DEF Send, Reading, HasNothing, HasSign, Has, model
    <3>3. Complete(p) => Complete(p)'
      BY <1>1, <1>2, <2>1, <2>3 DEF Send, Complete, Has, model
    <3>4. QED
      BY <3>1, <3>2, <3>3
  <2>4. QED
    BY <1>3, <2>2, <2>3 DEF IsCut, IsPlace
<1>4. UNCHANGED <<dispatched, cur, last, at, m_IsNothing, m_nMsgLen, m_nBuffLen, m_Buffer>>
  BY DEF Send, chunk, model
<1>5. IsPlace(cur)' /\ (Reading(cur) => Reading(cur)') /\ (Complete(cur) => Complete(cur)') /\ IsPlace(last)'
  BY <1>3, <1>4 DEF IInv
<1>6. IsCut(cur)' /\ IsCut(last)' /\ (Before(cur, last) => Before(cur, last)')
  BY <1>4, <1>5 DEF IInv, IsCut, Place, Before
<1>7. sent' \in Seq(MsgLens) /\ Len(sent') <= MaxMsgs
  BY <1>1, <1>2, PacketFramingAssumption
<1>8. DispatchedAsSent'
  BY <1>4 DEF IInv, DispatchedAsSent
<1>9. QED
  BY <1>4, <1>5, <1>6, <1>7, <1>8 DEF IInv

(* recv returns a chunk that does not end inside a head.                    *)
LEMMA RecvStep == ASSUME IInv, Recv, ~headCut' PROVE IInv'
<1>1. PICK m \in cur.m .. Len(sent) + 1, o \in Cuts :
          /\ IsPlace([m |-> m, o |-> o]) /\ Before(cur, [m |-> m, o |-> o])
          /\ last' = [m |-> m, o |-> o]
  BY DEF Recv
<1>2. o \in Nat /\ (o = 0 \/ o = 1 \/ o > HeadLen)
  <2>1. o \notin 2 .. HeadLen
    BY <1>1 DEF Recv
  <2>2. QED
    BY <2>1, PacketFramingAssumption
<1>3. m \in 1 .. MaxMsgs + 1
  BY SentLengths, PacketFramingAssumption DEF IInv, IsCut, Place
<1>4. IsCut(last)'
  BY <1>1, <1>2, <1>3 DEF IsCut, Place, Recv, IsPlace, WireEnd
<1>5. Reading(cur)' /\ IsCut(cur)'
  BY DEF IInv, Recv, Reading, HasNothing, HasSign, Has, IsCut, IsPlace, WireEnd, model
<1>6. QED
  BY <1>1, <1>4, <1>5 DEF IInv, Recv, DispatchedAsSent, Before

-----------------------------------------------------------------------------
(* The invariant holds initially.                                           *)
LEMMA InvInit == Init => IInv
BY PacketFramingAssumption DEF Init, IInv, IsCut, IsPlace, Place, WireEnd, DispatchedAsSent, Reading, HasNothing, Before

(* Every step keeps the invariant, unless a chunk ends inside a head.       *)
LEMMA InvStep == ASSUME IInv, [Next]_vars, ~headCut' PROVE IInv'
<1>1. CASE Recv
  BY <1>1, RecvStep
<1>2. CASE NoSign
  <2>1. Reading(cur) /\ m_IsNothing /\ cur.o # 0
    BY <1>2 DEF NoSign, IInv
  <2>2. QED
    BY <2>1 DEF Reading, HasSign, Has
<1>3. CASE SignOnly \/ SignAndHead \/ HeadFirst \/ Continue
  BY <1>3, SignOnlyStep, SignAndHeadStep, HeadFirstStep, ContinueStep
<1>4. CASE ContinueGarbage
  <2>1. Reading(cur) /\ Before(cur, last) /\ m_nMsgLen = Garbage
    BY <1>4 DEF ContinueGarbage, IInv
  <2>2. sent[cur.m] \in Nat
    BY <2>1, BeforePlace DEF IInv, IsCut
  <2>3. QED
    BY <2>1, <2>2 DEF Reading, HasNothing, HasSign, Has, Garbage
<1>5. CASE DealAndGoOn \/ CheckIntegrity
  BY <1>5, DealStep
<1>6. ASSUME NEW len \in MsgLens, Send(len) PROVE IInv'
  BY <1>6, SendStep
<1>7. CASE UNCHANGED vars
  BY <1>7 DEF vars, chunk, model, IInv, IsCut, IsPlace, WireEnd, DispatchedAsSent, Reading, Complete, HasNothing,
     HasSign, Has
<1>8. QED
  BY <1>1, <1>2, <1>3, <1>4, <1>5, <1>6, <1>7 DEF Next, ReceiveStep

(* A head that was cut stays cut.                                           *)
LEMMA CutStays == ASSUME headCut, [Next]_vars PROVE headCut'
BY DEF Next, ReceiveStep, Send, Recv, NoSign, SignOnly, SignAndHead, HeadFirst, Continue, ContinueGarbage,
   DealAndGoOn, CheckIntegrity, chunk, vars

(* Until a chunk ends inside a head the invariant holds.                    *)
LEMMA InvHolds == Spec => [](headCut \/ IInv)
<1>1. (headCut \/ IInv) /\ [Next]_vars => (headCut \/ IInv)'
  BY InvStep, CutStays
<1>2. QED
  BY <1>1, InvInit, PTL DEF Spec

(* The i-th message dispatched is the i-th message sent, whatever the       *)
(* lengths and wherever the stream is cut, until a head is cut.             *)
THEOREM DispatchedInOrder == Spec => [](headCut \/ DispatchedAsSent)
<1>1. headCut \/ IInv => headCut \/ DispatchedAsSent
  BY DEF IInv
<1>2. QED
  BY <1>1, InvHolds, PTL

(* Nothing that was sent is lost until a head is cut: when all of it has    *)
(* been received, all of it has been dispatched.                            *)
THEOREM NothingIsLost == Spec => []NothingLeftBehindWhole
<1>1. headCut \/ IInv => NothingLeftBehindWhole
  BY SentLengths DEF IInv, NothingLeftBehind, NothingLeftBehindWhole, Reading, WireEnd
<1>2. QED
  BY <1>1, InvHolds, PTL

(* However the chunks fall, until a head is cut only a message that is      *)
(* longer than the buffer goes beyond it.                                   *)
THEOREM OnlyLongMessagesOverrun == Spec => []BufferIsEnough
<1>1. ASSUME IInv, Overrun PROVE BufferIsEnough
  <2>1. \A m \in 1 .. Len(sent) : sent[m] \in Nat
    BY <1>1, SentLengths DEF IInv
  <2>2. ASSUME NEW m \in 1 .. Len(sent), NEW k \in Nat, Has(m, k), k <= sent[m]
        PROVE  BufferIsEnough
    <3>1. m_Buffer = [m |-> m, o |-> 1] /\ sent[m] > BufferLen
      BY <1>1, <2>1, <2>2, PacketFramingAssumption DEF Has, Overrun
    <3>2. m_Buffer # Nowhere /\ m_Buffer.m = m
      BY <3>1 DEF Nowhere
    <3>3. QED
      BY <3>1, <3>2 DEF BufferIsEnough
  <2>3. ASSUME NEW p, IsCut(p), Reading(p) \/ Complete(p)
        PROVE  BufferIsEnough
    <3>1. m_nBuffLen # 0
      BY <1>1, PacketFramingAssumption DEF Overrun
    <3>2. CASE Complete(p)
      <4>1. p.m \in 2 .. Len(sent) + 1
        BY <1>1, <2>3, <3>2, LenProperties DEF Complete, IInv, IsCut, IsPlace, WireEnd, Place
      <4>2. p.m - 1 \in 1 .. Len(sent)
        BY <1>1, <4>1, LenProperties DEF IInv
      <4>3. Has(p.m - 1, sent[p.m - 1]) /\ sent[p.m - 1] <= sent[p.m - 1]
        BY <2>1, <3>2, <4>2 DEF Complete
      <4>4. QED
        BY <2>1, <2>2, <4>2, <4>3
    <3>3. CASE p.o > HeadLen /\ Has(p.m, p.o - 1)
      <4>1. p.m \in 1 .. Len(sent) /\ p.o \in 0 .. sent[p.m]
        BY <1>1, <2>3, <3>3, PacketFramingAssumption DEF IsCut, IsPlace, WireEnd, Place
      <4>2. p.o - 1 \in Nat /\ p.o - 1 <= sent[p.m]
        BY <2>1, <3>3, <4>1, PacketFramingAssumption
      <4>3. QED
        BY <2>2, <3>3, <4>1, <4>2
    <3>4. QED
      BY <2>3, <3>1, <3>2, <3>3 DEF Reading, HasNothing, HasSign
  <2>4. QED
    BY <1>1, <2>3 DEF IInv
<1>2. headCut \/ IInv => BufferIsEnough
  BY <1>1 DEF BufferIsEnough
<1>3. QED
  BY <1>2, InvHolds, PTL

-----------------------------------------------------------------------------
(* The invariant that is kept even if a head is cut.                        *)

(* SetRecvBuffer goes on to q, which is further on in the chunk.            *)
Moves(q) ==
    /\ q \in Place /\ IsPlace(q) /\ Before(cur, q) /\ ~Before(last, q)
    /\ cur' = q /\ at' \in {"deal", "check"} /\ (at' = "deal" => q # last)

(* Where SetRecvBuffer is at work, the chunk begins in a message that has   *)
(* been sent.                                                               *)
LEMMA ChunkPlace ==
    ASSUME BrokenInv, at = "set"
    PROVE  /\ cur.m \in 1 .. Len(sent) /\ cur.o \in 0 .. sent[cur.m]
           /\ \A m \in 1 .. Len(sent) : sent[m] \in Nat
           /\ Len(sent) \in Nat /\ HeadLen \in Nat \ {0} /\ Len(sent) <= MaxMsgs /\ MaxMsgs \in Nat
           /\ last.m \in Nat /\ last.o \in Nat /\ cur.m <= last.m /\ last.m <= Len(sent) + 1
           /\ cur = [m |-> cur.m, o |-> cur.o] /\ last = [m |-> last.m, o |-> last.o]
           /\ last.m = cur.m => last.o \in 0 .. sent[cur.m] /\ last.o > cur.o
           /\ last.m \in 1 .. Len(sent) => last.o <= sent[last.m]
<1>1. sent \in Seq(MsgLens) /\ Len(sent) <= MaxMsgs /\ Before(cur, last)
      /\ cur \in Place /\ last \in Place /\ IsPlace(cur) /\ IsPlace(last)
  BY DEF BrokenInv, TypeOK, InChunk
<1>2. /\ cur.m \in 1 .. Len(sent) /\ cur.o \in 0 .. sent[cur.m]
      /\ last.m = cur.m => last.o \in 0 .. sent[cur.m] /\ last.o > cur.o
      /\ last.m # cur.m => last.m > cur.m /\ last.m <= Len(sent) + 1
  BY <1>1, BeforePlace
<1>3. /\ \A m \in 1 .. Len(sent) : sent[m] \in Nat
      /\ Len(sent) \in Nat /\ HeadLen \in Nat \ {0} /\ MaxMsgs \in Nat
  BY <1>1, SentLengths, PacketFramingAssumption
<1>4. /\ cur = [m |-> cur.m, o |-> cur.o] /\ last = [m |-> last.m, o |-> last.o]
      /\ last.m \in Nat /\ last.o \in Nat
  BY <1>1, <1>3 DEF Place
<1>5. last.m \in 1 .. Len(sent) => last.o <= sent[last.m]
  BY <1>1, <1>3, <1>4 DEF IsPlace, WireEnd
<1>6. QED
  BY <1>1, <1>2, <1>3, <1>4, <1>5

(* Both ways out of SetRecvBuffer go on. *)
LEMMA Return0Moves == ASSUME BrokenInv, at = "set", Return0 PROVE Moves(last)
<1>1. Before(cur, last) /\ last \in Place /\ IsPlace(last)
  BY DEF BrokenInv, TypeOK, InChunk
<1>2. last.m \in Nat /\ last.o \in Nat
  BY ChunkPlace
<1>3. QED
  BY <1>1, <1>2 DEF Moves, Return0, Before
(* So does a return with what follows in the chunk. *)
LEMMA ReturnAtMoves ==
    ASSUME NEW q \in Place, IsPlace(q), Before(cur, q), ~Before(last, q), ReturnAt(q)
    PROVE  Moves(q)
BY DEF Moves, ReturnAt

(* The place after the message at cur, if the chunk goes on into the next.  *)
LEMMA NextMoves ==
    ASSUME BrokenInv, at = "set", last.m > cur.m, ReturnAt([m |-> cur.m + 1, o |-> 0])
    PROVE  Moves([m |-> cur.m + 1, o |-> 0])
<1> DEFINE q == [m |-> cur.m + 1, o |-> 0]
<1>1. q \in Place /\ IsPlace(q) /\ Before(cur, q) /\ ~Before(last, q)
  BY ChunkPlace DEF Place, IsPlace, WireEnd, Before
<1>2. QED
  BY <1>1, ReturnAtMoves

(* SetRecvBuffer keeps the invariant if it keeps what concerns the buffer.  *)
LEMMA SetStep ==
    ASSUME BrokenInv, at = "set", NEW q, Moves(q), UNCHANGED <<sent, dispatched, last>>, headCut' = headCut,
           m_IsNothing' \in BOOLEAN,
           m_nMsgLen' \in Nat \cup {Garbage}, m_nBuffLen' \in Nat \cup {Garbage},
           m_Buffer' \in Place \cup {Nowhere}, Lengths', Holds'
    PROVE  BrokenInv'
<1>1. cur' = q /\ last' = last /\ last \in Place /\ IsPlace(last) /\ q \in Place
  BY DEF Moves, BrokenInv, TypeOK
<1>2. cur.m \in Nat /\ q.m \in Nat /\ q.o \in Nat /\ last.m \in Nat /\ last.o \in Nat /\ cur.m <= q.m
      /\ q = [m |-> q.m, o |-> q.o] /\ last = [m |-> last.m, o |-> last.o]
  BY <1>1, ChunkPlace DEF Moves, Before, Place
<1>3. IsPlace(cur)' /\ IsPlace(last)'
  BY <1>1 DEF IsPlace, WireEnd, Moves
<1>4. InChunk' /\ ~Before(last, cur)'
  BY <1>1, <1>2 DEF InChunk, Before, Moves
<1>5. TypeOK'
  BY <1>1, <1>3, <1>4 DEF TypeOK, BrokenInv, Moves
<1>6. \A i \in 1 .. Len(dispatched') : dispatched'[i] < cur'.m
  <2>1. Len(dispatched) \in Nat /\ \A i \in 1 .. Len(dispatched) : dispatched[i] \in Int
    BY ElementOfSeq, LenProperties, PacketFramingAssumption DEF BrokenInv, TypeOK
  <2>2. QED
    BY <1>1, <1>2, <2>1 DEF BrokenInv
<1>7. QED
  BY <1>4, <1>5, <1>6 DEF BrokenInv

(* A head is read: from then on the buffer holds bytes of its message only. *)
LEMMA HeadKeeps ==
    ASSUME BrokenInv, at = "set", NEW p, p \in Place, IsPlace(p), p = cur \/ Before(cur, p), Before(p, last),
           TakeHead(p), UNCHANGED <<sent, dispatched, last>>, headCut' = headCut
    PROVE  BrokenInv'
<1>1. /\ p.m \in Nat /\ p.o \in Nat /\ cur.m <= p.m /\ p.m <= last.m /\ p.m \in 1 .. Len(sent)
      /\ p.o \in 0 .. sent[p.m]
      /\ last.m = p.m => last.o \in 0 .. sent[p.m] /\ last.o > p.o
  <2>1. sent \in Seq(MsgLens) /\ last \in Place /\ IsPlace(last)
    BY DEF BrokenInv, TypeOK
  <2>2. /\ p.m \in 1 .. Len(sent) /\ p.o \in 0 .. sent[p.m]
        /\ last.m = p.m => last.o \in 0 .. sent[p.m] /\ last.o > p.o
    BY <2>1, BeforePlace
  <2>3. p.m \in Nat /\ p.o \in Nat
    BY <2>2, ChunkPlace
  <2>4. cur.m <= p.m /\ p.m <= last.m
    BY <2>3, ChunkPlace DEF Before
  <2>5. QED
    BY <2>2, <2>3, <2>4
<1>2. CASE HasHead(p)
  <2>1. /\ m_IsNothing' = FALSE /\ m_nMsgLen' = sent[p.m] /\ m_nBuffLen' = Here(p) /\ m_Buffer' = p
        /\ p.o = 1
    BY <1>2 DEF TakeHead, HasHead
  <2>2. Here(p) \in Nat /\ Here(p) <= sent[p.m] /\ (last.m = p.m => Here(p) < sent[p.m])
    BY <1>1, <2>1, ChunkPlace DEF Here
  <2>3. \A i \in 1 .. Len(dispatched) : dispatched[i] < p.m
    <3>1. Len(dispatched) \in Nat /\ \A i \in 1 .. Len(dispatched) : dispatched[i] \in Int
      BY ElementOfSeq, LenProperties, PacketFramingAssumption DEF BrokenInv, TypeOK
    <3>2. \A i \in 1 .. Len(dispatched) : dispatched[i] < cur.m
      BY DEF BrokenInv
    <3>3. cur.m \in Nat
      BY ChunkPlace
    <3>4. QED
      BY <1>1, <3>1, <3>2, <3>3
  <2>4. at' \in {"deal", "check"} => Lengths'
    BY <1>1, <2>1, <2>2, ChunkPlace DEF Lengths
  <2>5. CASE last.m > p.m
    <3> DEFINE q == [m |-> p.m + 1, o |-> 0]
    <3>1. q \in Place /\ IsPlace(q) /\ Before(cur, q) /\ ~Before(last, q)
      <4>1. q \in Place /\ q.m = p.m + 1 /\ q.o = 0
        BY <1>1, ChunkPlace DEF Place
      <4>2. IsPlace(q)
        <5>1. CASE p.m = Len(sent)
          BY <5>1 DEF IsPlace, WireEnd
        <5>2. CASE p.m # Len(sent)
          BY <1>1, <4>1, <5>2, ChunkPlace DEF IsPlace
        <5>3. QED
          BY <5>1, <5>2
      <4>3. Before(cur, q) /\ ~Before(last, q)
        BY <1>1, <2>5, <4>1, ChunkPlace DEF Before
      <4>4. QED
        BY <4>1, <4>2, <4>3
    <3>2. Moves(q)
      BY <3>1, <1>2, <2>5, ReturnAtMoves DEF TakeHead
    <3>3. cur'.m = p.m + 1 /\ at' \in {"deal", "check"}
      BY <3>2 DEF Moves
    <3>4. Holds'
      BY <1>1, <2>1, <2>2, <2>3, <3>3 DEF Holds
    <3>5. QED
      BY <1>1, <2>1, <2>2, <2>4, <3>2, <3>3, <3>4, SetStep, ChunkPlace
  <2>6. CASE ~(last.m > p.m)
    <3>1. Return0 /\ last.m = p.m
      BY <1>1, <1>2, <2>6, ChunkPlace DEF TakeHead
    <3>2. Moves(last) /\ cur'.m = p.m /\ at' = "check"
      BY <3>1, Return0Moves DEF Return0
    <3>3. Holds'
      BY <1>1, <2>1, <2>2, <2>3, <3>1, <3>2, ChunkPlace DEF Holds
    <3>4. QED
      BY <1>1, <2>1, <2>2, <2>4, <3>2, <3>3, SetStep, ChunkPlace
  <2>7. QED
    BY <2>5, <2>6
<1>3. CASE ~HasHead(p)
  <2>1. /\ m_IsNothing' = FALSE /\ m_nMsgLen' = Garbage /\ m_Buffer' = Nowhere
        /\ m_nBuffLen' \in Nat \cup {Garbage}
    BY <1>3 DEF TakeHead
  <2>2. Lengths' /\ Holds'
    BY <2>1 DEF Lengths, Holds
  <2>3. PICK q : Moves(q)
    <3>1. CASE Return0
      BY <3>1, Return0Moves
    <3>2. CASE \E m \in p.m .. last.m, o \in Cuts :
                  LET q == [m |-> m, o |-> o]
                  IN  IsPlace(q) /\ Before(p, q) /\ ~Before(last, q) /\ ReturnAt(q)
      <4>1. PICK m \in p.m .. last.m, o \in Cuts :
                /\ IsPlace([m |-> m, o |-> o]) /\ Before(p, [m |-> m, o |-> o])
                /\ ~Before(last, [m |-> m, o |-> o]) /\ ReturnAt([m |-> m, o |-> o])
        BY <3>2
      <4>2. [m |-> m, o |-> o] \in Place
        BY <1>1, ChunkPlace, PacketFramingAssumption DEF Place
      <4>3. Before(cur, [m |-> m, o |-> o])
        BY <1>1, <4>1, ChunkPlace, PacketFramingAssumption DEF Before
      <4>4. QED
        BY <4>1, <4>2, <4>3, ReturnAtMoves
    <3>3. QED
      BY <1>3, <3>1, <3>2 DEF TakeHead
  <2>4. QED
    BY <2>1, <2>2, <2>3, SetStep
<1>4. QED
  BY <1>2, <1>3

(* More of a message: whatever follows in the buffer is the message's own,  *)
(* and it is all of it only if the reader has gone on to the next.          *)
LEMMA ContinueKeeps == ASSUME BrokenInv, Continue PROVE BrokenInv'
<1>1. /\ at = "set" /\ m_nMsgLen \in Nat /\ m_nBuffLen \in Nat /\ m_nBuffLen < m_nMsgLen
      /\ UNCHANGED <<sent, dispatched, last>> /\ headCut' = headCut
      /\ m_nMsgLen' = m_nMsgLen /\ m_IsNothing' = m_IsNothing /\ m_IsNothing \in BOOLEAN
      /\ m_Buffer \in Place \cup {Nowhere} /\ m_Buffer' = IF Follows THEN m_Buffer ELSE Nowhere
  <2>1. /\ at = "set" /\ ~m_IsNothing /\ m_nMsgLen # 0 /\ m_nMsgLen # Garbage
        /\ UNCHANGED <<sent, dispatched, last>> /\ headCut' = headCut
        /\ m_nMsgLen' = m_nMsgLen /\ m_IsNothing' = m_IsNothing
        /\ m_Buffer' = IF Follows THEN m_Buffer ELSE Nowhere
    BY DEF Continue
  <2>2. /\ m_nMsgLen \in Nat \cup {Garbage} /\ m_nBuffLen \in Nat \cup {Garbage}
        /\ m_IsNothing \in BOOLEAN /\ m_Buffer \in Place \cup {Nowhere}
    BY DEF BrokenInv, TypeOK
  <2>3. m_nBuffLen \in Nat /\ m_nBuffLen < m_nMsgLen
    BY <2>1, <2>2 DEF BrokenInv, Lengths, Garbage
  <2>4. QED
    BY <2>1, <2>2, <2>3
<1>2. Lack \in Nat /\ Lack > 0 /\ Here(cur) \in Nat /\ Here(cur) > 0
  <2>1. Lack \in Nat /\ Lack > 0
    BY <1>1 DEF Lack
  <2>2. /\ cur.o \in 0 .. sent[cur.m] /\ sent[cur.m] \in Nat
        /\ last.m = cur.m => last.o \in 0 .. sent[cur.m] /\ last.o > cur.o
    BY <1>1, ChunkPlace
  <2>3. Here(cur) \in Nat /\ Here(cur) > 0
    BY <2>2 DEF Here
  <2>4. QED
    BY <2>1, <2>3
<1>3. m_Buffer # Nowhere =>
        /\ m_Buffer.o = 1 /\ m_Buffer.m \in 1 .. Len(sent) /\ m_nMsgLen = sent[m_Buffer.m]
        /\ \A i \in 1 .. Len(dispatched) : dispatched[i] < m_Buffer.m
  BY DEF BrokenInv, Holds
<1>4. m_Buffer' # Nowhere =>
        /\ m_Buffer' = m_Buffer /\ m_Buffer # Nowhere
        /\ m_Buffer.m = cur.m /\ cur.o = 1 + m_nBuffLen /\ m_nMsgLen = sent[cur.m]
  BY <1>1, <1>2, <1>3 DEF Follows
<1>5. m_Buffer' \in Place \cup {Nowhere}
  BY <1>1
<1>6. CASE Here(cur) >= Lack
  <2>1. m_nBuffLen' = m_nMsgLen /\ ReturnAt(Rest)
    BY <1>6 DEF Continue
  <2>2. Moves(Rest) /\ (cur.o + Lack > sent[cur.m] => Rest.m = cur.m + 1)
    <3>1. CASE cur.o + Lack > sent[cur.m]
      <4>1. last.m > cur.m
        BY <1>1, <1>2, <1>6, <3>1, ChunkPlace DEF Here
      <4>2. QED
        BY <1>1, <2>1, <3>1, <4>1, NextMoves DEF Rest
    <3>2. CASE ~(cur.o + Lack > sent[cur.m])
      <4>1. Rest = [m |-> cur.m, o |-> cur.o + Lack]
        <5>1. cur = [m |-> cur.m, o |-> cur.o]
          BY <1>1, ChunkPlace
        <5>2. Rest = [cur EXCEPT !.o = @ + Lack]
          BY <3>2 DEF Rest
        <5>3. QED
          BY <5>1, <5>2
      <4>2. cur.o + Lack \in 0 .. sent[cur.m]
        BY <1>1, <1>2, <3>2, ChunkPlace
      <4>3. Rest \in Place /\ IsPlace(Rest)
        BY <1>1, <4>1, <4>2, ChunkPlace DEF Place, IsPlace
      <4>4. Before(cur, Rest)
        BY <1>1, <1>2, <4>1, ChunkPlace DEF Before
      <4>5. ~Before(last, Rest)
        BY <1>1, <1>2, <1>6, <4>1, ChunkPlace DEF Before, Here
      <4>6. QED
        BY <2>1, <3>2, <4>3, <4>4, <4>5, ReturnAtMoves
    <3>3. QED
      BY <3>1, <3>2
  <2>3. cur' = Rest /\ at' \in {"deal", "check"}
    BY <2>2 DEF Moves
  <2>4. Lengths'
    BY <1>1, <2>1, <2>3 DEF Lengths
  <2>5. m_Buffer' # Nowhere => cur'.m = m_Buffer'.m + 1
    BY <1>1, <1>4, <2>2, <2>3, ChunkPlace DEF Lack
  <2>6. Holds'
    BY <1>1, <1>3, <1>4, <2>3, <2>5, ChunkPlace DEF Holds
  <2>7. QED
    BY <1>1, <1>5, <2>1, <2>2, <2>4, <2>6, SetStep
<1>7. CASE ~(Here(cur) >= Lack)
  <2>1. m_nBuffLen' = m_nBuffLen + Here(cur) /\ Return0
    BY <1>7 DEF Continue
  <2>2. Moves(last) /\ cur' = last /\ at' = "check"
    BY <1>1, <2>1, Return0Moves DEF Return0
  <2>3. m_nBuffLen' \in Nat /\ m_nBuffLen' < m_nMsgLen
    BY <1>1, <1>2, <1>7, <2>1 DEF Lack
  <2>4. Lengths'
    BY <1>1, <2>2, <2>3 DEF Lengths
  <2>5. Holds'
    BY <1>1, <1>3, <1>4, <2>2, <2>3, ChunkPlace DEF Holds
  <2>6. QED
    BY <1>1, <1>5, <2>2, <2>3, <2>4, <2>5, SetStep
<1>8. QED
  BY <1>6, <1>7

(* The other ways through SetRecvBuffer, which leave the buffer as it is or *)
(* read a head.                                                             *)
LEMMA SetKeeps ==
    ASSUME BrokenInv, NoSign \/ SignOnly \/ SignAndHead \/ HeadFirst \/ ContinueGarbage
    PROVE  BrokenInv'
<1>1. at = "set" /\ UNCHANGED <<sent, dispatched, last>> /\ headCut' = headCut
  BY DEF NoSign, SignOnly, SignAndHead, HeadFirst, ContinueGarbage
<1>2. CASE NoSign \/ SignOnly
  <2>1. Moves(last) /\ cur' = last /\ at' = "check"
    BY <1>1, <1>2, Return0Moves DEF NoSign, SignOnly, Return0
  <2>2. UNCHANGED <<m_nMsgLen, m_nBuffLen, m_Buffer>> /\ m_IsNothing' \in BOOLEAN
    BY <1>2 DEF NoSign, SignOnly, model, BrokenInv, TypeOK
  <2>3. Lengths'
    BY <1>1, <2>1, <2>2 DEF BrokenInv, Lengths
  <2>4. Holds'
    <3>1. ASSUME m_Buffer # Nowhere PROVE m_Buffer.m \in Nat /\ m_Buffer.m <= cur.m /\ cur.m \in Nat /\ cur.m <= last.m
                                         /\ last.m \in Nat
      BY <1>1, <3>1, ChunkPlace DEF BrokenInv, Holds
    <3>2. QED
      BY <1>1, <2>1, <2>2, <3>1 DEF BrokenInv, Holds
  <2>5. QED
    BY <1>1, <2>1, <2>2, <2>3, <2>4, SetStep DEF BrokenInv, TypeOK
<1>3. CASE SignAndHead
  <2> DEFINE p == After(cur)
  <2>1. \/ p = [m |-> cur.m, o |-> cur.o + 1] /\ cur.o # sent[cur.m]
        \/ p = [m |-> cur.m + 1, o |-> 0] /\ cur.o = sent[cur.m]
    <3>1. cur = [m |-> cur.m, o |-> cur.o]
      BY <1>1, ChunkPlace
    <3>2. cur.o # sent[cur.m] => p = [m |-> cur.m, o |-> cur.o + 1]
      BY <3>1 DEF After
    <3>3. QED
      BY <3>2 DEF After
  <2>2. p \in Place /\ IsPlace(p)
    BY <1>1, <2>1, ChunkPlace DEF Place, IsPlace, WireEnd
  <2>3. Before(cur, p) /\ (p = last \/ Before(p, last))
    BY <1>1, <2>1, ChunkPlace DEF Before
  <2>4. QED
    BY <1>1, <1>3, <2>2, <2>3, HeadKeeps DEF SignAndHead
<1>4. CASE HeadFirst
  <2>1. cur \in Place /\ IsPlace(cur) /\ Before(cur, last) /\ TakeHead(cur)
    BY <1>4 DEF HeadFirst, BrokenInv, TypeOK, InChunk
  <2>2. QED
    BY <1>1, <2>1, HeadKeeps
<1>5. CASE ContinueGarbage
  <2>1. /\ m_nMsgLen' = Garbage /\ m_nMsgLen = Garbage /\ m_nBuffLen' \in Nat \cup {Garbage}
        /\ m_IsNothing' \in BOOLEAN /\ m_Buffer' = m_Buffer
    BY <1>5 DEF ContinueGarbage, BrokenInv, TypeOK
  <2>2. m_Buffer = Nowhere
    BY <1>1, <2>1, ChunkPlace DEF BrokenInv, Holds, Garbage
  <2>3. Lengths' /\ Holds'
    BY <2>1, <2>2 DEF Lengths, Holds
  <2>4. PICK q : Moves(q)
    <3>1. CASE Return0
      BY <1>1, <3>1, Return0Moves
    <3>2. CASE \E m \in cur.m .. last.m, o \in Cuts :
                  LET q == [m |-> m, o |-> o]
                  IN  IsPlace(q) /\ Before(cur, q) /\ ~Before(last, q) /\ ReturnAt(q)
      <4>1. PICK m \in cur.m .. last.m, o \in Cuts :
                /\ IsPlace([m |-> m, o |-> o]) /\ Before(cur, [m |-> m, o |-> o])
                /\ ~Before(last, [m |-> m, o |-> o]) /\ ReturnAt([m |-> m, o |-> o])
        BY <3>2
      <4>2. [m |-> m, o |-> o] \in Place
        BY <1>1, ChunkPlace, PacketFramingAssumption DEF Place
      <4>3. QED
        BY <4>1, <4>2, ReturnAtMoves
    <3>3. QED
      BY <1>5, <3>1, <3>2 DEF ContinueGarbage
  <2>5. QED
    BY <1>1, <2>1, <2>2, <2>3, <2>4, SetStep
<1>6. QED
  BY <1>2, <1>3, <1>4, <1>5

(* What DealMsg adds is no number of a message or that of one that has been *)
(* sent, later than all before and behind the reader.                       *)
LEMMA DealAdds ==
    ASSUME BrokenInv, DealMsg, at = "deal" \/ (at = "check" /\ m_nMsgLen = m_nBuffLen)
    PROVE  \E n \in 0 .. Len(sent) :
              /\ n # 0 => \A i \in 1 .. Len(dispatched) : dispatched[i] < n
              /\ n < cur.m /\ n \in 0 .. MaxMsgs
              /\ dispatched' = Append(dispatched, n)
<1>1. sent \in Seq(MsgLens) /\ Len(sent) <= MaxMsgs /\ cur \in Place
  BY DEF BrokenInv, TypeOK
<1>2. Len(sent) \in Nat /\ MaxMsgs \in Nat /\ cur.m \in Nat /\ 0 < cur.m
  BY <1>1, SentLengths, PacketFramingAssumption DEF Place
<1>3. CASE Whole
  <2>1. m_Buffer # Nowhere
    BY <1>3 DEF Whole
  <2>2. /\ m_Buffer.m \in 1 .. Len(sent) /\ m_Buffer.m < cur.m
        /\ \A i \in 1 .. Len(dispatched) : dispatched[i] < m_Buffer.m
    BY <2>1 DEF BrokenInv, Holds
  <2>3. dispatched' = Append(dispatched, m_Buffer.m)
    BY <1>3 DEF DealMsg
  <2>4. PICK n \in 1 .. Len(sent) : n = m_Buffer.m
    BY <2>2
  <2>5. n \in 0 .. Len(sent) /\ n \in 0 .. MaxMsgs
    BY <1>1, <1>2, <2>4
  <2>6. /\ n < cur.m /\ dispatched' = Append(dispatched, n)
        /\ \A i \in 1 .. Len(dispatched) : dispatched[i] < n
    BY <2>2, <2>3, <2>4
  <2>7. QED
    BY <2>5, <2>6
<1>4. CASE ~Whole
  <2>1. dispatched' = Append(dispatched, 0)
    BY <1>4 DEF DealMsg
  <2>2. 0 \in 0 .. Len(sent) /\ 0 \in 0 .. MaxMsgs /\ 0 < cur.m
    BY <1>2
  <2>3. QED
    BY <2>1, <2>2
<1>5. QED
  BY <1>3, <1>4

(* DealRecvBuff keeps the invariant. *)
LEMMA DealKeeps == ASSUME BrokenInv, DealAndGoOn \/ CheckIntegrity PROVE BrokenInv'
<1>1. UNCHANGED <<sent, cur, last>> /\ headCut' = headCut
  BY DEF DealAndGoOn, CheckIntegrity
<1>2. IsPlace(cur)' /\ IsPlace(last)' /\ ~Before(last, cur)'
  BY <1>1 DEF BrokenInv, TypeOK, IsPlace, WireEnd, Before
<1>3. InChunk'
  BY <1>1 DEF DealAndGoOn, CheckIntegrity, BrokenInv, InChunk, Before
<1>4. ASSUME DealMsg, ResetModel, at = "deal" \/ (at = "check" /\ m_nMsgLen = m_nBuffLen), at' \in {"set", "recv"}
      PROVE  BrokenInv'
  <2>1. PICK n \in 0 .. Len(sent) : n < cur.m /\ n \in 0 .. MaxMsgs /\ dispatched' = Append(dispatched, n)
    BY <1>4, DealAdds
  <2>2. dispatched \in Seq(0 .. MaxMsgs)
    BY DEF BrokenInv, TypeOK
  <2>3. /\ dispatched' \in Seq(0 .. MaxMsgs) /\ Len(dispatched) \in Nat /\ Len(dispatched') = Len(dispatched) + 1
        /\ \A i \in 1 .. Len(dispatched) : dispatched'[i] = dispatched[i]
        /\ dispatched'[Len(dispatched) + 1] = n
    BY <2>1, <2>2, AppendProperties
  <2>4. \A i \in 1 .. Len(dispatched') : dispatched'[i] < cur'.m
    BY <1>1, <2>1, <2>3 DEF BrokenInv
  <2>5. Lengths' /\ Holds'
    BY <1>4 DEF ResetModel, Lengths, Holds
  <2>6. TypeOK'
    BY <1>1, <1>2, <1>4, <2>3 DEF BrokenInv, TypeOK, ResetModel
  <2>7. QED
    BY <1>3, <2>4, <2>5, <2>6 DEF BrokenInv
<1>5. ASSUME at = "check", at' = "recv", UNCHANGED <<dispatched, model>>, ~(m_nMsgLen = m_nBuffLen /\ m_nBuffLen # 0)
      PROVE  BrokenInv'
  <2>1. UNCHANGED <<m_IsNothing, m_nMsgLen, m_nBuffLen, m_Buffer, dispatched>>
    BY <1>5 DEF model
  <2>2. Lengths'
    BY <1>5, <2>1 DEF BrokenInv, Lengths
  <2>3. Holds'
    BY <1>1, <1>5, <2>1 DEF BrokenInv, Holds
  <2>4. TypeOK'
    BY <1>1, <1>2, <1>5, <2>1 DEF BrokenInv, TypeOK
  <2>5. QED
    BY <1>1, <1>3, <2>1, <2>2, <2>3, <2>4 DEF BrokenInv
<1>6. CASE DealAndGoOn
  BY <1>4, <1>6 DEF DealAndGoOn
<1>7. CASE CheckIntegrity
  <2>1. at = "check" /\ at' = "recv"
    BY <1>7 DEF CheckIntegrity
  <2>2. CASE m_nMsgLen = m_nBuffLen /\ m_nBuffLen # 0
    BY <1>4, <1>7, <2>1, <2>2 DEF CheckIntegrity
  <2>3. CASE ~(m_nMsgLen = m_nBuffLen /\ m_nBuffLen # 0)
    BY <1>5, <1>7, <2>1, <2>3 DEF CheckIntegrity
  <2>4. QED
    BY <2>2, <2>3
<1>8. QED
  BY <1>6, <1>7

(* Sending moves the end of the stream only. *)
LEMMA SendKeeps == ASSUME BrokenInv, NEW len \in MsgLens, Send(len) PROVE BrokenInv'
<1>1. /\ sent \in Seq(MsgLens) /\ Len(sent) \in Nat /\ Len(sent) < MaxMsgs /\ len \in Nat /\ MaxMsgs \in Nat
      /\ \A m \in 1 .. Len(sent) : sent[m] \in Nat
  BY SentLengths, PacketFramingAssumption DEF BrokenInv, TypeOK, Send
<1>2. /\ sent' \in Seq(MsgLens) /\ Len(sent') = Len(sent) + 1 /\ sent'[Len(sent) + 1] = len
      /\ \A m \in 1 .. Len(sent) : sent'[m] = sent[m]
  BY <1>1, AppendProperties DEF Send
<1>3. UNCHANGED <<dispatched, cur, last, at, headCut, m_IsNothing, m_nMsgLen, m_nBuffLen, m_Buffer>>
  BY DEF Send, chunk, model
<1>4. ASSUME NEW p, IsPlace(p) PROVE IsPlace(p)'
  <2>1. CASE p = WireEnd
    BY <1>1, <1>2, <2>1 DEF IsPlace, WireEnd
  <2>2. CASE p.m \in 1 .. Len(sent) /\ p.o \in 0 .. sent[p.m]
    BY <1>1, <1>2, <2>2 DEF IsPlace
  <2>3. QED
    BY <1>4, <2>1, <2>2 DEF IsPlace
<1>5. IsPlace(cur)' /\ IsPlace(last)'
  BY <1>3, <1>4 DEF BrokenInv, TypeOK
<1>6. TypeOK'
  BY <1>1, <1>2, <1>3, <1>5 DEF BrokenInv, TypeOK, Before
<1>7. InChunk' /\ Lengths'
  BY <1>3 DEF BrokenInv, InChunk, Before, Lengths
<1>8. Holds'
  BY <1>1, <1>2, <1>3 DEF BrokenInv, Holds
<1>9. QED
  BY <1>3, <1>6, <1>7, <1>8 DEF BrokenInv

(* recv returns a chunk that ends anywhere. *)
LEMMA RecvKeeps == ASSUME BrokenInv, Recv PROVE BrokenInv'
<1>1. PICK m \in cur.m .. Len(sent) + 1, o \in Cuts :
          /\ IsPlace([m |-> m, o |-> o]) /\ Before(cur, [m |-> m, o |-> o])
          /\ last' = [m |-> m, o |-> o]
  BY DEF Recv
<1>2. sent \in Seq(MsgLens) /\ Len(sent) <= MaxMsgs /\ cur \in Place /\ headCut \in BOOLEAN
  BY DEF BrokenInv, TypeOK
<1>3. m \in 1 .. MaxMsgs + 1 /\ o \in Nat /\ cur.m \in Nat /\ cur.o \in Nat
  BY <1>2, SentLengths, PacketFramingAssumption DEF Place
<1>4. UNCHANGED <<sent, dispatched, cur, m_IsNothing, m_nMsgLen, m_nBuffLen, m_Buffer>> /\ at = "recv" /\ at' = "set"
  BY DEF Recv, model
<1>5. last' \in Place /\ IsPlace(last)' /\ IsPlace(cur)' /\ Before(cur, last)' /\ ~Before(last, cur)'
  <2>1. last' \in Place
    BY <1>1, <1>3 DEF Place
  <2>2. IsPlace(last)' /\ IsPlace(cur)'
    BY <1>1, <1>4 DEF IsPlace, WireEnd, BrokenInv, TypeOK
  <2>3. Before(cur, last)'
    BY <1>1, <1>4 DEF Before
  <2>4. ~Before(last, cur)'
    BY <1>3, <1>4, <2>1, <2>3 DEF Before, Place
  <2>5. QED
    BY <2>1, <2>2, <2>3, <2>4
<1>6. headCut' \in BOOLEAN
  BY <1>2 DEF Recv
<1>7. TypeOK' /\ InChunk'
  BY <1>4, <1>5, <1>6 DEF BrokenInv, TypeOK, InChunk
<1>8. Lengths' /\ Holds'
  BY <1>4 DEF BrokenInv, Lengths, Holds
<1>9. QED
  BY <1>4, <1>7, <1>8 DEF BrokenInv

(* However the stream is cut, the invariant holds. *)
LEMMA BrokenInvHolds == Spec => []BrokenInv
<1>1. Init => BrokenInv
  <2> SUFFICES ASSUME Init PROVE BrokenInv
    OBVIOUS
  <2>1. Len(sent) = 0 /\ Len(dispatched) = 0 /\ sent \in Seq(MsgLens) /\ dispatched \in Seq(0 .. MaxMsgs)
    BY DEF Init
  <2>2. cur = [m |-> 1, o |-> 0] /\ last = cur /\ IsPlace(cur) /\ cur \in Place
    BY <2>1, PacketFramingAssumption DEF Init, IsPlace, Place, WireEnd
  <2>3. TypeOK
    <3>1. ~Before(last, cur)
      BY <2>2 DEF Before
    <3>2. /\ at \in {"recv", "set", "deal", "check"} /\ m_IsNothing \in BOOLEAN /\ headCut \in BOOLEAN
          /\ m_nMsgLen \in Nat /\ m_nBuffLen \in Nat /\ m_Buffer = Nowhere
      BY DEF Init
    <3>3. QED
      BY <2>1, <2>2, <3>1, <3>2, PacketFramingAssumption DEF TypeOK
  <2>4. InChunk /\ Lengths /\ Holds
    BY DEF Init, InChunk, Lengths, Holds
  <2>5. \A i \in 1 .. Len(dispatched) : dispatched[i] < cur.m
    BY <2>1
  <2>6. QED
    BY <2>3, <2>4, <2>5 DEF BrokenInv
<1>2. BrokenInv /\ [Next]_vars => BrokenInv'
  <2> SUFFICES ASSUME BrokenInv, [Next]_vars PROVE BrokenInv'
    OBVIOUS
  <2>1. CASE Recv
    BY <2>1, RecvKeeps
  <2>2. CASE NoSign \/ SignOnly \/ SignAndHead \/ HeadFirst \/ ContinueGarbage
    BY <2>2, SetKeeps
  <2>3. CASE Continue
    BY <2>3, ContinueKeeps
  <2>4. CASE DealAndGoOn \/ CheckIntegrity
    BY <2>4, DealKeeps
  <2>5. ASSUME NEW len \in MsgLens, Send(len) PROVE BrokenInv'
    BY <2>5, SendKeeps
  <2>6. CASE UNCHANGED vars
    BY <2>6 DEF vars, chunk, model, BrokenInv, TypeOK, InChunk, Lengths, Holds, IsPlace, WireEnd, Before
  <2>7. QED
    BY <2>1, <2>2, <2>3, <2>4, <2>5, <2>6 DEF Next, ReceiveStep
<1>3. QED
  BY <1>1, <1>2, PTL DEF Spec

(* However the stream is cut, the reader stays in range: its chunk is a     *)
(* part of the stream and what it takes for a length is one, or Garbage.    *)
THEOREM TypeCorrect == Spec => []TypeOK
<1>1. BrokenInv => TypeOK
  BY DEF BrokenInv
<1>2. QED
  BY <1>1, BrokenInvHolds, PTL

(* The stream of messages if only a cut head breaks it. *)
Uncut == INSTANCE MessageStream WITH delivered <- dispatched, broken <- headCut

(* As long as no head is cut a step of the reader is a step of the stream   *)
(* of messages or none: a dispatch adds the number of the next message,     *)
(* which has been sent.                                                     *)
LEMMA StreamStep ==
    ASSUME IInv, headCut = FALSE, [Next]_vars
    PROVE  [Uncut!Next]_(Uncut!streamVars)
<1>1. ASSUME Complete(cur), DealMsg, UNCHANGED <<sent, headCut>> PROVE Uncut!Deliver
  <2>1. Len(dispatched) = cur.m - 2 /\ cur.m <= Len(sent) + 1 /\ cur.m \in Nat /\ Len(sent) \in Nat
    BY <1>1, SentLengths DEF Complete, IInv, IsCut, IsPlace, Place, WireEnd
  <2>2. dispatched' = Append(dispatched, Len(dispatched) + 1)
    BY <1>1, DispatchStep
  <2>3. QED
    BY <1>1, <2>1, <2>2 DEF Uncut!Deliver
<1>2. CASE DealAndGoOn
  BY <1>1, <1>2 DEF DealAndGoOn, IInv, Uncut!Next
<1>3. CASE CheckIntegrity /\ Complete(cur)
  <2>1. CASE DealMsg
    BY <1>1, <1>3, <2>1 DEF CheckIntegrity, Uncut!Next
  <2>2. CASE UNCHANGED <<dispatched, model>>
    BY <1>3, <2>2 DEF CheckIntegrity, Uncut!streamVars
  <2>3. QED
    BY <1>3, <2>1, <2>2 DEF CheckIntegrity
<1>4. CASE CheckIntegrity /\ Reading(cur)
  <2>1. ~(m_nMsgLen = m_nBuffLen /\ m_nBuffLen # 0)
    BY <1>4, ReadingIsPart DEF CheckIntegrity, IInv
  <2>2. QED
    BY <1>4, <2>1 DEF CheckIntegrity, Uncut!streamVars
<1>5. ASSUME NEW len \in MsgLens, Send(len) PROVE Uncut!Next
  BY <1>5 DEF Send, chunk, Uncut!Send, Uncut!Next
<1>6. CASE NoSign \/ SignOnly \/ SignAndHead \/ HeadFirst \/ Continue \/ ContinueGarbage
  BY <1>6 DEF NoSign, SignOnly, SignAndHead, HeadFirst, Continue, ContinueGarbage, Uncut!streamVars
<1>7. CASE Recv
  <2>1. UNCHANGED <<sent, dispatched>> /\ headCut' = IF last'.o \in 2 .. HeadLen THEN TRUE ELSE headCut
    BY <1>7 DEF Recv
  <2>2. CASE last'.o \in 2 .. HeadLen
    BY <2>1, <2>2 DEF Uncut!Break, Uncut!Next
  <2>3. CASE last'.o \notin 2 .. HeadLen
    <3>1. headCut' = FALSE
      BY <2>1, <2>3
    <3>2. QED
      BY <2>1, <3>1 DEF Uncut!streamVars
  <2>4. QED
    BY <2>2, <2>3
<1>8. CASE UNCHANGED vars
  BY <1>8 DEF vars, chunk, Uncut!streamVars
<1>9. QED
  BY <1>2, <1>3, <1>4, <1>5, <1>6, <1>7, <1>8 DEF Next, ReceiveStep, CheckIntegrity, IInv

(* After a head was cut a step of the reader still is one of the stream: a  *)
(* dispatch adds no message, or a later one than all before.                *)
LEMMA BrokenStreamStep ==
    ASSUME BrokenInv, headCut = TRUE, [Next]_vars
    PROVE  [Uncut!Next]_(Uncut!streamVars)
<1>1. ASSUME DealMsg, at = "deal" \/ (at = "check" /\ m_nMsgLen = m_nBuffLen), UNCHANGED sent, headCut' = headCut
      PROVE  Uncut!DeliverBroken
  BY <1>1, DealAdds DEF Uncut!DeliverBroken
<1>2. CASE DealAndGoOn
  BY <1>1, <1>2 DEF DealAndGoOn, Uncut!Next
<1>3. CASE CheckIntegrity
  BY <1>1, <1>3 DEF CheckIntegrity, Uncut!Next, Uncut!streamVars
<1>4. CASE Recv
  BY <1>4 DEF Recv, Uncut!streamVars
<1>5. CASE NoSign \/ SignOnly \/ SignAndHead \/ HeadFirst \/ Continue \/ ContinueGarbage
  BY <1>5 DEF NoSign, SignOnly, SignAndHead, HeadFirst, Continue, ContinueGarbage, Uncut!streamVars
<1>6. ASSUME NEW len \in MsgLens, Send(len) PROVE Uncut!Next
  BY <1>6 DEF Send, chunk, Uncut!Send, Uncut!Next
<1>7. CASE UNCHANGED vars
  BY <1>7 DEF vars, chunk, Uncut!streamVars
<1>8. QED
  BY <1>2, <1>3, <1>4, <1>5, <1>6, <1>7 DEF Next, ReceiveStep

(* A step that has overrun the buffer breaks the stream, and after it the   *)
(* board may send; every other step is one of that stream.                  *)
LEMMA OverrunStreamStep ==
    ASSUME TypeOK, headCut' \in BOOLEAN, [Next]_vars, [Uncut!Next]_(Uncut!streamVars)
    PROVE  [Stream!Next]_(Stream!streamVars)
<1>1. CASE Overrun
  <2>1. CASE UNCHANGED vars
    BY <2>1 DEF vars, chunk, model, Overrun, Stream!streamVars
  <2>2. ASSUME NEW len \in MsgLens, Send(len) PROVE Stream!Next
    <3>1. (headCut \/ Overrun)' = (headCut \/ Overrun)
      BY <2>2 DEF Send, chunk, model, Overrun
    <3>2. Stream!Send(len)
      BY <2>2, <3>1 DEF Send, Stream!Send
    <3>3. QED
      BY <3>2 DEF Stream!Next
  <2>3. QED
    BY <1>1, <2>1, <2>2 DEF Next, ReceiveStep
<1>2. CASE ~Overrun /\ Overrun'
  <2>1. ~(0 > BufferLen)
    BY PacketFramingAssumption
  <2>2. ~UNCHANGED model /\ ~ResetModel
    BY <1>2, <2>1 DEF Overrun, model, ResetModel
  <2>3. UNCHANGED <<sent, dispatched>>
    BY <2>2 DEF Next, ReceiveStep, vars, Send, Recv, NoSign, SignOnly, SignAndHead, HeadFirst, Continue, ContinueGarbage,
                DealAndGoOn, CheckIntegrity
  <2>4. (headCut \/ Overrun)' = TRUE
    BY <1>2
  <2>5. QED
    BY <2>3, <2>4 DEF Stream!Break, Stream!Next
<1>3. CASE ~Overrun /\ ~Overrun'
  <2>1. (headCut \/ Overrun) = headCut /\ (headCut \/ Overrun)' = headCut'
    BY <1>3 DEF TypeOK
  <2>2. CASE Uncut!Next
    BY <2>1, <2>2 DEF Uncut!Next, Uncut!Send, Uncut!Break, Uncut!Deliver, Uncut!DeliverBroken,
                      Stream!Next, Stream!Send, Stream!Break, Stream!Deliver, Stream!DeliverBroken
  <2>3. CASE UNCHANGED Uncut!streamVars
    BY <2>1, <2>3 DEF Uncut!streamVars, Stream!streamVars
  <2>4. QED
    BY <2>2, <2>3
<1>4. QED
  BY <1>1, <1>2, <1>3

(* However the stream is cut, the reader implements the safety of the       *)
(* stream of messages: whole messages, once and in order, until a chunk     *)
(* ends inside a head or a message overruns the buffer, and after a cut     *)
(* head none twice or after a later one.                                    *)
THEOREM ImplementsStreamSafely == Spec => Stream!Init /\ [][Stream!Next]_(Stream!streamVars)
<1>1. Init => Stream!Init
  <2> SUFFICES ASSUME Init PROVE Stream!Init
    OBVIOUS
  <2>1. ~Overrun
    BY PacketFramingAssumption DEF Init, Overrun
  <2>2. QED
    BY <2>1 DEF Init, Stream!Init
<1>2. BrokenInv /\ BrokenInv' /\ (headCut \/ IInv) /\ [Next]_vars => [Stream!Next]_(Stream!streamVars)
  <2> SUFFICES ASSUME BrokenInv, BrokenInv', headCut \/ IInv, [Next]_vars PROVE [Stream!Next]_(Stream!streamVars)
    OBVIOUS
  <2>1. headCut \in BOOLEAN /\ headCut' \in BOOLEAN /\ TypeOK
    BY DEF BrokenInv, TypeOK
  <2>2. [Uncut!Next]_(Uncut!streamVars)
    BY <2>1, BrokenStreamStep, StreamStep
  <2>3. QED
    BY <2>1, <2>2, OverrunStreamStep
<1>3. QED
  BY <1>1, <1>2, InvHolds, BrokenInvHolds, PTL DEF Spec

==============================================================================
