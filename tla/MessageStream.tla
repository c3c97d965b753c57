---------------------------- MODULE MessageStream ----------------------------
(***************************************************************************)
(* What the framing of TestCaseLib promises the code above it: the         *)
(* messages a board sends on a connection are dispatched whole, once and   *)
(* in order, and each of them eventually.  Messages are known by their     *)
(* number on the connection.  The promise ends when the stream is broken   *)
(* (a chunk has ended inside a message head, or a message was longer than  *)
(* the buffer): from then on what is dispatched may be no message of the   *)
(* board's, 0, and messages may be left out, but none is dispatched twice  *)
(* or after a later one.                                                   *)
(***************************************************************************)
EXTENDS Naturals, Sequences

CONSTANTS MsgLens, MaxMsgs

VARIABLES sent,         \* the lengths of the messages sent
          delivered,    \* the numbers of the messages dispatched
          broken

streamVars == <<sent, delivered, broken>>

Init == sent = <<>> /\ delivered = <<>> /\ broken = FALSE

Send(len) ==
    /\ Len(sent) < MaxMsgs
    /\ sent' = Append(sent, len)
    /\ UNCHANGED <<delivered, broken>>

Break == broken' = TRUE /\ UNCHANGED <<sent, delivered>>

Deliver ==
    /\ ~broken
    /\ Len(delivered) < Len(sent)
    /\ delivered' = Append(delivered, Len(delivered) + 1)
    /\ UNCHANGED <<sent, broken>>

(* A later message than all before, or none. *)
DeliverBroken ==
    /\ broken
    /\ \E n \in 0 .. Len(sent) :
          /\ n # 0 => \A i \in 1 .. Len(delivered) : delivered[i] < n
          /\ delivered' = Append(delivered, n)
    /\ UNCHANGED <<sent, broken>>

Next == Deliver \/ DeliverBroken \/ Break \/ \E len \in MsgLens : Send(len)

Spec == Init /\ [][Next]_streamVars /\ WF_streamVars(Deliver)

==============================================================================
