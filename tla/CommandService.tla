--------------------------- MODULE CommandService ---------------------------
(***************************************************************************)
(* What the command path of TestCaseLib promises its caller, without       *)
(* events, maps, streams or threads.  Calls are made one at a time.  A     *)
(* call ends with an answer, closed without one (the board refused it, or  *)
(* there is no answer to wait for), or open: it may yet be answered.       *)
(*                                                                         *)
(* Because nothing on the wire pairs answers with requests, an answer      *)
(* handed out after an open call may be an older one: it is still from the *)
(* board addressed, and the answers of one board come in the order of its  *)
(* requests, each at most once.  While no call is open it is the call's.   *)
(***************************************************************************)
EXTENDS Integers

CONSTANTS Procs, MaxCalls

VARIABLES
    pending,    \* the call in progress, or NoCall
    done,       \* the calls that have ended
    made        \* how many calls have been made

serviceVars == <<pending, done, made>>

NoCall   == [id |-> 0]
Outcomes == {"answered", "closed", "open"}

Init == pending = NoCall /\ done = {} /\ made = 0

Begin(p) ==
    /\ pending = NoCall /\ made < MaxCalls
    /\ made' = made + 1
    /\ pending' = [id |-> made + 1, proc |-> p]
    /\ UNCHANGED done

(* The answers the call may be given. *)
Earlier(call)    == {c \in done : c.proc = call.proc /\ c.outcome = "answered"}
Candidates(call) ==
    {a \in 1 .. call.id :
        /\ \A c \in done : c.id = a => c.proc = call.proc
        /\ \A c \in Earlier(call) : c.answer < a
        /\ (\A c \in done : c.outcome # "open") => a = call.id}

EndedAs(call, outcome, answer) ==
    done' = done \cup {[id |-> call.id, proc |-> call.proc, outcome |-> outcome, answer |-> answer]}

Finish ==
    /\ pending # NoCall
    /\ pending' = NoCall
    /\ \/ \E a \in Candidates(pending) : EndedAs(pending, "answered", a)
       \/ \E outcome \in {"closed", "open"} : EndedAs(pending, outcome, 0)
    /\ UNCHANGED made

(* A call whose request could not be sent, or that waits for nothing. *)
Fail(p) ==
    /\ pending = NoCall /\ made < MaxCalls
    /\ made' = made + 1
    /\ \E outcome \in {"closed", "open"} : EndedAs([id |-> made + 1, proc |-> p], outcome, 0)
    /\ UNCHANGED pending

Next == Finish \/ \E p \in Procs : Begin(p) \/ Fail(p)

Spec == Init /\ [][Next]_serviceVars

=============================================================================
