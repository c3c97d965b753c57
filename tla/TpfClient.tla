------------------------------ MODULE TpfClient ------------------------------
(***************************************************************************)
(* The console client of the boards, Tpfclient.py: begin_session connects  *)
(* the control and the console port and starts three threads (control,     *)
(* heart beat, console), stop_session stops and joins them and closes the  *)
(* sockets.  The control worker and the heart beat share one socket.       *)
(*                                                                         *)
(* execute_command sends a command by the console worker made last, which  *)
(* is never forgotten either.  Threads and connections are numbered in the *)
(* order of the lists _workers and _connections, which are never cleared.  *)
(***************************************************************************)
EXTENDS Integers, Sequences

CONSTANTS
    MaxCalls,   \* bound: calls of the three operations
    MaxFaults   \* bound: faults of connections and of what they deliver

ASSUME TpfClientAssumption == MaxCalls \in Nat /\ MaxFaults \in Nat

Types      == {"control", "alive", "console"}
MainStates == {"idle", "beginAlive", "beginConsole", "setStop", "join", "close"}
(* A thread checks its flag, is in working(), or has ended.                 *)
ThreadStates == {"check", "working", "ended"}
(* eof: the board has closed its end; broken: any use raises OSError.       *)
ConnStates == {"open", "eof", "broken", "closed"}

VARIABLES
    main,           \* the calling thread
    k,              \* the worker its loop in stop_session is at
    calls,          \* bound counter
    stopped,        \* history: was the last call a stop_session that returned
    workers,        \* _workers: type and connection of each
    thread, isStop, \* per worker: where it is, _isStop
    connections,    \* _connections: the state of each
    console,        \* _console_worker, 0 for None
    began,          \* history: how the last begin_session ended: none, raised or ok
    command,        \* history: sent or raised if the last call was an execute_command
    faults          \* bound counter

threads == <<workers, thread, isStop>>
begun == <<console, began, command>>
tpfVars == <<main, k, calls, stopped, threads, connections, begun, faults>>

(* The workers, their threads and the connections are in range.             *)
TpfTypeOK ==
    /\ main \in MainStates /\ k \in Nat /\ calls \in 0 .. MaxCalls /\ stopped \in BOOLEAN
    /\ workers \in Seq([type : Types, conn : Nat]) /\ connections \in Seq(ConnStates)
    /\ \A i \in DOMAIN workers : workers[i].conn \in DOMAIN connections
    /\ thread \in [DOMAIN workers -> ThreadStates]
    /\ isStop \in [DOMAIN workers -> BOOLEAN]
    /\ console \in 0 .. Len(workers) /\ began \in {"none", "raised", "ok"}
    /\ command \in {"none", "sent", "raised"}
    /\ faults \in 0 .. MaxFaults

TpfInit ==
    /\ main = "idle" /\ k = 0 /\ calls = 0 /\ stopped = FALSE
    /\ workers = <<>> /\ thread = <<>> /\ isStop = <<>>
    /\ connections = <<>> /\ faults = 0
    /\ console = 0 /\ began = "none" /\ command = "none"

Call  == main = "idle" /\ calls < MaxCalls /\ calls' = calls + 1
Fault == faults < MaxFaults /\ faults' = faults + 1

-----------------------------------------------------------------------------
(* The calling thread *)

start_worker(type, conn) ==
    /\ workers' = Append(workers, [type |-> type, conn |-> conn])
    /\ thread' = Append(thread, "check")
    /\ isStop' = Append(isStop, FALSE)

(* A connection that is made gets its timeout before its worker starts.     *)
start_connection_worker(type) ==
    /\ connections' = Append(connections, "open")
    /\ start_worker(type, Len(connections) + 1)

(* begin_session: a port that does not answer, or a logon that cannot be    *)
(* sent, gives None, and None.settimeout raises: the call is over, with     *)
(* what it has started so far still running.                                *)
BeginControl ==
    /\ Call /\ stopped' = FALSE /\ command' = "none" /\ began' = "raised"
    /\ \/ start_connection_worker("control") /\ main' = "beginAlive"
       \/ UNCHANGED <<main, threads, connections>>
    /\ UNCHANGED <<k, console, faults>>

BeginAlive ==
    /\ main = "beginAlive" /\ main' = "beginConsole"
    /\ start_worker("alive", workers[Len(workers)].conn)
    /\ UNCHANGED <<k, calls, stopped, connections, faults, begun>>

(* Faulty variant: a console worker there is already is not replaced.       *)
BugOldConsole ==
    /\ main = "beginConsole" /\ main' = "idle"
    /\ \/ /\ start_connection_worker("console") /\ began' = "ok"
          /\ console' = IF console = 0 THEN Len(workers) + 1 ELSE console
       \/ UNCHANGED <<threads, connections, console, began>>
    /\ UNCHANGED <<k, calls, stopped, command, faults>>

BeginConsole ==
    /\ main = "beginConsole" /\ main' = "idle"
    /\ \/ /\ start_connection_worker("console") /\ began' = "ok"
          /\ console' = Len(workers) + 1
       \/ UNCHANGED <<threads, connections, console, began>>
    /\ UNCHANGED <<k, calls, stopped, command, faults>>

(* execute_command: sendall goes out, or times out or fails, which the      *)
(* caller is left with.                                                     *)
ExecuteCommand ==
    /\ Call /\ console # 0
    /\ \/ connections[workers[console].conn] \in {"open", "eof"} /\ command' = "sent"
       \/ command' = "raised"
    /\ UNCHANGED <<main, k, stopped, threads, connections, console, began, faults>>

(* stop_session: one worker after the other is told to stop and joined.     *)
StopSession ==
    /\ Call /\ stopped' = FALSE /\ command' = "none"
    /\ k' = 1 /\ main' = IF workers = <<>> THEN "close" ELSE "setStop"
    /\ UNCHANGED <<threads, connections, console, began, faults>>

SetStop ==
    /\ main = "setStop" /\ main' = "join"
    /\ isStop' = [isStop EXCEPT ![k] = TRUE]
    /\ UNCHANGED <<k, calls, stopped, workers, thread, connections, faults, begun>>

(* Faulty variants: no join; the last worker is forgotten.                  *)
BugNoJoin ==
    /\ main = "join"
    /\ k' = k + 1 /\ main' = IF k = Len(workers) THEN "close" ELSE "setStop"
    /\ UNCHANGED <<calls, stopped, threads, connections, faults, begun>>
BugLastForgotten ==
    /\ main = "join" /\ thread[k] = "ended"
    /\ k' = k + 1 /\ main' = IF k >= Len(workers) - 1 THEN "close" ELSE "setStop"
    /\ UNCHANGED <<calls, stopped, threads, connections, faults, begun>>

Join ==
    /\ main = "join" /\ thread[k] = "ended"
    /\ k' = k + 1 /\ main' = IF k = Len(workers) THEN "close" ELSE "setStop"
    /\ UNCHANGED <<calls, stopped, threads, connections, faults, begun>>

(* Every connection is closed, those of earlier sessions once more.         *)
CloseAll ==
    /\ main = "close" /\ main' = "idle"
    /\ connections' = [c \in DOMAIN connections |-> "closed"]
    /\ stopped' = TRUE
    /\ UNCHANGED <<k, calls, threads, faults, begun>>

MainStep == BeginAlive \/ BeginConsole \/ SetStop \/ Join \/ CloseAll

-----------------------------------------------------------------------------
(* Worker_base.run *)

CheckStop(i) ==
    /\ thread[i] = "check"
    /\ thread' = [thread EXCEPT ![i] = IF isStop[i] THEN "ended" ELSE "working"]
    /\ UNCHANGED <<main, k, calls, stopped, workers, isStop, connections, faults, begun>>

(* Faulty variant: a socket without a timeout, whose recv may wait for ever. *)
BugNoTimeout(i) ==
    /\ thread[i] = "working" /\ connections[workers[i].conn] = "eof"
    /\ thread' = [thread EXCEPT ![i] = "check"]
    /\ UNCHANGED <<main, k, calls, stopped, workers, isStop, connections, faults, begun>>

(* working() returns, or its socket.timeout is caught: with data, without,  *)
(* or, at eof, at once with nothing.                                        *)
WorkingReturns(i) ==
    /\ thread[i] = "working" /\ connections[workers[i].conn] \in {"open", "eof"}
    /\ thread' = [thread EXCEPT ![i] = "check"]
    /\ UNCHANGED <<main, k, calls, stopped, workers, isStop, connections, faults, begun>>

WorkingRaisesOSError(i) ==
    /\ thread[i] = "working" /\ connections[workers[i].conn] \in {"broken", "closed"}
    /\ thread' = [thread EXCEPT ![i] = "ended"]
    /\ isStop' = [isStop EXCEPT ![i] = TRUE]
    /\ UNCHANGED <<main, k, calls, stopped, workers, connections, faults, begun>>

(* The console's 1024 bytes end inside a character: UnicodeDecodeError is   *)
(* not caught and ends the thread.                                          *)
DecodeFails(i) ==
    /\ thread[i] = "working" /\ workers[i].type = "console"
    /\ connections[workers[i].conn] \in {"open", "eof"}
    /\ Fault /\ thread' = [thread EXCEPT ![i] = "ended"]
    /\ UNCHANGED <<main, k, calls, stopped, workers, isStop, connections, begun>>

WorkerStep(i) == CheckStop(i) \/ WorkingReturns(i) \/ WorkingRaisesOSError(i)

-----------------------------------------------------------------------------
(* The board and the network, external *)

ConnectionFails(c) ==
    /\ connections[c] \in {"open", "eof"} /\ Fault
    /\ \E s \in {"eof", "broken"} \ {connections[c]} : connections' = [connections EXCEPT ![c] = s]
    /\ UNCHANGED <<main, k, calls, stopped, threads, begun>>

-----------------------------------------------------------------------------
TpfNext ==
    \/ BeginControl \/ ExecuteCommand \/ StopSession \/ MainStep
    \/ \E i \in DOMAIN workers : WorkerStep(i) \/ DecodeFails(i)
    \/ \E c \in DOMAIN connections : ConnectionFails(c)

TpfSpec == TpfInit /\ [][TpfNext]_tpfVars

WorkerIds == 1 .. 3 * MaxCalls
(* The threads run, and every recv and sendall comes back within the second *)
(* of its timeout.                                                          *)
TpfFairSpec == TpfSpec /\ WF_tpfVars(MainStep)
                 /\ \A i \in WorkerIds : WF_tpfVars(i \in DOMAIN workers /\ WorkerStep(i))

-----------------------------------------------------------------------------
(* Properties *)

(* When stop_session has returned nothing of any session is left, also of   *)
(* one whose begin_session has raised half-way: every thread has ended and  *)
(* every connection is closed.                                              *)
StopLeavesNothing ==
    stopped => /\ \A i \in DOMAIN workers : thread[i] = "ended"
               /\ \A c \in DOMAIN connections : connections[c] = "closed"

(* No thread uses a connection the client has closed (join before close).   *)
NoUseAfterClose ==
    \A i \in DOMAIN workers : connections[workers[i].conn] = "closed" => thread[i] = "ended"

(* A command that is taken goes to a board: to the console of the session  *)
(* begun last, if begin_session has returned, and to none after            *)
(* stop_session, when the old console worker is still remembered           *)
(* (Tpfclient.py:149-152).                                                 *)
CommandGoesToTheSession ==
    command = "sent" => ~stopped /\ (began = "ok" => console = Len(workers))

(* The same when begin_session has raised.  Violated: the console worker of *)
(* the session before takes the command, and its board executes it          *)
(* (Tpfclient.py:133, 149-152).                                            *)
CommandGoesToTheLastBegun == command = "sent" => began = "ok"

(* stop_session returns, whatever the boards do. *)
StopReturns == main \in {"setStop", "join", "close"} ~> stopped

=============================================================================
