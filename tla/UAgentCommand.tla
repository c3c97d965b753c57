--------------------------- MODULE UAgentCommand ---------------------------
(***************************************************************************)
(* The command path of TestCaseLib: the test thread that calls             *)
(* TestCase_ExcuteCmd, TestCase_SetExecuteTaskPrio and                     *)
(* TestCase_RestartExecuteTask, the receive thread that dispatches what    *)
(* the boards send, and the boards themselves (CWorkManager, WorkManager.cpp). *)
(*                                                                         *)
(* A call sends one request and then waits on Windows auto-reset events    *)
(* that are shared by all processors.  The receive thread stores an answer *)
(* in a map keyed by the processor's name and sets the event.  Requests    *)
(* carry command id 0 on the wire, so nothing pairs an answer with its     *)
(* request: the field id below is a history value that no guard reads.     *)
(***************************************************************************)
EXTENDS Integers, Sequences

CONSTANTS
    Procs,      \* names of the registered processors (keys of m_NameAddrMap)
    Boards64,   \* the processors whose boards are 64 bit: they send the long RSP1
    MaxCalls,   \* bound: calls the test thread makes in a behaviour
    MaxOutages  \* bound: how many boards may go down in a behaviour

ASSUME UAgentCommandAssumption ==
    /\ Procs # {}
    /\ Boards64 \subseteq Procs
    /\ MaxCalls \in Nat
    /\ MaxOutages \in Nat

-----------------------------------------------------------------------------
(* Return codes of the API, ErrorCode.h *)
TESTCASE_SUCCESS            == 0
TESTCASE_FAIL               == -1
ECMD_RSP1_TIMEOUT_ERROR     == -3
ECMD_RSP1_NO_SYMBOL_ERROR   == -4
ECMD_RSP1_NONE_EXECUTE_SYMBOL_ERROR == -5
ECMD_RSP2_TIMEOUT_ERROR     == -6
ECMD_CTRL_RSP_TIMEOUT_ERROR == -7
ECMD_TASK_BUSY              == -9

(* s32CmdExecResult of a RSP1, MessageFormat.h.  RSP1_INVALID stands for    *)
(* the three results no branch of SendMsg_ExecuteCmd looks at:              *)
(* INVALID_CMDID, BUF_FULL and INVALID_SIG.                                 *)
RSP1_OK                  == 0
RSP1_NO_SYMBOL           == -1
RSP1_NONE_EXECUTE_SYMBOL == -2
RSP1_BUSY                == -3
RSP1_INVALID             == -4
Rsp1Results == {RSP1_OK, RSP1_NO_SYMBOL, RSP1_NONE_EXECUTE_SYMBOL, RSP1_BUSY, RSP1_INVALID}

(* u32MsgSize of what a board sends on UAGT_CMD_EXECUTE_SERVICE_ID: the     *)
(* only thing DealMsg tells answers apart by.                               *)
TASK_RSP_SIZE      == 12    \* sizeof(UAGT_CMD_SET_TASK_PRIO_REQ) - sizeof(UAGENT_MSG_HEAD)
MSGSIZE_RSP1_32BIT == 20
MSGSIZE_RSP1_64BIT == 28
RESTART_RSP_SIZE   == 8     \* sizeof(UAGT_CMD_TASK_RESTART_RSP) - sizeof(UAGENT_MSG_HEAD)
RSP2_SIZE          == 532   \* the fixed part of UAGT_CMD_EXECUTE_RSP2
AnswerSizes == {TASK_RSP_SIZE, MSGSIZE_RSP1_32BIT, MSGSIZE_RSP1_64BIT, RESTART_RSP_SIZE, RSP2_SIZE}

(* What SendMsg returns when the whole request went out: its sizeof.        *)
PRIO_REQ_SIZE    == 20
RESTART_REQ_SIZE == 16
EXECUTE_REQ_SIZE == 540     \* the fixed part; ExcuteCmd ignores what comes back
EXECUTECMD_SEND_FAIL == -1

CallIds == 1 .. MaxCalls
Ops     == {"exec", "prio", "restart"}
Codes   == {TESTCASE_SUCCESS, TESTCASE_FAIL, ECMD_RSP1_TIMEOUT_ERROR,
            ECMD_RSP1_NO_SYMBOL_ERROR, ECMD_RSP2_TIMEOUT_ERROR,
            ECMD_CTRL_RSP_TIMEOUT_ERROR, ECMD_TASK_BUSY}
NoAnswer == [id |-> 0, size |-> 0, result |-> 0]   \* absent from a map
Request  == [id : CallIds, op : Ops]
Answer   == [id : CallIds, size : AnswerSizes, result : Rsp1Results]
Returned == [id : CallIds, proc : Procs, op : Ops, code : Codes, answer : 0 .. MaxCalls,
             rsp1 : Rsp1Results]

VARIABLES
    pc,          \* where the test thread is: "idle" or inside a call
    cur,         \* the call it is in: [id, proc, op]
    rsp1Local,   \* s32CmdExecResultRsp1, the local of SendMsg_ExecuteCmd
    retVal,      \* *pnRetVal: the id of the request whose answer it came from
    nextId,      \* history: the number of the next call
    returned,    \* history: every call that has returned
    m_hTaskRspEvent, m_hRsp1Event, m_hRsp2Event,    \* auto-reset events
    m_NameRsp1Map, m_NameRsp2Map,                   \* last answer per processor
    rcv,         \* where the receive thread is
    toBoard, fromBoard,     \* the TCP streams, per processor
    running,     \* the command a board's task executes, 0 if none
    up,          \* is the board's end of the connection alive
    outages      \* bound counter for board outages

apiVars   == <<pc, cur, rsp1Local, retVal, nextId, returned>>
events    == <<m_hTaskRspEvent, m_hRsp1Event, m_hRsp2Event>>
maps      == <<m_NameRsp1Map, m_NameRsp2Map>>
boardVars == <<running, up, outages>>
vars == <<apiVars, events, maps, rcv, toBoard, fromBoard, boardVars>>

CallTypeOK ==
    /\ pc \in {"idle", "rsp1", "erase1", "rsp2", "erase2", "task"}
    /\ cur \in [id : 0 .. MaxCalls, proc : Procs, op : Ops]
    /\ pc # "idle" => cur.id \in CallIds
    /\ rsp1Local \in Rsp1Results
    /\ retVal \in 0 .. MaxCalls
    /\ nextId \in 1 .. MaxCalls + 1
    /\ returned \subseteq Returned
ReceiveTypeOK ==
    /\ m_hTaskRspEvent \in BOOLEAN /\ m_hRsp1Event \in BOOLEAN /\ m_hRsp2Event \in BOOLEAN
    /\ m_NameRsp1Map \in [Procs -> Answer \cup {NoAnswer}]
    /\ m_NameRsp2Map \in [Procs -> Answer \cup {NoAnswer}]
    /\ rcv \in {"select", "stored1", "stored2"}
BoardTypeOK ==
    /\ toBoard \in [Procs -> Seq(Request)]
    /\ fromBoard \in [Procs -> Seq(Answer)]
    /\ running \in [Procs -> 0 .. MaxCalls]
    /\ up \in [Procs -> BOOLEAN]
    /\ outages \in 0 .. MaxOutages
(* The state of the calls, of the receive thread and of the boards is in    *)
(* range: among other things every code a call returns is one of Codes.     *)
TypeOK == CallTypeOK /\ ReceiveTypeOK /\ BoardTypeOK

Init ==
    /\ pc = "idle"
    /\ cur \in [id : {0}, proc : Procs, op : {"exec"}]
    /\ rsp1Local = RSP1_OK /\ retVal = 0
    /\ nextId = 1 /\ returned = {}
    /\ m_hTaskRspEvent = FALSE /\ m_hRsp1Event = FALSE /\ m_hRsp2Event = FALSE
    /\ m_NameRsp1Map = [p \in Procs |-> NoAnswer]
    /\ m_NameRsp2Map = [p \in Procs |-> NoAnswer]
    /\ rcv = "select"
    /\ toBoard = [p \in Procs |-> <<>>] /\ fromBoard = [p \in Procs |-> <<>>]
    /\ running = [p \in Procs |-> 0]
    /\ up = [p \in Procs |-> TRUE]
    /\ outages = 0

-----------------------------------------------------------------------------
(* The test thread *)

(* SendMsg: either the request enters the stream and its size comes back,   *)
(* or, once the peer is gone, send() may still accept it or fail.           *)
SendMsg(p, op, size, result) ==
    IF up[p]
    THEN result = size /\ toBoard' = [toBoard EXCEPT ![p] = Append(@, [id |-> nextId, op |-> op])]
    ELSE result \in {size, EXECUTECMD_SEND_FAIL} /\ UNCHANGED toBoard

(* The return statement of an API function. *)
Return(call, code, answer, rsp1) ==
    /\ pc' = "idle"
    /\ returned' = returned \cup {[id |-> call.id, proc |-> call.proc, op |-> call.op,
                                   code |-> code, answer |-> answer, rsp1 |-> rsp1]}

(* A new call gets the next number. *)
NewCall(p, op) == [id |-> nextId, proc |-> p, op |-> op]
Enter(p, op) ==
    /\ pc = "idle" /\ nextId <= MaxCalls
    /\ cur' = NewCall(p, op)
    /\ nextId' = nextId + 1
    /\ retVal' = 0 /\ rsp1Local' = RSP1_OK

(* SendMsg_ExecuteCmd up to its first wait: what SendMsg returns is ignored. *)
ExcuteCmd(p) ==
    /\ Enter(p, "exec")
    /\ \E result \in {EXECUTE_REQ_SIZE, EXECUTECMD_SEND_FAIL} : SendMsg(p, "exec", EXECUTE_REQ_SIZE, result)
    /\ pc' = "rsp1"
    /\ UNCHANGED <<returned, events, maps, rcv, fromBoard, boardVars>>

Rsp1Timeout ==
    /\ pc = "rsp1" /\ ~m_hRsp1Event
    /\ Return(cur, ECMD_RSP1_TIMEOUT_ERROR, 0, rsp1Local)
    /\ UNCHANGED <<cur, rsp1Local, retVal, nextId, events, maps, rcv, toBoard, fromBoard, boardVars>>

(* The wait succeeds, which resets the event, and the map is looked up by   *)
(* the caller's name; a miss is logged as "UnLogic".                        *)
TakeRsp1 ==
    /\ pc = "rsp1" /\ m_hRsp1Event
    /\ m_hRsp1Event' = FALSE
    /\ LET rsp1 == m_NameRsp1Map[cur.proc]
       IN  IF rsp1 = NoAnswer
           THEN /\ Return(cur, TESTCASE_FAIL, 0, rsp1Local)
                /\ UNCHANGED <<rsp1Local, retVal>>
           ELSE /\ rsp1Local' = rsp1.result /\ retVal' = rsp1.id
                /\ pc' = "erase1" /\ UNCHANGED returned
    /\ UNCHANGED <<cur, nextId, m_hTaskRspEvent, m_hRsp2Event, maps, rcv, toBoard, fromBoard, boardVars>>

(* erase(iterNameRsp1), then the switch on the result. *)
EraseRsp1 ==
    /\ pc = "erase1"
    /\ m_NameRsp1Map' = [m_NameRsp1Map EXCEPT ![cur.proc] = NoAnswer]
    /\ CASE rsp1Local \in {RSP1_NO_SYMBOL, RSP1_NONE_EXECUTE_SYMBOL} ->
                Return(cur, ECMD_RSP1_NO_SYMBOL_ERROR, 0, rsp1Local)
         [] rsp1Local = RSP1_BUSY -> Return(cur, ECMD_TASK_BUSY, 0, rsp1Local)
         [] OTHER -> pc' = "rsp2" /\ UNCHANGED returned
    /\ UNCHANGED <<cur, rsp1Local, retVal, nextId, events, m_NameRsp2Map, rcv, toBoard, fromBoard, boardVars>>

(* Faulty variant, for a mutant: a timeout of the RSP2 that reports success. *)
BugRsp2TimeoutSucceeds ==
    /\ pc = "rsp2" /\ ~m_hRsp2Event
    /\ Return(cur, TESTCASE_SUCCESS, retVal, rsp1Local)
    /\ UNCHANGED <<cur, rsp1Local, retVal, nextId, events, maps, rcv, toBoard, fromBoard, boardVars>>

Rsp2Timeout ==
    /\ pc = "rsp2" /\ ~m_hRsp2Event
    /\ Return(cur, ECMD_RSP2_TIMEOUT_ERROR, 0, rsp1Local)
    /\ UNCHANGED <<cur, rsp1Local, retVal, nextId, events, maps, rcv, toBoard, fromBoard, boardVars>>

(* Faulty variant: a manual-reset event. *)
BugManualReset ==
    /\ pc = "rsp2" /\ m_hRsp2Event
    /\ LET rsp2 == m_NameRsp2Map[cur.proc]
       IN  IF rsp2 = NoAnswer
           THEN Return(cur, TESTCASE_FAIL, 0, rsp1Local) /\ UNCHANGED retVal
           ELSE retVal' = rsp2.id /\ pc' = "erase2" /\ UNCHANGED returned
    /\ UNCHANGED <<cur, rsp1Local, nextId, events, maps, rcv, toBoard, fromBoard, boardVars>>

TakeRsp2 ==
    /\ pc = "rsp2" /\ m_hRsp2Event
    /\ m_hRsp2Event' = FALSE
    /\ LET rsp2 == m_NameRsp2Map[cur.proc]
       IN  IF rsp2 = NoAnswer
           THEN Return(cur, TESTCASE_FAIL, 0, rsp1Local) /\ UNCHANGED retVal
           ELSE retVal' = rsp2.id /\ pc' = "erase2" /\ UNCHANGED returned
    /\ UNCHANGED <<cur, rsp1Local, nextId, m_hTaskRspEvent, m_hRsp1Event, maps, rcv, toBoard, fromBoard, boardVars>>

(* Faulty variant: the entry is kept, as WorkManager.h:75-76 has it. *)
BugNoErase ==
    /\ pc = "erase2"
    /\ Return(cur, TESTCASE_SUCCESS, retVal, rsp1Local)
    /\ UNCHANGED <<cur, rsp1Local, retVal, nextId, events, maps, rcv, toBoard, fromBoard, boardVars>>

EraseRsp2 ==
    /\ pc = "erase2"
    /\ m_NameRsp2Map' = [m_NameRsp2Map EXCEPT ![cur.proc] = NoAnswer]
    /\ Return(cur, TESTCASE_SUCCESS, retVal, rsp1Local)
    /\ UNCHANGED <<cur, rsp1Local, retVal, nextId, events, m_NameRsp1Map, rcv, toBoard, fromBoard, boardVars>>

(* The shape TestCaseLibSetTaskPrio and TestCaseLibRestartExecuteTask share: *)
(* send, compare what SendMsg returned with sizeof(SET_TASK_PRIO_REQ), wait. *)
SendAndWaitTask(p, op, size) ==
    /\ Enter(p, op)
    /\ \E result \in {size, EXECUTECMD_SEND_FAIL} :
           /\ SendMsg(p, op, size, result)
           /\ IF result # PRIO_REQ_SIZE
              THEN Return(NewCall(p, op), TESTCASE_FAIL, 0, RSP1_OK)
              ELSE pc' = "task" /\ UNCHANGED returned
    /\ UNCHANGED <<events, maps, rcv, fromBoard, boardVars>>

SetTaskPrio(p)        == SendAndWaitTask(p, "prio", PRIO_REQ_SIZE)
RestartExecuteTask(p) == SendAndWaitTask(p, "restart", RESTART_REQ_SIZE)

TaskTimeout ==
    /\ pc = "task" /\ ~m_hTaskRspEvent
    /\ Return(cur, ECMD_CTRL_RSP_TIMEOUT_ERROR, 0, rsp1Local)
    /\ UNCHANGED <<cur, rsp1Local, retVal, nextId, events, maps, rcv, toBoard, fromBoard, boardVars>>

TakeTask ==
    /\ pc = "task" /\ m_hTaskRspEvent
    /\ m_hTaskRspEvent' = FALSE
    /\ Return(cur, TESTCASE_SUCCESS, 0, rsp1Local)
    /\ UNCHANGED <<cur, rsp1Local, retVal, nextId, m_hRsp1Event, m_hRsp2Event, maps, rcv, toBoard, fromBoard, boardVars>>

CallStep == \/ Rsp1Timeout \/ TakeRsp1 \/ EraseRsp1
            \/ Rsp2Timeout \/ TakeRsp2 \/ EraseRsp2
            \/ TaskTimeout \/ TakeTask

-----------------------------------------------------------------------------
(* The receive thread: DealMsg on UAGT_CMD_EXECUTE_SERVICE_ID, by size.     *)
(* Storing the answer and SetEvent are two steps: the test thread holds no  *)
(* lock while it reads and erases.                                          *)
DealMsg(p) ==
    /\ rcv = "select" /\ fromBoard[p] # <<>>
    /\ fromBoard' = [fromBoard EXCEPT ![p] = Tail(@)]
    /\ LET msg == Head(fromBoard[p])
       IN  CASE msg.size = TASK_RSP_SIZE ->
                    m_hTaskRspEvent' = TRUE /\ UNCHANGED <<maps, rcv>>
             [] msg.size \in {MSGSIZE_RSP1_32BIT, MSGSIZE_RSP1_64BIT} ->
                    /\ m_NameRsp1Map' = [m_NameRsp1Map EXCEPT ![p] = msg]
                    /\ rcv' = "stored1" /\ UNCHANGED <<m_hTaskRspEvent, m_NameRsp2Map>>
             [] OTHER ->
                    /\ m_NameRsp2Map' = [m_NameRsp2Map EXCEPT ![p] = msg]
                    /\ rcv' = "stored2" /\ UNCHANGED <<m_hTaskRspEvent, m_NameRsp1Map>>
    /\ UNCHANGED <<apiVars, m_hRsp1Event, m_hRsp2Event, toBoard, boardVars>>

SetRsp1Event ==
    /\ rcv = "stored1" /\ rcv' = "select"
    /\ m_hRsp1Event' = TRUE
    /\ UNCHANGED <<apiVars, m_hTaskRspEvent, m_hRsp2Event, maps, toBoard, fromBoard, boardVars>>

SetRsp2Event ==
    /\ rcv = "stored2" /\ rcv' = "select"
    /\ m_hRsp2Event' = TRUE
    /\ UNCHANGED <<apiVars, m_hTaskRspEvent, m_hRsp1Event, maps, toBoard, fromBoard, boardVars>>

-----------------------------------------------------------------------------
(* The boards, external: what the client code expects of them.              *)
Reply(p, id, size, result) ==
    fromBoard' = [fromBoard EXCEPT ![p] = Append(@, [id |-> id, size |-> size, result |-> result])]
Rsp1Size(p) == IF p \in Boards64 THEN MSGSIZE_RSP1_64BIT ELSE MSGSIZE_RSP1_32BIT
NextRequest(p, op) ==
    /\ up[p] /\ toBoard[p] # <<>> /\ Head(toBoard[p]).op = op
    /\ toBoard' = [toBoard EXCEPT ![p] = Tail(@)]

(* A command is accepted, or refused with one of the error results; a task  *)
(* that is still executing answers BUSY.                                    *)
BoardExecute(p) ==
    /\ NextRequest(p, "exec")
    /\ LET id == Head(toBoard[p]).id
       IN  \E result \in Rsp1Results :
              /\ running[p] # 0 => result = RSP1_BUSY
              /\ Reply(p, id, Rsp1Size(p), result)
              /\ running' = IF result = RSP1_OK THEN [running EXCEPT ![p] = id] ELSE running
    /\ UNCHANGED <<apiVars, events, maps, rcv, up, outages>>

BoardFinish(p) ==
    /\ up[p] /\ running[p] # 0
    /\ Reply(p, running[p], RSP2_SIZE, RSP1_OK)
    /\ running' = [running EXCEPT ![p] = 0]
    /\ UNCHANGED <<apiVars, events, maps, rcv, toBoard, up, outages>>

BoardSetPrio(p) ==
    /\ NextRequest(p, "prio")
    /\ Reply(p, Head(toBoard[p]).id, TASK_RSP_SIZE, RSP1_OK)
    /\ UNCHANGED <<apiVars, events, maps, rcv, boardVars>>

(* The task is restarted: the command it was executing gets no RSP2. *)
BoardRestart(p) ==
    /\ NextRequest(p, "restart")
    /\ Reply(p, Head(toBoard[p]).id, RESTART_RSP_SIZE, RSP1_OK)
    /\ running' = [running EXCEPT ![p] = 0]
    /\ UNCHANGED <<apiVars, events, maps, rcv, up, outages>>

(* The board reboots: requests it has not read and its task are gone, what  *)
(* it has already sent is still in the PC's socket.                         *)
BoardDown(p) ==
    /\ up[p] /\ outages < MaxOutages
    /\ up' = [up EXCEPT ![p] = FALSE]
    /\ outages' = outages + 1
    /\ toBoard' = [toBoard EXCEPT ![p] = <<>>]
    /\ running' = [running EXCEPT ![p] = 0]
    /\ UNCHANGED <<apiVars, events, maps, rcv, fromBoard>>

-----------------------------------------------------------------------------
Next ==
    \/ \E p \in Procs : ExcuteCmd(p) \/ SetTaskPrio(p) \/ RestartExecuteTask(p)
    \/ CallStep
    \/ \E p \in Procs : DealMsg(p)
    \/ SetRsp1Event \/ SetRsp2Event
    \/ \E p \in Procs : \/ BoardExecute(p) \/ BoardFinish(p) \/ BoardSetPrio(p)
                        \/ BoardRestart(p) \/ BoardDown(p)

Spec == Init /\ [][Next]_vars

-----------------------------------------------------------------------------
(* Properties *)

(* A call is settled when its return code tells the caller that no answer   *)
(* to it can still be on its way.  After a timeout, an "UnLogic" failure or *)
(* a restart the request may yet be answered.                               *)
Settled(call) ==
    CASE call.op = "exec"    -> call.code \in {TESTCASE_SUCCESS, ECMD_RSP1_NO_SYMBOL_ERROR, ECMD_TASK_BUSY}
      [] call.op = "prio"    -> call.code \in {TESTCASE_SUCCESS, TESTCASE_FAIL}
      [] call.op = "restart" -> FALSE
AllSettled == \A call \in returned : Settled(call)
Succeeded  == {call \in returned : call.op = "exec" /\ call.code = TESTCASE_SUCCESS}

(* As long as every call made so far has settled, each command that reports *)
(* success hands the caller the return value the board computed for that    *)
(* command, although request and answer carry no number, the events are     *)
(* shared by all boards and nothing is reset before a request is sent       *)
(* (SendMsg_ExecuteCmd, DealMsg).                                           *)
OwnAnswerWhileSettled == AllSettled => \A call \in Succeeded : call.answer = call.id

(* As long as every call before it has settled, a command never takes the   *)
(* branches logged as "UnLogic": an event it has waited for is accompanied  *)
(* by an entry of the map under the caller's name.                          *)
EventHasEntryWhileSettled ==
    AllSettled => /\ pc = "rsp1" /\ m_hRsp1Event => m_NameRsp1Map[cur.proc] # NoAnswer
                  /\ pc = "rsp2" /\ m_hRsp2Event => m_NameRsp2Map[cur.proc] # NoAnswer

(* How a returned call ended, as its caller sees it. *)
Outcome(call) == CASE call \in Succeeded -> "answered"
                   [] call \notin Succeeded /\ Settled(call) -> "closed"
                   [] OTHER -> "open"
Ended(call) == [id |-> call.id, proc |-> call.proc, outcome |-> Outcome(call), answer |-> call.answer]
Service == INSTANCE CommandService WITH
    pending <- IF pc = "idle" THEN [id |-> 0] ELSE [id |-> cur.id, proc |-> cur.proc],
    done    <- {Ended(call) : call \in returned},
    made    <- nextId - 1

(* The two threads, the shared events and the maps implement the service:   *)
(* calls begin and end one at a time, and each answer given out is one that *)
(* CommandService allows (SendMsg_ExecuteCmd, DealMsg).                     *)
ImplementsService == Service!Spec

(* WorkManager.cpp:1480 and 1528 log the case of an event without an entry  *)
(* of the map as "UnLogic", a thing that cannot be.                         *)
NeverUnLogic ==
    /\ pc = "rsp1" /\ m_hRsp1Event => m_NameRsp1Map[cur.proc] # NoAnswer
    /\ pc = "rsp2" /\ m_hRsp2Event => m_NameRsp2Map[cur.proc] # NoAnswer

=============================================================================
