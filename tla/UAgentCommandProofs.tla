------------------------ MODULE UAgentCommandProofs ------------------------
(***************************************************************************)
(* Theorems about the command path.  OwnAnswerWhileSettled is not          *)
(* inductive: IInv adds where the one request and its one or two answers   *)
(* can be, between the test thread's send and its last erase.  InOrder,    *)
(* which also holds once a call has been left open, carries the refinement *)
(* of CommandService.                                                      *)
(***************************************************************************)
EXTENDS UAgentCommand, SequenceTheorems, TLAPS

(* An answer to the current call, by what DealMsg will make of it. *)
Rsp1Sizes == {MSGSIZE_RSP1_32BIT, MSGSIZE_RSP1_64BIT}
IsRsp1(m) == m \in Answer /\ m.id = cur.id /\ m.size \in Rsp1Sizes
IsRsp2(m) == m \in Answer /\ m.id = cur.id /\ m.size = RSP2_SIZE
IsTask(m) == m \in Answer /\ m.id = cur.id /\ m.size = TASK_RSP_SIZE

(* Nothing sent to p, received from p or executing on p is outstanding. *)
NothingSent(p) == toBoard[p] = <<>> /\ fromBoard[p] = <<>> /\ running[p] = 0
NothingKept(p) == m_NameRsp1Map[p] = NoAnswer /\ m_NameRsp2Map[p] = NoAnswer
Quiet(p)       == NothingSent(p) /\ NothingKept(p)

(* The request has not been answered: it is in the stream, or lost. *)
Unanswered(p, op) ==
    /\ rcv = "select" /\ ~m_hTaskRspEvent /\ ~m_hRsp1Event /\ ~m_hRsp2Event
    /\ toBoard[p] \in {<<>>, <<[id |-> cur.id, op |-> op]>>}
    /\ fromBoard[p] = <<>> /\ running[p] = 0
    /\ NothingKept(p)

(* The RSP1 is still in the stream, alone or followed by the RSP2. *)
Rsp1InStream(p) ==
    /\ rcv = "select" /\ ~m_hTaskRspEvent /\ ~m_hRsp1Event /\ ~m_hRsp2Event
    /\ toBoard[p] = <<>> /\ NothingKept(p)
    /\ \E m, n \in Answer :
          /\ IsRsp1(m) /\ IsRsp2(n)
          /\ \/ fromBoard[p] = <<m>> /\ running[p] \in {0, cur.id}
             \/ fromBoard[p] = <<m, n>> /\ running[p] = 0
          /\ m.result # RSP1_OK => fromBoard[p] = <<m>> /\ running[p] = 0

(* Where the RSP2 is once the RSP1 has left the stream; if accepted is      *)
(* FALSE the board does not execute the command and sends none.             *)
Rsp2Anywhere(p, accepted) ==
    /\ toBoard[p] = <<>>
    /\ \/ /\ fromBoard[p] = <<>> /\ running[p] \in {0, cur.id}
          /\ ~accepted => running[p] = 0
          /\ m_NameRsp2Map[p] = NoAnswer /\ ~m_hRsp2Event /\ rcv # "stored2"
       \/ /\ accepted /\ running[p] = 0
          /\ \E n \in Answer : IsRsp2(n) /\ fromBoard[p] = <<n>>
          /\ m_NameRsp2Map[p] = NoAnswer /\ ~m_hRsp2Event /\ rcv # "stored2"
       \/ /\ accepted /\ running[p] = 0 /\ fromBoard[p] = <<>>
          /\ IsRsp2(m_NameRsp2Map[p])
          /\ \/ rcv = "stored2" /\ ~m_hRsp2Event
             \/ rcv = "select" /\ m_hRsp2Event

Rsp1Stored(p) ==
    /\ ~m_hTaskRspEvent
    /\ IsRsp1(m_NameRsp1Map[p])
    /\ Rsp2Anywhere(p, m_NameRsp1Map[p].result = RSP1_OK)
    /\ \/ rcv = "stored1" /\ ~m_hRsp1Event
       \/ rcv # "stored1" /\ m_hRsp1Event

(* What the test thread may find, by where it is in the call. *)
WaitingRsp1  == \/ Unanswered(cur.proc, "exec")
                \/ Rsp1InStream(cur.proc)
                \/ Rsp1Stored(cur.proc)
ErasingRsp1  == /\ IsRsp1(m_NameRsp1Map[cur.proc])
                /\ rsp1Local = m_NameRsp1Map[cur.proc].result /\ retVal = cur.id
                /\ ~m_hTaskRspEvent /\ ~m_hRsp1Event /\ rcv # "stored1"
                /\ Rsp2Anywhere(cur.proc, rsp1Local = RSP1_OK)
WaitingRsp2  == /\ m_NameRsp1Map[cur.proc] = NoAnswer
                /\ ~m_hTaskRspEvent /\ ~m_hRsp1Event /\ rcv # "stored1"
                /\ Rsp2Anywhere(cur.proc, TRUE)
ErasingRsp2  == /\ m_NameRsp1Map[cur.proc] = NoAnswer
                /\ IsRsp2(m_NameRsp2Map[cur.proc]) /\ retVal = cur.id
                /\ NothingSent(cur.proc)
                /\ ~m_hTaskRspEvent /\ ~m_hRsp1Event /\ ~m_hRsp2Event /\ rcv = "select"
WaitingTask  == \/ Unanswered(cur.proc, "prio")
                \/ /\ rcv = "select" /\ ~m_hRsp1Event /\ ~m_hRsp2Event /\ NothingKept(cur.proc)
                   /\ toBoard[cur.proc] = <<>> /\ running[cur.proc] = 0
                   /\ \/ ~m_hTaskRspEvent /\ \E m \in Answer : IsTask(m) /\ fromBoard[cur.proc] = <<m>>
                      \/ m_hTaskRspEvent /\ fromBoard[cur.proc] = <<>>
Idle         == /\ rcv = "select" /\ ~m_hTaskRspEvent /\ ~m_hRsp1Event /\ ~m_hRsp2Event
                /\ \A p \in Procs : Quiet(p)

CallProgress ==
    /\ pc = "idle"   => Idle
    /\ pc # "idle"   => cur.id \in CallIds /\ \A p \in Procs \ {cur.proc} : Quiet(p)
    /\ pc = "rsp1"   => WaitingRsp1
    /\ pc = "erase1" => ErasingRsp1
    /\ pc = "rsp2"   => WaitingRsp2
    /\ pc = "erase2" => ErasingRsp2
    /\ pc = "task"   => WaitingTask

(* The inductive invariant: as long as all calls have settled, the answers  *)
(* on their way are those to the current call and they are where the test   *)
(* thread will look for them.                                               *)
Own  == \A call \in Succeeded : call.answer = call.id
IInv == AllSettled => CallProgress /\ Own

(* Only a command waits for RSP1 and RSP2, only a priority change for the task response. *)
CallKinds == (pc \in {"rsp1", "erase1", "rsp2", "erase2"} => cur.op = "exec") /\ (pc = "task" => cur.op = "prio")

-----------------------------------------------------------------------------
(* What the constants of the module are: facts the steps below share. *)
LEMMA Constants ==
    /\ NoAnswer \notin Answer
    /\ 0 \notin CallIds /\ CallIds \subseteq 0 .. MaxCalls
    /\ \A p \in Procs : Rsp1Size(p) \in AnswerSizes
    /\ RSP1_OK \in Rsp1Results
BY UAgentCommandAssumption DEF NoAnswer, Answer, CallIds, Rsp1Size, AnswerSizes, RSP1_OK, Rsp1Results,
     MSGSIZE_RSP1_32BIT, MSGSIZE_RSP1_64BIT

(* Writing to one stream of a family, or reading its head, keeps the types. *)
LEMMA StreamTypes ==
    ASSUME NEW S, NEW f \in [Procs -> Seq(S)], NEW p \in Procs
    PROVE  /\ \A x \in S : [f EXCEPT ![p] = Append(@, x)] \in [Procs -> Seq(S)]
           /\ [f EXCEPT ![p] = <<>>] \in [Procs -> Seq(S)]
           /\ f[p] # <<>> => /\ Head(f[p]) \in S
                             /\ [f EXCEPT ![p] = Tail(@)] \in [Procs -> Seq(S)]
OBVIOUS

(* Codes names everything that is returned, so a return keeps the type. *)
LEMMA ReturnType ==
    ASSUME CallTypeOK, NEW call \in [id : CallIds, proc : Procs, op : Ops], NEW code \in Codes,
           NEW answer \in 0 .. MaxCalls, NEW rsp1 \in Rsp1Results, Return(call, code, answer, rsp1)
    PROVE  pc' = "idle" /\ returned' \subseteq Returned
BY DEF Return, Returned, CallTypeOK

(* The initial states are in range. *)
LEMMA InitType == Init => TypeOK
<1> USE UAgentCommandAssumption, Constants
<1> SUFFICES ASSUME Init PROVE TypeOK
  OBVIOUS
<1>1. CallTypeOK
  BY DEF Init, CallTypeOK, Ops
<1>2. ReceiveTypeOK
  BY DEF Init, ReceiveTypeOK
<1>3. BoardTypeOK
  BY DEF Init, BoardTypeOK
<1>4. QED
  BY <1>1, <1>2, <1>3 DEF TypeOK

(* Every step of the client and of the boards keeps the state in range. *)
LEMMA TypeStep == TypeOK /\ [Next]_vars => TypeOK'
<1> USE UAgentCommandAssumption, Constants
<1> SUFFICES ASSUME TypeOK, [Next]_vars PROVE TypeOK'
  OBVIOUS
<1>t. CallTypeOK /\ ReceiveTypeOK /\ BoardTypeOK
  BY DEF TypeOK
<1>s. ASSUME NEW p \in Procs, NEW op \in Ops, NEW size, NEW result, nextId \in CallIds, SendMsg(p, op, size, result)
      PROVE  toBoard' \in [Procs -> Seq(Request)]
  <2>1. [id |-> nextId, op |-> op] \in Request
    BY <1>s DEF Request
  <2>2. \A x \in Request : [toBoard EXCEPT ![p] = Append(@, x)] \in [Procs -> Seq(Request)]
    BY <1>t, StreamTypes DEF BoardTypeOK
  <2>3. QED
    BY <1>s, <1>t, <2>1, <2>2 DEF SendMsg, BoardTypeOK
<1>r. ASSUME NEW p \in Procs, NEW id \in CallIds, NEW size \in AnswerSizes, NEW result \in Rsp1Results,
             Reply(p, id, size, result)
      PROVE  fromBoard' \in [Procs -> Seq(Answer)]
  <2>1. [id |-> id, size |-> size, result |-> result] \in Answer
    BY DEF Answer
  <2>2. QED
    BY <1>r, <1>t, <2>1, StreamTypes DEF Reply, BoardTypeOK
<1>n. ASSUME NEW p \in Procs, NEW op, NextRequest(p, op)
      PROVE  Head(toBoard[p]).id \in CallIds /\ toBoard' \in [Procs -> Seq(Request)]
  <2>1. Head(toBoard[p]) \in Request /\ [toBoard EXCEPT ![p] = Tail(@)] \in [Procs -> Seq(Request)]
    BY <1>n, <1>t, StreamTypes DEF NextRequest, BoardTypeOK
  <2>2. QED
    BY <1>n, <2>1 DEF NextRequest, Request
<1>1. ASSUME NEW p \in Procs, ExcuteCmd(p) PROVE TypeOK'
  <2>1. CallTypeOK'
    BY <1>1, <1>t DEF ExcuteCmd, Enter, NewCall, CallTypeOK, Ops, CallIds
  <2>2. ReceiveTypeOK'
    BY <1>1, <1>t DEF ExcuteCmd, ReceiveTypeOK, events, maps
  <2>3. nextId \in CallIds
    BY <1>1, <1>t DEF ExcuteCmd, Enter, CallTypeOK, CallIds
  <2>4. BoardTypeOK'
    BY <1>1, <1>t, <1>s, <2>3 DEF ExcuteCmd, BoardTypeOK, boardVars, Ops
  <2>5. QED
    BY <2>1, <2>2, <2>4 DEF TypeOK
<1>2. ASSUME NEW p \in Procs, NEW op \in {"prio", "restart"}, NEW size, SendAndWaitTask(p, op, size)
      PROVE  TypeOK'
  <2>1. nextId \in CallIds /\ NewCall(p, op) \in [id : CallIds, proc : Procs, op : Ops]
    BY <1>2, <1>t DEF SendAndWaitTask, Enter, NewCall, CallTypeOK, CallIds, Ops
  <2>2. (pc' = "idle" \/ pc' = "task") /\ returned' \subseteq Returned
    BY <1>2, <1>t, <2>1, ReturnType DEF SendAndWaitTask, CallTypeOK, Codes
  <2>3. CallTypeOK'
    BY <1>2, <1>t, <2>1, <2>2 DEF SendAndWaitTask, Enter, NewCall, CallTypeOK, CallIds, Ops
  <2>4. ReceiveTypeOK'
    BY <1>2, <1>t DEF SendAndWaitTask, ReceiveTypeOK, events, maps
  <2>5. BoardTypeOK'
    BY <1>2, <1>t, <1>s, <2>1 DEF SendAndWaitTask, BoardTypeOK, boardVars, Ops
  <2>6. QED
    BY <2>3, <2>4, <2>5 DEF TypeOK
<1>3. CASE CallStep
  <2>1. cur \in [id : CallIds, proc : Procs, op : Ops]
    BY <1>3, <1>t DEF CallStep, Rsp1Timeout, TakeRsp1, EraseRsp1, Rsp2Timeout, TakeRsp2, EraseRsp2,
         TaskTimeout, TakeTask, CallTypeOK
  <2>2. ASSUME NEW code \in Codes, Return(cur, code, 0, rsp1Local) \/ Return(cur, code, retVal, rsp1Local)
        PROVE  pc' = "idle" /\ returned' \subseteq Returned
    BY <2>1, <2>2, <1>t, ReturnType DEF CallTypeOK
  <2>3. CASE Rsp1Timeout \/ Rsp2Timeout \/ TaskTimeout
    BY <2>3, <1>t, <2>2 DEF Rsp1Timeout, Rsp2Timeout, TaskTimeout, Codes, TypeOK, CallTypeOK, ReceiveTypeOK,
         BoardTypeOK, events, maps, boardVars
  <2>4. CASE TakeRsp1
    <3>1. CallTypeOK'
      BY <2>4, <1>t, <2>1, <2>2 DEF TakeRsp1, Codes, CallTypeOK, ReceiveTypeOK, Answer
    <3>2. QED
      BY <2>4, <1>t, <3>1 DEF TakeRsp1, TypeOK, ReceiveTypeOK, BoardTypeOK, maps, boardVars
  <2>5. CASE TakeRsp2
    <3>1. CallTypeOK'
      BY <2>5, <1>t, <2>1, <2>2 DEF TakeRsp2, Codes, CallTypeOK, ReceiveTypeOK, Answer
    <3>2. QED
      BY <2>5, <1>t, <3>1 DEF TakeRsp2, TypeOK, ReceiveTypeOK, BoardTypeOK, maps, boardVars
  <2>6. CASE EraseRsp1
    <3>1. CallTypeOK'
      BY <2>6, <1>t, <2>1, <2>2 DEF EraseRsp1, Codes, CallTypeOK
    <3>2. QED
      BY <2>6, <1>t, <3>1 DEF EraseRsp1, TypeOK, ReceiveTypeOK, BoardTypeOK, events, boardVars
  <2>7. CASE EraseRsp2
    <3>1. CallTypeOK'
      BY <2>7, <1>t, <2>1, <2>2 DEF EraseRsp2, Codes, CallTypeOK
    <3>2. QED
      BY <2>7, <1>t, <3>1 DEF EraseRsp2, TypeOK, ReceiveTypeOK, BoardTypeOK, events, boardVars
  <2>8. CASE TakeTask
    <3>1. CallTypeOK'
      BY <2>8, <1>t, <2>1, <2>2 DEF TakeTask, Codes, CallTypeOK
    <3>2. QED
      BY <2>8, <1>t, <3>1 DEF TakeTask, TypeOK, ReceiveTypeOK, BoardTypeOK, maps, boardVars
  <2>9. QED
    BY <1>3, <2>3, <2>4, <2>5, <2>6, <2>7, <2>8 DEF CallStep
<1>4. ASSUME NEW p \in Procs, DealMsg(p) PROVE TypeOK'
  <2>1. Head(fromBoard[p]) \in Answer /\ fromBoard' \in [Procs -> Seq(Answer)]
    BY <1>4, <1>t, StreamTypes DEF DealMsg, BoardTypeOK
  <2>2. ReceiveTypeOK'
    BY <1>4, <1>t, <2>1 DEF DealMsg, ReceiveTypeOK, maps
  <2>3. QED
    BY <1>4, <1>t, <2>1, <2>2 DEF DealMsg, TypeOK, CallTypeOK, BoardTypeOK, apiVars, boardVars
<1>5. CASE SetRsp1Event \/ SetRsp2Event
  BY <1>5, <1>t DEF SetRsp1Event, SetRsp2Event, TypeOK, CallTypeOK, ReceiveTypeOK, BoardTypeOK, apiVars, maps,
       boardVars
<1>6. ASSUME NEW p \in Procs, BoardExecute(p) \/ BoardSetPrio(p) \/ BoardRestart(p) PROVE TypeOK'
  <2>1. fromBoard' \in [Procs -> Seq(Answer)]
    <3>1. CASE BoardExecute(p)
      <4>1. Head(toBoard[p]).id \in CallIds
        BY <3>1, <1>n DEF BoardExecute
      <4>2. QED
        BY <3>1, <4>1, <1>r DEF BoardExecute
    <3>2. CASE BoardSetPrio(p)
      BY <3>2, <1>n, <1>r DEF BoardSetPrio, AnswerSizes
    <3>3. CASE BoardRestart(p)
      BY <3>3, <1>n, <1>r DEF BoardRestart, AnswerSizes
    <3>4. QED
      BY <1>6, <3>1, <3>2, <3>3
  <2>2. toBoard' \in [Procs -> Seq(Request)] /\ running' \in [Procs -> 0 .. MaxCalls]
    <3>1. CASE BoardExecute(p)
      <4>1. Head(toBoard[p]).id \in CallIds /\ toBoard' \in [Procs -> Seq(Request)]
        BY <3>1, <1>n DEF BoardExecute
      <4>2. QED
        BY <3>1, <4>1, <1>t DEF BoardExecute, BoardTypeOK
    <3>2. CASE BoardSetPrio(p)
      BY <3>2, <1>t, <1>n DEF BoardSetPrio, BoardTypeOK, boardVars
    <3>3. CASE BoardRestart(p)
      BY <3>3, <1>t, <1>n DEF BoardRestart, BoardTypeOK
    <3>4. QED
      BY <1>6, <3>1, <3>2, <3>3
  <2>3. QED
    BY <1>6, <1>t, <2>1, <2>2 DEF BoardExecute, BoardSetPrio, BoardRestart, TypeOK, CallTypeOK, ReceiveTypeOK,
         BoardTypeOK, apiVars, events, maps, boardVars
<1>7. ASSUME NEW p \in Procs, BoardFinish(p) PROVE TypeOK'
  <2>1. running[p] \in CallIds /\ RSP2_SIZE \in AnswerSizes
    BY <1>7, <1>t DEF BoardFinish, BoardTypeOK, CallIds, AnswerSizes
  <2>2. fromBoard' \in [Procs -> Seq(Answer)]
    BY <1>7, <1>r, <2>1 DEF BoardFinish
  <2>3. QED
    BY <1>7, <1>t, <2>2 DEF BoardFinish, TypeOK, CallTypeOK, ReceiveTypeOK, BoardTypeOK, apiVars, events, maps
<1>8. ASSUME NEW p \in Procs, BoardDown(p) PROVE TypeOK'
  <2>1. toBoard' \in [Procs -> Seq(Request)]
    BY <1>8, <1>t, StreamTypes DEF BoardDown, BoardTypeOK
  <2>2. QED
    BY <1>8, <1>t, <2>1 DEF BoardDown, TypeOK, CallTypeOK, ReceiveTypeOK, BoardTypeOK, apiVars, events, maps
<1>9. CASE UNCHANGED vars
  BY <1>9, <1>t DEF vars, TypeOK, CallTypeOK, ReceiveTypeOK, BoardTypeOK, apiVars, events, maps, boardVars
<1>10. QED
  BY <1>1, <1>2, <1>3, <1>4, <1>5, <1>6, <1>7, <1>8, <1>9 DEF Next, SetTaskPrio, RestartExecuteTask

(* TypeOK: for any set of processors and any bounds, the codes calls return *)
(* and all the state of the client and of the boards stay in their ranges.  *)
THEOREM TypeCorrect == Spec => []TypeOK
BY InitType, TypeStep, PTL DEF Spec

(* Streams of one or two messages, the only ones a settled client sees. *)
LEMMA ShortStreams ==
    ASSUME NEW S, NEW a \in S, NEW b \in S
    PROVE  /\ Append(<<>>, a) = <<a>> /\ Append(<<a>>, b) = <<a, b>>
           /\ <<a>> # <<>> /\ <<a, b>> # <<>>
           /\ Head(<<a>>) = a /\ Tail(<<a>>) = <<>>
           /\ Head(<<a, b>>) = a /\ Tail(<<a, b>>) = <<b>>
<1>1. Append(<<>>, a) = <<a>>
  OBVIOUS
<1>2. Append(<<a>>, b) = <<a, b>>
  <2>1. Append(<<a>>, b) \in Seq(S) /\ <<a, b>> \in Seq(S) /\ Len(Append(<<a>>, b)) = 2 /\ Len(<<a, b>>) = 2
    OBVIOUS
  <2>2. Append(<<a>>, b)[1] = a /\ Append(<<a>>, b)[2] = b
    OBVIOUS
  <2>3. \A i \in 1 .. 2 : Append(<<a>>, b)[i] = <<a, b>>[i]
    BY <2>2
  <2>4. QED
    BY <2>1, <2>3, SeqEqual
<1>3. <<a>> # <<>> /\ <<a, b>> # <<>>
  OBVIOUS
<1>4. Head(<<a>>) = a /\ Head(<<a, b>>) = a
  OBVIOUS
<1>5. Tail(<<a>>) = <<>>
  OBVIOUS
<1>6. Tail(<<a, b>>) = <<b>>
  OBVIOUS
<1>7. QED
  BY <1>1, <1>2, <1>3, <1>4, <1>5, <1>6

(* The sizes and results DealMsg and SendMsg_ExecuteCmd branch on differ. *)
LEMMA Distinct ==
    /\ TASK_RSP_SIZE \notin Rsp1Sizes /\ RSP2_SIZE \notin Rsp1Sizes /\ RSP2_SIZE # TASK_RSP_SIZE
    /\ \A p \in Procs : Rsp1Size(p) \in Rsp1Sizes
    /\ RSP1_OK \notin {RSP1_NO_SYMBOL, RSP1_NONE_EXECUTE_SYMBOL, RSP1_BUSY}
    /\ RESTART_REQ_SIZE # PRIO_REQ_SIZE /\ EXECUTECMD_SEND_FAIL # PRIO_REQ_SIZE
BY DEF TASK_RSP_SIZE, RSP2_SIZE, Rsp1Sizes, Rsp1Size, MSGSIZE_RSP1_32BIT, MSGSIZE_RSP1_64BIT, RSP1_OK, RSP1_NO_SYMBOL,
     RSP1_NONE_EXECUTE_SYMBOL, RSP1_BUSY, RESTART_REQ_SIZE, PRIO_REQ_SIZE, EXECUTECMD_SEND_FAIL

(* A call that has settled stays so: the past of a settled client is settled. *)
LEMMA SettledPast == ASSUME returned \subseteq returned', AllSettled' PROVE AllSettled
BY DEF AllSettled, Settled

(* A return with one of the codes of a timeout or of a restart ends it. *)
LEMMA Unsettled ==
    ASSUME NEW call, NEW code, NEW answer, NEW rsp1, Return(call, code, answer, rsp1), AllSettled'
    PROVE  /\ call.op = "exec" => code \in {TESTCASE_SUCCESS, ECMD_RSP1_NO_SYMBOL_ERROR, ECMD_TASK_BUSY}
           /\ call.op = "prio" => code \in {TESTCASE_SUCCESS, TESTCASE_FAIL}
           /\ call.op # "restart"
<1> DEFINE record == [id |-> call.id, proc |-> call.proc, op |-> call.op,
                      code |-> code, answer |-> answer, rsp1 |-> rsp1]
<1>1. record \in returned'
  BY DEF Return
<1>2. Settled(record)
  BY <1>1 DEF AllSettled, Settled
<1>3. record.op = call.op /\ record.code = code
  OBVIOUS
<1>4. QED
  BY <1>2, <1>3 DEF Settled

(* A return leaves the earlier successes as they were and adds its own. *)
LEMMA OwnReturn ==
    ASSUME NEW call, NEW code, NEW answer, NEW rsp1, Return(call, code, answer, rsp1), Own,
           call.op = "exec" /\ code = TESTCASE_SUCCESS => answer = call.id
    PROVE  Own'
BY DEF Return, Own, Succeeded

(* No step forgets a call that has returned. *)
LEMMA ReturnedGrows == [Next]_vars => returned \subseteq returned'
<1> SUFFICES ASSUME [Next]_vars PROVE returned \subseteq returned'
  OBVIOUS
<1>1. ASSUME NEW p \in Procs, ExcuteCmd(p) PROVE returned \subseteq returned'
  BY <1>1 DEF ExcuteCmd
<1>2. ASSUME NEW p \in Procs, NEW op, NEW size, SendAndWaitTask(p, op, size) PROVE returned \subseteq returned'
  BY <1>2 DEF SendAndWaitTask, Return
<1>3. CASE CallStep
  BY <1>3 DEF CallStep, Rsp1Timeout, TakeRsp1, EraseRsp1, Rsp2Timeout, TakeRsp2, EraseRsp2, TaskTimeout, TakeTask, Return
<1>4. ASSUME NEW p \in Procs, DealMsg(p) \/ SetRsp1Event \/ SetRsp2Event PROVE returned \subseteq returned'
  BY <1>4 DEF DealMsg, SetRsp1Event, SetRsp2Event, apiVars
<1>5. ASSUME NEW p \in Procs,
             BoardExecute(p) \/ BoardFinish(p) \/ BoardSetPrio(p) \/ BoardRestart(p) \/ BoardDown(p)
      PROVE  returned \subseteq returned'
  BY <1>5 DEF BoardExecute, BoardFinish, BoardSetPrio, BoardRestart, BoardDown, apiVars
<1>6. CASE UNCHANGED vars
  BY <1>6 DEF vars, apiVars
<1>7. QED
  BY <1>1, <1>2, <1>3, <1>4, <1>5, <1>6, UAgentCommandAssumption DEF Next, SetTaskPrio, RestartExecuteTask

-----------------------------------------------------------------------------
(* The invariant of the proofs below. *)
Inv == TypeOK /\ CallKinds /\ IInv

(* Inv holds of the initial states. *)
LEMMA InvInit == Init => Inv
<1> SUFFICES ASSUME Init PROVE Inv
  OBVIOUS
<1>1. TypeOK
  BY InitType
<1>2. CallProgress
  BY DEF Init, CallProgress, Idle, Quiet, NothingSent, NothingKept
<1>3. Own
  BY DEF Init, Own, Succeeded
<1>4. CallKinds
  BY DEF Init, CallKinds
<1>5. QED
  BY <1>1, <1>2, <1>3, <1>4 DEF Inv, IInv

(* The kind of call a wait belongs to. *)
LEMMA KindsStep == CallKinds /\ [Next]_vars => CallKinds'
<1> SUFFICES ASSUME CallKinds, [Next]_vars PROVE CallKinds'
  OBVIOUS
<1> USE DEF CallKinds
<1>1. ASSUME NEW p \in Procs, ExcuteCmd(p) PROVE CallKinds'
  BY <1>1 DEF ExcuteCmd, Enter, NewCall
<1>2. ASSUME NEW p \in Procs, SetTaskPrio(p) \/ RestartExecuteTask(p) PROVE CallKinds'
  BY <1>2, Distinct DEF SetTaskPrio, RestartExecuteTask, SendAndWaitTask, SendMsg, Enter, NewCall, Return
<1>3. CASE CallStep
  BY <1>3 DEF CallStep, Rsp1Timeout, TakeRsp1, EraseRsp1, Rsp2Timeout, TakeRsp2, EraseRsp2, TaskTimeout, TakeTask, Return
<1>4. ASSUME NEW p \in Procs, DealMsg(p) \/ SetRsp1Event \/ SetRsp2Event PROVE CallKinds'
  BY <1>4 DEF DealMsg, SetRsp1Event, SetRsp2Event, apiVars
<1>5. ASSUME NEW p \in Procs,
             BoardExecute(p) \/ BoardFinish(p) \/ BoardSetPrio(p) \/ BoardRestart(p) \/ BoardDown(p)
      PROVE  CallKinds'
  BY <1>5 DEF BoardExecute, BoardFinish, BoardSetPrio, BoardRestart, BoardDown, apiVars
<1>6. CASE UNCHANGED vars
  BY <1>6 DEF vars, apiVars
<1>7. QED
  BY <1>1, <1>2, <1>3, <1>4, <1>5, <1>6, UAgentCommandAssumption DEF Next

-----------------------------------------------------------------------------
(* One lemma per group of actions: a step of a settled client that leaves   *)
(* it settled keeps CallProgress and Own.                                   *)
Before == TypeOK /\ CallKinds /\ CallProgress /\ Own

(* Starting a call: one request in one stream and nothing anywhere else. *)
LEMMA ExcuteCmdStep ==
    ASSUME Before, NEW p \in Procs, ExcuteCmd(p) PROVE CallProgress' /\ Own'
<1> USE DEF Before, TypeOK
<1>1. Idle /\ nextId \in CallIds /\ cur' = [id |-> nextId, proc |-> p, op |-> "exec"] /\ pc' = "rsp1"
  BY UAgentCommandAssumption DEF ExcuteCmd, Enter, NewCall, CallProgress, CallTypeOK, CallIds
<1>2. toBoard'[p] \in {<<>>, <<[id |-> nextId, op |-> "exec"]>>} /\ \A q \in Procs \ {p} : toBoard'[q] = <<>>
  <2>1. Append(<<>>, [id |-> nextId, op |-> "exec"]) = <<[id |-> nextId, op |-> "exec"]>>
    OBVIOUS
  <2>2. \A q \in Procs : toBoard[q] = <<>>
    BY <1>1 DEF Idle, Quiet, NothingSent
  <2>3. QED
    BY <2>1, <2>2 DEF ExcuteCmd, SendMsg, BoardTypeOK
<1>3. UNCHANGED <<returned, events, maps, rcv, fromBoard, running>>
  BY DEF ExcuteCmd, boardVars
<1>4. Unanswered(p, "exec")'
  BY <1>1, <1>2, <1>3 DEF Unanswered, Idle, Quiet, NothingSent, NothingKept, events, maps
<1>5. \A q \in Procs \ {p} : Quiet(q)'
  BY <1>1, <1>2, <1>3 DEF Idle, Quiet, NothingSent, NothingKept, maps
<1>6. Own'
  BY <1>3 DEF Own, Succeeded
<1>7. QED
  BY <1>1, <1>4, <1>5, <1>6 DEF CallProgress, WaitingRsp1

(* A priority request on its way and its answer leave the records of calls.  *)
LEMMA SetTaskPrioStep ==
    ASSUME Before, NEW p \in Procs, SetTaskPrio(p) PROVE CallProgress' /\ Own'
<1> USE DEF Before, TypeOK
<1> DEFINE request == [id |-> nextId, op |-> "prio"]
<1>1. Idle /\ nextId \in CallIds /\ cur' = [id |-> nextId, proc |-> p, op |-> "prio"]
  BY UAgentCommandAssumption DEF SetTaskPrio, SendAndWaitTask, Enter, NewCall, CallProgress, CallTypeOK, CallIds
<1>2. UNCHANGED <<events, maps, rcv, fromBoard, running>>
  BY DEF SetTaskPrio, SendAndWaitTask, boardVars
<1>3. CASE pc' = "task" /\ UNCHANGED returned
  <2>1. toBoard'[p] \in {<<>>, <<request>>} /\ \A q \in Procs \ {p} : toBoard'[q] = <<>>
    <3>1. Append(<<>>, request) = <<request>>
      OBVIOUS
    <3>2. \A q \in Procs : toBoard[q] = <<>>
      BY <1>1 DEF Idle, Quiet, NothingSent
    <3>3. QED
      BY <3>1, <3>2 DEF SetTaskPrio, SendAndWaitTask, SendMsg, BoardTypeOK
  <2>2. Unanswered(p, "prio")'
    BY <1>1, <1>2, <2>1 DEF Unanswered, Idle, Quiet, NothingSent, NothingKept, events, maps
  <2>3. \A q \in Procs \ {p} : Quiet(q)'
    BY <1>1, <1>2, <2>1 DEF Idle, Quiet, NothingSent, NothingKept, maps
  <2>4. Own'
    BY <1>3 DEF Own, Succeeded
  <2>5. QED
    BY <1>1, <1>3, <2>2, <2>3, <2>4 DEF CallProgress, WaitingTask
<1>4. CASE UNCHANGED toBoard /\ Return(NewCall(p, "prio"), TESTCASE_FAIL, 0, RSP1_OK)
  <2>1. pc' = "idle" /\ Idle'
    BY <1>1, <1>2, <1>4 DEF Return, Idle, Quiet, NothingSent, NothingKept, events, maps
  <2>2. Own'
    BY <1>4, OwnReturn DEF NewCall
  <2>3. QED
    BY <2>1, <2>2 DEF CallProgress
<1>5. QED
  BY <1>3, <1>4, Distinct DEF SetTaskPrio, SendAndWaitTask, SendMsg

(* A restart and a timeout do not settle. *)
LEMMA RestartStep == ASSUME NEW p \in Procs, RestartExecuteTask(p) PROVE ~AllSettled'
<1>1. Return(NewCall(p, "restart"), TESTCASE_FAIL, 0, RSP1_OK)
  BY Distinct DEF RestartExecuteTask, SendAndWaitTask
<1>2. QED
  BY <1>1, Unsettled DEF NewCall

(* A wait that times out returns the code of its stage. *)
LEMMA TimeoutStep ==
    ASSUME CallKinds, Rsp1Timeout \/ Rsp2Timeout \/ TaskTimeout PROVE ~AllSettled'
<1> USE DEF TESTCASE_SUCCESS, TESTCASE_FAIL, ECMD_RSP1_TIMEOUT_ERROR, ECMD_RSP1_NO_SYMBOL_ERROR,
            ECMD_RSP2_TIMEOUT_ERROR, ECMD_CTRL_RSP_TIMEOUT_ERROR, ECMD_TASK_BUSY
<1>1. CASE Rsp1Timeout
  BY <1>1, Unsettled DEF Rsp1Timeout, CallKinds
<1>2. CASE Rsp2Timeout
  BY <1>2, Unsettled DEF Rsp2Timeout, CallKinds
<1>3. CASE TaskTimeout
  BY <1>3, Unsettled DEF TaskTimeout, CallKinds
<1>4. QED
  BY <1>1, <1>2, <1>3

(* The waits that end by their event. *)
LEMMA TakeRsp1Step == ASSUME Before, TakeRsp1 PROVE CallProgress' /\ Own'
<1> USE DEF Before, TypeOK
<1>1. pc = "rsp1" /\ Rsp1Stored(cur.proc) /\ cur.proc \in Procs
  BY DEF TakeRsp1, CallProgress, WaitingRsp1, Unanswered, Rsp1InStream, CallTypeOK
<1>2. m_NameRsp1Map[cur.proc] # NoAnswer
  BY <1>1, Constants DEF Rsp1Stored, IsRsp1
<1>3. /\ pc' = "erase1" /\ rsp1Local' = m_NameRsp1Map[cur.proc].result /\ retVal' = cur.id
      /\ m_hRsp1Event' = FALSE
      /\ UNCHANGED <<returned, cur, m_hTaskRspEvent, m_hRsp2Event, maps, rcv, toBoard, fromBoard, running>>
  BY <1>1, <1>2 DEF TakeRsp1, Rsp1Stored, IsRsp1, boardVars
<1>4. ErasingRsp1'
  BY <1>1, <1>3 DEF TakeRsp1, Rsp1Stored, ErasingRsp1, IsRsp1, IsRsp2, Rsp2Anywhere, maps
<1>5. \A q \in Procs \ {cur'.proc} : Quiet(q)'
  BY <1>1, <1>3 DEF CallProgress, Quiet, NothingSent, NothingKept, maps
<1>6. QED
  BY <1>1, <1>3, <1>4, <1>5 DEF CallProgress, Own, Succeeded

(* Taking the second answer. *)
LEMMA TakeRsp2Step == ASSUME Before, TakeRsp2 PROVE CallProgress' /\ Own'
<1> USE DEF Before, TypeOK
<1>1. pc = "rsp2" /\ WaitingRsp2 /\ cur.proc \in Procs /\ m_hRsp2Event
  BY DEF TakeRsp2, CallProgress, CallTypeOK
<1>2. /\ IsRsp2(m_NameRsp2Map[cur.proc]) /\ NothingSent(cur.proc) /\ rcv = "select"
  BY <1>1 DEF WaitingRsp2, Rsp2Anywhere, NothingSent
<1>3. /\ pc' = "erase2" /\ retVal' = cur.id /\ m_hRsp2Event' = FALSE
      /\ UNCHANGED <<returned, cur, m_hTaskRspEvent, m_hRsp1Event, maps, rcv, toBoard, fromBoard, running>>
  BY <1>1, <1>2, Constants DEF TakeRsp2, IsRsp2, boardVars
<1>4. ErasingRsp2'
  BY <1>1, <1>2, <1>3 DEF WaitingRsp2, ErasingRsp2, IsRsp2, NothingSent, maps
<1>5. \A q \in Procs \ {cur'.proc} : Quiet(q)'
  BY <1>1, <1>3 DEF CallProgress, Quiet, NothingSent, NothingKept, maps
<1>6. QED
  BY <1>1, <1>3, <1>4, <1>5 DEF CallProgress, Own, Succeeded

(* Taking the answer of a task request. *)
LEMMA TakeTaskStep == ASSUME Before, TakeTask PROVE CallProgress' /\ Own'
<1> USE DEF Before, TypeOK
<1>1. /\ pc = "task" /\ cur.op = "prio" /\ cur.proc \in Procs
      /\ rcv = "select" /\ ~m_hRsp1Event /\ ~m_hRsp2Event /\ Quiet(cur.proc)
  BY DEF TakeTask, CallProgress, CallKinds, CallTypeOK, WaitingTask, Unanswered, Quiet, NothingSent
<1>2. /\ pc' = "idle" /\ m_hTaskRspEvent' = FALSE /\ Return(cur, TESTCASE_SUCCESS, 0, rsp1Local)
      /\ UNCHANGED <<m_hRsp1Event, m_hRsp2Event, maps, rcv, toBoard, fromBoard, running>>
  BY DEF TakeTask, Return, boardVars
<1>3. Idle'
  BY <1>1, <1>2 DEF CallProgress, Idle, Quiet, NothingSent, NothingKept, maps
<1>4. Own'
  BY <1>1, <1>2, OwnReturn
<1>5. QED
  BY <1>2, <1>3, <1>4 DEF CallProgress

(* After the RSP1 is erased nothing is left of a refused command, and an    *)
(* accepted one has only its RSP2 to come.                                  *)
LEMMA EraseRsp1Step == ASSUME Before, EraseRsp1 PROVE CallProgress' /\ Own'
<1> USE DEF Before, TypeOK
<1>1. /\ pc = "erase1" /\ ErasingRsp1 /\ cur.proc \in Procs
      /\ \A q \in Procs \ {cur.proc} : Quiet(q)
  BY DEF EraseRsp1, CallProgress, CallTypeOK
<1>2. /\ m_NameRsp1Map'[cur.proc] = NoAnswer
      /\ \A q \in Procs \ {cur.proc} : m_NameRsp1Map'[q] = m_NameRsp1Map[q]
      /\ UNCHANGED <<cur, rsp1Local, retVal, events, m_NameRsp2Map, rcv, toBoard, fromBoard, running>>
  BY <1>1 DEF EraseRsp1, ReceiveTypeOK, boardVars
<1>3. \A q \in Procs \ {cur.proc} : Quiet(q)'
  BY <1>1, <1>2 DEF Quiet, NothingSent, NothingKept
<1>4. CASE rsp1Local # RSP1_OK /\ pc' = "idle"
  <2>1. NothingSent(cur.proc) /\ m_NameRsp2Map[cur.proc] = NoAnswer /\ rcv = "select" /\ ~m_hRsp2Event
    BY <1>1, <1>4 DEF ErasingRsp1, Rsp2Anywhere, NothingSent, ReceiveTypeOK
  <2>2. Idle'
    BY <1>1, <1>2, <1>3, <2>1 DEF ErasingRsp1, Idle, Quiet, NothingSent, NothingKept, events
  <2>3. \E code \in {ECMD_RSP1_NO_SYMBOL_ERROR, ECMD_TASK_BUSY} : Return(cur, code, 0, rsp1Local)
    BY <1>4, <1>1 DEF EraseRsp1
  <2>4. Own'
    BY <2>3, OwnReturn DEF ECMD_RSP1_NO_SYMBOL_ERROR, ECMD_TASK_BUSY, TESTCASE_SUCCESS
  <2>5. QED
    BY <1>4, <2>2, <2>4 DEF CallProgress
<1>5. CASE pc' = "rsp2" /\ UNCHANGED returned
  <2>1. Rsp2Anywhere(cur.proc, TRUE)
    BY <1>1 DEF ErasingRsp1, Rsp2Anywhere
  <2>2. WaitingRsp2'
    BY <1>1, <1>2, <2>1 DEF ErasingRsp1, WaitingRsp2, Rsp2Anywhere, IsRsp2, events
  <2>3. Own'
    BY <1>5 DEF Own, Succeeded
  <2>4. QED
    BY <1>1, <1>2, <1>3, <1>5, <2>2, <2>3 DEF CallProgress
<1>6. QED
  BY <1>1, <1>4, <1>5, Distinct DEF EraseRsp1, Return

(* A success leaves nothing behind and returns the answer to the call. *)
LEMMA EraseRsp2Step == ASSUME Before, EraseRsp2 PROVE CallProgress' /\ Own'
<1> USE DEF Before, TypeOK
<1>1. /\ pc = "erase2" /\ ErasingRsp2 /\ cur.proc \in Procs
      /\ \A q \in Procs \ {cur.proc} : Quiet(q)
  BY DEF EraseRsp2, CallProgress, CallTypeOK
<1>2. /\ pc' = "idle" /\ Return(cur, TESTCASE_SUCCESS, retVal, rsp1Local)
      /\ m_NameRsp2Map'[cur.proc] = NoAnswer
      /\ \A q \in Procs \ {cur.proc} : m_NameRsp2Map'[q] = m_NameRsp2Map[q]
      /\ UNCHANGED <<events, m_NameRsp1Map, rcv, toBoard, fromBoard, running>>
  BY <1>1 DEF EraseRsp2, Return, ReceiveTypeOK, boardVars
<1>3. Idle'
  BY <1>1, <1>2 DEF ErasingRsp2, Idle, Quiet, NothingSent, NothingKept, events
<1>4. Own'
  BY <1>1, <1>2, OwnReturn DEF ErasingRsp2
<1>5. QED
  BY <1>2, <1>3, <1>4 DEF CallProgress

(* The receive thread only ever finds an answer to the current call. *)
LEMMA DealMsgStep == ASSUME Before, NEW p \in Procs, DealMsg(p) PROVE CallProgress' /\ Own'
<1> USE DEF Before, TypeOK
<1>1. /\ p = cur.proc /\ pc # "idle" /\ rcv = "select"
      /\ \A q \in Procs \ {p} : Quiet(q)
  BY DEF DealMsg, CallProgress, Idle, Quiet, NothingSent
<1>2. UNCHANGED <<pc, cur, rsp1Local, retVal, returned, m_hRsp1Event, m_hRsp2Event, toBoard, running>>
  BY DEF DealMsg, apiVars, boardVars
<1>3. fromBoard'[p] = Tail(fromBoard[p]) /\ \A q \in Procs \ {p} : fromBoard'[q] = fromBoard[q]
  BY DEF DealMsg, BoardTypeOK
<1>4. ASSUME NEW m \in Answer, IsRsp1(m), Head(fromBoard[p]) = m
      PROVE  /\ m_NameRsp1Map'[p] = m /\ \A q \in Procs \ {p} : m_NameRsp1Map'[q] = m_NameRsp1Map[q]
             /\ rcv' = "stored1" /\ UNCHANGED <<m_hTaskRspEvent, m_NameRsp2Map>>
  BY <1>4, Distinct DEF DealMsg, IsRsp1, Rsp1Sizes, ReceiveTypeOK
<1>5. ASSUME NEW m \in Answer, IsRsp2(m), Head(fromBoard[p]) = m
      PROVE  /\ m_NameRsp2Map'[p] = m /\ \A q \in Procs \ {p} : m_NameRsp2Map'[q] = m_NameRsp2Map[q]
             /\ rcv' = "stored2" /\ UNCHANGED <<m_hTaskRspEvent, m_NameRsp1Map>>
  BY <1>5, Distinct DEF DealMsg, IsRsp2, Rsp1Sizes, ReceiveTypeOK
<1>6. Own'
  BY <1>2 DEF Own, Succeeded
<1>7. CASE pc = "task"
  <2>1. PICK m \in Answer : IsTask(m) /\ fromBoard[p] = <<m>>
    BY <1>1, <1>7 DEF DealMsg, CallProgress, WaitingTask, Unanswered
  <2>2. Head(fromBoard[p]) = m /\ Tail(fromBoard[p]) = <<>>
    BY <2>1, ShortStreams
  <2>3. m_hTaskRspEvent' /\ UNCHANGED <<maps, rcv>>
    BY <2>1, <2>2, Distinct DEF DealMsg, IsTask, Rsp1Sizes
  <2>4. WaitingTask'
    BY <1>1, <1>2, <1>3, <1>7, <2>1, <2>2, <2>3 DEF CallProgress, WaitingTask, Unanswered, NothingKept, maps
  <2>5. QED
    BY <1>1, <1>2, <1>3, <1>6, <1>7, <2>3, <2>4 DEF CallProgress, Quiet, NothingSent, NothingKept, maps
<1>8. CASE pc = "rsp1" /\ Rsp1InStream(p)
  <2>1. PICK m \in Answer, n \in Answer :
          /\ IsRsp1(m) /\ IsRsp2(n)
          /\ \/ fromBoard[p] = <<m>> /\ running[p] \in {0, cur.id}
             \/ fromBoard[p] = <<m, n>> /\ running[p] = 0
          /\ m.result # RSP1_OK => fromBoard[p] = <<m>> /\ running[p] = 0
    BY <1>8 DEF Rsp1InStream
  <2>2. /\ Head(fromBoard[p]) = m
        /\ fromBoard[p] = <<m>> => fromBoard'[p] = <<>>
        /\ fromBoard[p] = <<m, n>> => fromBoard'[p] = <<n>>
        /\ <<n>> # <<>> /\ <<m>> # <<m, n>>
    <3>1. Head(<<m>>) = m /\ Tail(<<m>>) = <<>> /\ Head(<<m, n>>) = m /\ Tail(<<m, n>>) = <<n>> /\ <<n>> # <<>>
      BY ShortStreams
    <3>2. <<m>> # <<m, n>>
      BY <3>1
    <3>3. QED
      BY <1>3, <2>1, <3>1, <3>2
  <2>3. /\ m_NameRsp1Map'[p] = m /\ \A q \in Procs \ {p} : m_NameRsp1Map'[q] = m_NameRsp1Map[q]
        /\ rcv' = "stored1" /\ UNCHANGED <<m_hTaskRspEvent, m_NameRsp2Map>>
    BY <1>4, <2>1, <2>2
  <2>4. IsRsp1(m)' /\ IsRsp2(n)'
    BY <1>2, <2>1 DEF IsRsp1, IsRsp2
  <2>5. Rsp2Anywhere(p, m_NameRsp1Map[p].result = RSP1_OK)'
    BY <1>2, <1>8, <2>1, <2>2, <2>3, <2>4 DEF Rsp1InStream, Rsp2Anywhere, NothingKept
  <2>6. Rsp1Stored(p)'
    BY <1>2, <1>8, <2>3, <2>4, <2>5 DEF Rsp1InStream, Rsp1Stored
  <2>7. \A q \in Procs \ {p} : Quiet(q)'
    BY <1>1, <1>2, <1>3, <2>3 DEF Quiet, NothingSent, NothingKept
  <2>8. QED
    BY <1>1, <1>2, <1>6, <1>8, <2>6, <2>7 DEF CallProgress, WaitingRsp1
<1>9. ASSUME NEW accepted, Rsp2Anywhere(p, accepted)
      PROVE  /\ Rsp2Anywhere(p, accepted)' /\ rcv' = "stored2" /\ UNCHANGED <<m_hTaskRspEvent, m_NameRsp1Map>>
             /\ \A q \in Procs \ {p} : Quiet(q)'
  <2>1. PICK n \in Answer : IsRsp2(n) /\ fromBoard[p] = <<n>> /\ accepted /\ running[p] = 0 /\ toBoard[p] = <<>>
                            /\ ~m_hRsp2Event
    BY <1>9 DEF DealMsg, Rsp2Anywhere
  <2>2. Head(fromBoard[p]) = n /\ fromBoard'[p] = <<>>
    BY <1>3, <2>1, ShortStreams
  <2>3. /\ m_NameRsp2Map'[p] = n /\ \A q \in Procs \ {p} : m_NameRsp2Map'[q] = m_NameRsp2Map[q]
        /\ rcv' = "stored2" /\ UNCHANGED <<m_hTaskRspEvent, m_NameRsp1Map>>
    BY <1>5, <2>1, <2>2
  <2>4. IsRsp2(n)'
    BY <1>2, <2>1 DEF IsRsp2
  <2>5. QED
    BY <1>1, <1>2, <1>3, <2>1, <2>2, <2>3, <2>4 DEF Rsp2Anywhere, Quiet, NothingSent, NothingKept
<1>10. CASE pc = "rsp1" /\ Rsp1Stored(p)
  <2>1. /\ Rsp2Anywhere(p, m_NameRsp1Map[p].result = RSP1_OK)' /\ rcv' = "stored2"
        /\ UNCHANGED <<m_hTaskRspEvent, m_NameRsp1Map>> /\ \A q \in Procs \ {p} : Quiet(q)'
    BY <1>9, <1>10 DEF Rsp1Stored
  <2>2. Rsp1Stored(p)'
    BY <1>1, <1>2, <1>10, <2>1 DEF Rsp1Stored, IsRsp1
  <2>3. QED
    BY <1>1, <1>2, <1>6, <1>10, <2>1, <2>2 DEF CallProgress, WaitingRsp1
<1>11. CASE pc = "erase1"
  <2>1. /\ Rsp2Anywhere(p, rsp1Local = RSP1_OK)' /\ rcv' = "stored2"
        /\ UNCHANGED <<m_hTaskRspEvent, m_NameRsp1Map>> /\ \A q \in Procs \ {p} : Quiet(q)'
    BY <1>1, <1>2, <1>9, <1>11 DEF CallProgress, ErasingRsp1
  <2>2. ErasingRsp1'
    BY <1>1, <1>2, <1>11, <2>1 DEF CallProgress, ErasingRsp1, IsRsp1
  <2>3. QED
    BY <1>1, <1>2, <1>6, <1>11, <2>1, <2>2 DEF CallProgress
<1>12. CASE pc = "rsp2"
  <2>1. /\ Rsp2Anywhere(p, TRUE)' /\ rcv' = "stored2"
        /\ UNCHANGED <<m_hTaskRspEvent, m_NameRsp1Map>> /\ \A q \in Procs \ {p} : Quiet(q)'
    BY <1>1, <1>2, <1>9, <1>12 DEF CallProgress, WaitingRsp2
  <2>2. WaitingRsp2'
    BY <1>1, <1>2, <1>12, <2>1 DEF CallProgress, WaitingRsp2
  <2>3. QED
    BY <1>1, <1>2, <1>6, <1>12, <2>1, <2>2 DEF CallProgress
<1>13. QED
  <2>1. pc # "erase2" /\ ~(pc = "rsp1" /\ Unanswered(p, "exec"))
    BY <1>1 DEF DealMsg, CallProgress, ErasingRsp2, NothingSent, Unanswered
  <2>2. QED
    BY <1>1, <1>7, <1>8, <1>10, <1>11, <1>12, <2>1 DEF CallProgress, WaitingRsp1, CallTypeOK

(* SetEvent after the store: the event and the entry now agree. *)
LEMMA SetEventStep == ASSUME Before, SetRsp1Event \/ SetRsp2Event PROVE CallProgress' /\ Own'
<1> USE DEF Before, TypeOK
<1>1. UNCHANGED <<pc, cur, rsp1Local, retVal, returned, m_hTaskRspEvent, maps, toBoard, fromBoard, running>>
  BY DEF SetRsp1Event, SetRsp2Event, apiVars, boardVars
<1>2. Own' /\ \A q \in Procs \ {cur'.proc} : Quiet(q) => Quiet(q)'
  BY <1>1 DEF Own, Succeeded, Quiet, NothingSent, NothingKept, maps
<1>3. CASE SetRsp1Event
  <2>1. pc = "rsp1" /\ Rsp1Stored(cur.proc)
    BY <1>3 DEF SetRsp1Event, CallProgress, CallTypeOK, Idle, WaitingRsp1, Unanswered, Rsp1InStream, ErasingRsp1,
         WaitingRsp2, ErasingRsp2, WaitingTask
  <2>2. m_hRsp1Event' /\ rcv' = "select" /\ UNCHANGED m_hRsp2Event
    BY <1>3 DEF SetRsp1Event
  <2>3. Rsp1Stored(cur.proc)'
    BY <1>1, <1>3, <2>1, <2>2 DEF SetRsp1Event, Rsp1Stored, Rsp2Anywhere, IsRsp1, IsRsp2, maps
  <2>4. QED
    BY <1>1, <1>2, <2>1, <2>3 DEF CallProgress, WaitingRsp1
<1>4. CASE SetRsp2Event
  <2>1. m_hRsp2Event' /\ rcv = "stored2" /\ rcv' = "select" /\ UNCHANGED m_hRsp1Event
    BY <1>4 DEF SetRsp2Event
  <2>2. ASSUME NEW accepted, Rsp2Anywhere(cur.proc, accepted) PROVE Rsp2Anywhere(cur.proc, accepted)'
    BY <1>1, <2>1, <2>2 DEF Rsp2Anywhere, IsRsp2, maps
  <2>3. CASE pc = "rsp1"
    <3>1. Rsp1Stored(cur.proc)
      BY <2>1, <2>3 DEF CallProgress, WaitingRsp1, Unanswered, Rsp1InStream
    <3>2. Rsp1Stored(cur.proc)'
      BY <1>1, <2>1, <2>2, <3>1 DEF Rsp1Stored, IsRsp1, maps
    <3>3. QED
      BY <1>1, <1>2, <2>3, <3>2 DEF CallProgress, WaitingRsp1
  <2>4. CASE pc = "erase1"
    <3>1. ErasingRsp1'
      BY <1>1, <2>1, <2>2, <2>4 DEF CallProgress, ErasingRsp1, IsRsp1, maps
    <3>2. QED
      BY <1>1, <1>2, <2>4, <3>1 DEF CallProgress
  <2>5. CASE pc = "rsp2"
    <3>1. WaitingRsp2'
      BY <1>1, <2>1, <2>2, <2>5 DEF CallProgress, WaitingRsp2, maps
    <3>2. QED
      BY <1>1, <1>2, <2>5, <3>1 DEF CallProgress
  <2>6. QED
    BY <2>1, <2>3, <2>4, <2>5 DEF CallProgress, CallTypeOK, Idle, ErasingRsp2, WaitingTask, Unanswered
<1>5. QED
  BY <1>3, <1>4

(* A board acts only on the current call: nobody else has sent it anything. *)
LEMMA BoardExecuteStep == ASSUME Before, NEW p \in Procs, BoardExecute(p) PROVE CallProgress' /\ Own'
<1> USE DEF Before, TypeOK
<1>1. p = cur.proc /\ pc = "rsp1" /\ Unanswered(p, "exec") /\ \A q \in Procs \ {p} : Quiet(q)
  <2>1. pc # "idle" /\ p = cur.proc
    BY DEF BoardExecute, NextRequest, CallProgress, Idle, Quiet, NothingSent
  <2>2. toBoard[p] # <<>> /\ Head(toBoard[p]).op = "exec"
    BY DEF BoardExecute, NextRequest
  <2>3. ~(pc = "task" /\ Unanswered(p, "prio"))
    BY <2>2 DEF Unanswered
  <2>4. QED
    BY <2>1, <2>2, <2>3 DEF CallProgress, CallTypeOK, WaitingRsp1, Rsp1InStream, Rsp1Stored, Rsp2Anywhere, ErasingRsp1,
         WaitingRsp2, ErasingRsp2, NothingSent, WaitingTask
<1>2. UNCHANGED <<pc, cur, rsp1Local, retVal, returned, events, maps, rcv>>
  BY DEF BoardExecute, apiVars
<1>3. toBoard[p] = <<[id |-> cur.id, op |-> "exec"]>> /\ toBoard'[p] = <<>>
      /\ \A q \in Procs \ {p} : toBoard'[q] = toBoard[q]
  <2> DEFINE request == [id |-> cur.id, op |-> "exec"]
  <2>1. toBoard[p] = <<request>>
    BY <1>1 DEF BoardExecute, NextRequest, Unanswered
  <2>2. Tail(<<request>>) = <<>>
    OBVIOUS
  <2>3. toBoard' = [toBoard EXCEPT ![p] = Tail(@)]
    BY DEF BoardExecute, NextRequest
  <2> HIDE DEF request
  <2>4. toBoard'[p] = <<>> /\ \A q \in Procs \ {p} : toBoard'[q] = toBoard[q]
    BY <2>1, <2>2, <2>3 DEF BoardTypeOK
  <2>5. QED
    BY <2>1, <2>4 DEF request
<1>4. PICK result \in Rsp1Results :
        /\ Reply(p, cur.id, Rsp1Size(p), result)
        /\ running' = IF result = RSP1_OK THEN [running EXCEPT ![p] = cur.id] ELSE running
  <2>1. Head(toBoard[p]).id = cur.id
    BY <1>3
  <2>2. QED
    BY <2>1 DEF BoardExecute
<1>m. PICK m \in Answer : m = [id |-> cur.id, size |-> Rsp1Size(p), result |-> result]
  BY <1>1, Constants DEF Answer, CallProgress
<1>n. PICK n \in Answer : n = [id |-> cur.id, size |-> RSP2_SIZE, result |-> RSP1_OK]
  BY <1>1, Constants DEF Answer, AnswerSizes, CallProgress
<1>5. IsRsp1(m)' /\ IsRsp2(n)' /\ m.result = result
  BY <1>m, <1>n, <1>2, Distinct DEF IsRsp1, IsRsp2
<1>6. fromBoard'[p] = <<m>> /\ \A q \in Procs \ {p} : fromBoard'[q] = fromBoard[q]
  <2>1. Append(<<>>, m) = <<m>>
    OBVIOUS
  <2>2. QED
    BY <1>1, <1>4, <1>m, <2>1 DEF Reply, Unanswered, BoardTypeOK
<1>7. /\ running'[p] \in {0, cur.id} /\ (result # RSP1_OK => running'[p] = 0)
      /\ \A q \in Procs \ {p} : running'[q] = running[q]
  BY <1>1, <1>4 DEF Unanswered, BoardTypeOK
<1>8. Rsp1InStream(p)'
  <2>1. /\ rcv' = "select" /\ ~m_hTaskRspEvent' /\ ~m_hRsp1Event' /\ ~m_hRsp2Event'
        /\ toBoard'[p] = <<>> /\ NothingKept(p)'
    BY <1>1, <1>2, <1>3 DEF Unanswered, NothingKept, events, maps
  <2>2. /\ IsRsp1(m)' /\ IsRsp2(n)' /\ fromBoard'[p] = <<m>> /\ running'[p] \in {0, cur'.id}
        /\ m.result # RSP1_OK => fromBoard'[p] = <<m>> /\ running'[p] = 0
    BY <1>2, <1>5, <1>6, <1>7
  <2>3. QED
    BY <1>5, <2>1, <2>2 DEF Rsp1InStream
<1>9. \A q \in Procs \ {p} : Quiet(q)'
  BY <1>1, <1>2, <1>3, <1>6, <1>7 DEF Quiet, NothingSent, NothingKept, maps
<1>10. QED
  BY <1>1, <1>2, <1>8, <1>9 DEF CallProgress, WaitingRsp1, Own, Succeeded

(* A board handles a priority request. *)
LEMMA BoardSetPrioStep == ASSUME Before, NEW p \in Procs, BoardSetPrio(p) PROVE CallProgress' /\ Own'
<1> USE DEF Before, TypeOK
<1>1. p = cur.proc /\ pc = "task" /\ Unanswered(p, "prio") /\ \A q \in Procs \ {p} : Quiet(q)
  <2>1. pc # "idle" /\ p = cur.proc
    BY DEF BoardSetPrio, NextRequest, CallProgress, Idle, Quiet, NothingSent
  <2>2. toBoard[p] # <<>> /\ Head(toBoard[p]).op = "prio"
    BY DEF BoardSetPrio, NextRequest
  <2>3. ~(pc = "rsp1" /\ Unanswered(p, "exec"))
    BY <2>2 DEF Unanswered
  <2>4. QED
    BY <2>1, <2>2, <2>3 DEF CallProgress, CallTypeOK, WaitingRsp1, Rsp1InStream, Rsp1Stored, Rsp2Anywhere, ErasingRsp1,
         WaitingRsp2, ErasingRsp2, NothingSent, WaitingTask
<1>2. UNCHANGED <<pc, cur, rsp1Local, retVal, returned, events, maps, rcv, running>>
  BY DEF BoardSetPrio, apiVars, boardVars
<1>m. PICK m \in Answer : m = [id |-> cur.id, size |-> TASK_RSP_SIZE, result |-> RSP1_OK]
  BY <1>1, Constants DEF Answer, AnswerSizes, CallProgress
<1>3. /\ toBoard[p] = <<[id |-> cur.id, op |-> "prio"]>> /\ toBoard'[p] = <<>>
      /\ \A q \in Procs \ {p} : toBoard'[q] = toBoard[q]
  <2> DEFINE request == [id |-> cur.id, op |-> "prio"]
  <2>1. toBoard[p] = <<request>>
    BY <1>1 DEF BoardSetPrio, NextRequest, Unanswered
  <2>2. Tail(<<request>>) = <<>>
    OBVIOUS
  <2>3. toBoard' = [toBoard EXCEPT ![p] = Tail(@)]
    BY DEF BoardSetPrio, NextRequest
  <2> HIDE DEF request
  <2>4. toBoard'[p] = <<>> /\ \A q \in Procs \ {p} : toBoard'[q] = toBoard[q]
    BY <2>1, <2>2, <2>3 DEF BoardTypeOK
  <2>5. QED
    BY <2>1, <2>4 DEF request
<1>4. fromBoard'[p] = <<m>> /\ \A q \in Procs \ {p} : fromBoard'[q] = fromBoard[q]
  <2>1. Append(<<>>, m) = <<m>>
    OBVIOUS
  <2>2. QED
    BY <1>1, <1>3, <1>m, <2>1 DEF BoardSetPrio, Reply, Unanswered, BoardTypeOK
<1>5. IsTask(m)'
  BY <1>m, <1>2 DEF IsTask
<1>6. WaitingTask'
  <2>1. /\ rcv' = "select" /\ ~m_hTaskRspEvent' /\ ~m_hRsp1Event' /\ ~m_hRsp2Event'
        /\ toBoard'[p] = <<>> /\ NothingKept(p)' /\ running'[p] = 0
    BY <1>1, <1>2, <1>3 DEF Unanswered, NothingKept, events, maps
  <2>2. QED
    BY <1>1, <1>2, <1>4, <1>5, <2>1 DEF WaitingTask
<1>7. \A q \in Procs \ {p} : Quiet(q)'
  BY <1>1, <1>2, <1>3, <1>4 DEF Quiet, NothingSent, NothingKept, maps
<1>8. QED
  BY <1>1, <1>2, <1>6, <1>7 DEF CallProgress, Own, Succeeded

(* No restart request is on its way: the call that sent it never settles. *)
LEMMA BoardRestartStep == ASSUME Before, NEW p \in Procs, BoardRestart(p) PROVE FALSE
<1> USE DEF Before, TypeOK
<1>1. pc # "idle" /\ p = cur.proc
  BY DEF BoardRestart, NextRequest, CallProgress, Idle, Quiet, NothingSent
<1>2. toBoard[p] # <<>> /\ Head(toBoard[p]).op = "restart"
  BY DEF BoardRestart, NextRequest
<1>3. ~Unanswered(p, "exec") /\ ~Unanswered(p, "prio")
  BY <1>2 DEF Unanswered
<1>4. QED
  BY <1>1, <1>2, <1>3 DEF CallProgress, CallTypeOK, WaitingRsp1, Rsp1InStream, Rsp1Stored, Rsp2Anywhere, ErasingRsp1,
       WaitingRsp2, ErasingRsp2, NothingSent, WaitingTask

(* A board finishes the command it runs. *)
LEMMA BoardFinishStep == ASSUME Before, NEW p \in Procs, BoardFinish(p) PROVE CallProgress' /\ Own'
<1> USE DEF Before, TypeOK
<1>1. p = cur.proc /\ pc \in {"rsp1", "erase1", "rsp2"} /\ \A q \in Procs \ {p} : Quiet(q)
  BY DEF BoardFinish, CallProgress, CallTypeOK, Idle, Quiet, NothingSent, WaitingTask, Unanswered, ErasingRsp2
<1>2. UNCHANGED <<pc, cur, rsp1Local, retVal, returned, events, maps, rcv, toBoard>>
  BY DEF BoardFinish, apiVars
<1>3. running'[p] = 0 /\ \A q \in Procs \ {p} : running'[q] = running[q]
  BY DEF BoardFinish, BoardTypeOK
<1>4. \A q \in Procs \ {p} : fromBoard'[q] = fromBoard[q]
  BY DEF BoardFinish, Reply, BoardTypeOK
<1>5. \A q \in Procs \ {p} : Quiet(q)'
  BY <1>1, <1>2, <1>3, <1>4 DEF Quiet, NothingSent, NothingKept, maps
<1>6. Own'
  BY <1>2 DEF Own, Succeeded
<1>n. PICK n \in Answer : n = [id |-> cur.id, size |-> RSP2_SIZE, result |-> RSP1_OK]
  BY <1>1, Constants DEF Answer, AnswerSizes, CallProgress
<1>7. IsRsp2(n)'
  BY <1>n, <1>2 DEF IsRsp2
<1>8. running[p] = cur.id => fromBoard'[p] = Append(fromBoard[p], n)
  BY <1>n DEF BoardFinish, Reply, BoardTypeOK
<1>9. CASE pc = "rsp1" /\ Rsp1InStream(p)
  <2>1. PICK m \in Answer : /\ IsRsp1(m) /\ fromBoard[p] = <<m>> /\ running[p] = cur.id /\ m.result = RSP1_OK
    BY <1>9 DEF BoardFinish, Rsp1InStream
  <2>2. fromBoard'[p] = <<m, n>>
    BY <1>8, <2>1, ShortStreams
  <2>3. IsRsp1(m)'
    BY <1>2, <2>1 DEF IsRsp1
  <2>4. Rsp1InStream(p)'
    <3>1. /\ rcv' = "select" /\ ~m_hTaskRspEvent' /\ ~m_hRsp1Event' /\ ~m_hRsp2Event'
          /\ toBoard'[p] = <<>> /\ NothingKept(p)'
      BY <1>2, <1>9 DEF Rsp1InStream, NothingKept, events, maps
    <3>2. QED
      BY <1>3, <1>7, <2>1, <2>2, <2>3, <3>1 DEF Rsp1InStream
  <2>5. QED
    BY <1>1, <1>2, <1>5, <1>6, <1>9, <2>4 DEF CallProgress, WaitingRsp1
<1>10. ASSUME NEW accepted, Rsp2Anywhere(p, accepted) PROVE Rsp2Anywhere(p, accepted)'
  <2>1. /\ fromBoard[p] = <<>> /\ running[p] = cur.id /\ accepted /\ toBoard[p] = <<>>
        /\ m_NameRsp2Map[p] = NoAnswer /\ ~m_hRsp2Event /\ rcv # "stored2"
    BY <1>10 DEF BoardFinish, Rsp2Anywhere
  <2>2. fromBoard'[p] = <<n>>
    BY <1>8, <2>1, ShortStreams
  <2>3. QED
    BY <1>2, <1>3, <1>7, <2>1, <2>2 DEF Rsp2Anywhere, events, maps
<1>11. CASE pc = "rsp1" /\ Rsp1Stored(p)
  <2>1. Rsp1Stored(p)'
    BY <1>2, <1>10, <1>11 DEF Rsp1Stored, IsRsp1, events, maps
  <2>2. QED
    BY <1>1, <1>2, <1>5, <1>6, <1>11, <2>1 DEF CallProgress, WaitingRsp1
<1>12. CASE pc = "erase1"
  <2>1. ErasingRsp1'
    BY <1>1, <1>2, <1>10, <1>12 DEF CallProgress, ErasingRsp1, IsRsp1, events, maps
  <2>2. QED
    BY <1>1, <1>2, <1>5, <1>6, <1>12, <2>1 DEF CallProgress
<1>13. CASE pc = "rsp2"
  <2>1. WaitingRsp2'
    BY <1>1, <1>2, <1>10, <1>13 DEF CallProgress, WaitingRsp2, events, maps
  <2>2. QED
    BY <1>1, <1>2, <1>5, <1>6, <1>13, <2>1 DEF CallProgress
<1>14. QED
  BY <1>1, <1>9, <1>11, <1>12, <1>13 DEF BoardFinish, CallProgress, WaitingRsp1, Unanswered

(* A reboot loses the request or the RSP2 to come, never brings an answer. *)
LEMMA BoardDownStep == ASSUME Before, NEW p \in Procs, BoardDown(p) PROVE CallProgress' /\ Own'
<1> USE DEF Before, TypeOK
<1>1. UNCHANGED <<pc, cur, rsp1Local, retVal, returned, events, maps, rcv, fromBoard>>
  BY DEF BoardDown, apiVars
<1>2. /\ toBoard'[p] = <<>> /\ running'[p] = 0
      /\ \A q \in Procs \ {p} : toBoard'[q] = toBoard[q] /\ running'[q] = running[q]
  BY DEF BoardDown, BoardTypeOK
<1>3. Own' /\ \A q \in Procs : Quiet(q) => Quiet(q)'
  BY <1>1, <1>2 DEF Own, Succeeded, Quiet, NothingSent, NothingKept, maps
<1>4. ASSUME NEW op, Unanswered(cur.proc, op) PROVE Unanswered(cur.proc, op)'
  BY <1>1, <1>2, <1>4 DEF Unanswered, NothingKept, events, maps, CallTypeOK
<1>5. ASSUME NEW accepted, Rsp2Anywhere(cur.proc, accepted) PROVE Rsp2Anywhere(cur.proc, accepted)'
  BY <1>1, <1>2, <1>5 DEF Rsp2Anywhere, IsRsp2, events, maps, CallTypeOK
<1>6. Rsp1InStream(cur.proc) => Rsp1InStream(cur.proc)'
  BY <1>1, <1>2 DEF Rsp1InStream, NothingKept, IsRsp1, IsRsp2, events, maps, CallTypeOK
<1>7. Rsp1Stored(cur.proc) => Rsp1Stored(cur.proc)'
  BY <1>1, <1>5 DEF Rsp1Stored, IsRsp1, events, maps
<1>8. /\ WaitingRsp1 => WaitingRsp1'
      /\ ErasingRsp1 => ErasingRsp1'
      /\ WaitingRsp2 => WaitingRsp2'
  BY <1>1, <1>4, <1>5, <1>6, <1>7 DEF WaitingRsp1, ErasingRsp1, WaitingRsp2, IsRsp1, events, maps
<1>9. ErasingRsp2 => ErasingRsp2'
  BY <1>1, <1>2 DEF ErasingRsp2, IsRsp2, NothingSent, events, maps, CallTypeOK
<1>10. WaitingTask => WaitingTask'
  BY <1>1, <1>2, <1>4 DEF WaitingTask, IsTask, NothingKept, events, maps, CallTypeOK
<1>11. Idle => Idle'
  BY <1>1, <1>3 DEF Idle, events
<1>12. QED
  BY <1>1, <1>3, <1>8, <1>9, <1>10, <1>11 DEF CallProgress

-----------------------------------------------------------------------------
(* Every step keeps a settled client's answers where it will look for them. *)
LEMMA InvStep == Inv /\ [Next]_vars => Inv'
<1> SUFFICES ASSUME Inv, [Next]_vars PROVE Inv'
  OBVIOUS
<1>1. TypeOK' /\ CallKinds'
  BY TypeStep, KindsStep DEF Inv
<1>2. ASSUME AllSettled' PROVE CallProgress' /\ Own'
  <2>1. Before
    BY <1>2, ReturnedGrows, SettledPast DEF Inv, IInv, Before
  <2>2. ASSUME NEW p \in Procs, ExcuteCmd(p) \/ SetTaskPrio(p) \/ RestartExecuteTask(p)
        PROVE  CallProgress' /\ Own'
    BY <1>2, <2>1, <2>2, ExcuteCmdStep, SetTaskPrioStep, RestartStep
  <2>3. CASE CallStep
    BY <1>2, <2>1, <2>3, TimeoutStep, TakeRsp1Step, TakeRsp2Step, TakeTaskStep, EraseRsp1Step, EraseRsp2Step
       DEF CallStep, Before
  <2>4. ASSUME NEW p \in Procs, DealMsg(p) \/ SetRsp1Event \/ SetRsp2Event PROVE CallProgress' /\ Own'
    BY <2>1, <2>4, DealMsgStep, SetEventStep
  <2>5. ASSUME NEW p \in Procs,
               BoardExecute(p) \/ BoardFinish(p) \/ BoardSetPrio(p) \/ BoardRestart(p) \/ BoardDown(p)
        PROVE  CallProgress' /\ Own'
    BY <2>1, <2>5, BoardExecuteStep, BoardFinishStep, BoardSetPrioStep, BoardRestartStep, BoardDownStep
  <2>6. CASE UNCHANGED vars
    BY <2>1, <2>6 DEF Before, vars, apiVars, events, maps, boardVars, CallProgress, Own, Succeeded, Idle, Quiet,
       NothingSent, NothingKept, WaitingRsp1, ErasingRsp1, WaitingRsp2, ErasingRsp2, WaitingTask, Unanswered,
       Rsp1InStream, Rsp1Stored, Rsp2Anywhere, IsRsp1, IsRsp2, IsTask
  <2>7. QED
    BY <2>2, <2>3, <2>4, <2>5, <2>6, UAgentCommandAssumption DEF Next
<1>3. QED
  BY <1>1, <1>2 DEF Inv, IInv

(* As long as every call has settled, a command that reports success        *)
(* returns the value its own board computed for it.                         *)
THEOREM OwnAnswer == Spec => []OwnAnswerWhileSettled
<1>1. Inv => OwnAnswerWhileSettled
  BY DEF Inv, IInv, Own, OwnAnswerWhileSettled
<1>2. QED
  BY <1>1, InvInit, InvStep, PTL DEF Spec

(* As long as every call before it has settled, a command that has seen its *)
(* event finds its entry: the "UnLogic" branches are not reached.           *)
THEOREM EventHasEntry == Spec => []EventHasEntryWhileSettled
<1>1. Inv => EventHasEntryWhileSettled
  <2> SUFFICES ASSUME Inv, AllSettled PROVE EventHasEntryWhileSettled
    BY DEF EventHasEntryWhileSettled
  <2>1. pc = "rsp1" /\ m_hRsp1Event => m_NameRsp1Map[cur.proc] # NoAnswer
    BY Constants DEF Inv, IInv, CallProgress, WaitingRsp1, Unanswered, Rsp1InStream, Rsp1Stored, IsRsp1
  <2>2. pc = "rsp2" /\ m_hRsp2Event => m_NameRsp2Map[cur.proc] # NoAnswer
    BY Constants DEF Inv, IInv, CallProgress, WaitingRsp2, Rsp2Anywhere, IsRsp2
  <2>3. QED
    BY <2>1, <2>2 DEF EventHasEntryWhileSettled
<1>2. QED
  BY <1>1, InvInit, InvStep, PTL DEF Spec

-----------------------------------------------------------------------------
(* The refinement of CommandService.  IInv says nothing once a call has     *)
(* been left open; what holds then is that the answers of a board move      *)
(* along one lane, each stage of it holding older requests than the next:   *)
(* given to the caller, taken by the test thread, kept in m_NameRsp2Map, in *)
(* the receive stream, executing, in the send stream.                       *)

(* What DealMsg stores in m_NameRsp2Map: all it does not know by its size.  *)
Rsp2Like == {m \in Answer : m.size \notin Rsp1Sizes \cup {TASK_RSP_SIZE}}

Below(S, T)  == \A s \in S, t \in T : s < t
IdsOf(q, S)  == {q[i].id : i \in {k \in 1 .. Len(q) : q[k] \in S}}
Rising(q, S) == \A i, j \in 1 .. Len(q) : i < j /\ q[i] \in S /\ q[j] \in S => q[i].id < q[j].id

Given(p)     == {c.answer : c \in {d \in Succeeded : d.proc = p}}
Taken(p)     == IF pc = "erase2" /\ cur.proc = p THEN {retVal} ELSE {}
Kept(p)      == IF m_NameRsp2Map[p] = NoAnswer THEN {} ELSE {m_NameRsp2Map[p].id}
Coming(p)    == IdsOf(fromBoard[p], Rsp2Like)
Executing(p) == IF running[p] = 0 THEN {} ELSE {running[p]}
Asked(p)     == IdsOf(toBoard[p], Request)

(* The test thread reads the entry before it erases it, so a taken answer   *)
(* may still be the one that is kept.                                       *)
Chain(G, T, K, C, E, A) ==
    /\ Below(G, T \cup K \cup C \cup E \cup A)
    /\ \A t \in T, k \in K : t <= k
    /\ Below(T \cup K, C \cup E \cup A)
    /\ Below(C, E \cup A)
    /\ Below(E, A)
OnTheWay(p) == Taken(p) \cup Kept(p) \cup Coming(p) \cup Executing(p) \cup Asked(p)
Lane(p) == /\ Rising(toBoard[p], Request) /\ Rising(fromBoard[p], Rsp2Like)
           /\ Chain(Given(p), Taken(p), Kept(p), Coming(p), Executing(p), Asked(p))

(* No call of another processor has the number a. *)
OwnerIs(a, p) == (\A c \in returned : c.id = a => c.proc = p) /\ (pc # "idle" /\ cur.id = a => cur.proc = p)
Owned(p)  == /\ Given(p) \cup OnTheWay(p) \subseteq 1 .. nextId - 1
             /\ \A a \in OnTheWay(p) : OwnerIs(a, p)
Numbered  == (\A c \in returned : c.id < nextId) /\ (pc # "idle" => cur.id = nextId - 1)
InOrder   == Numbered /\ \A p \in Procs : Lane(p) /\ Owned(p)

-----------------------------------------------------------------------------
(* The numbers in a stream, and what a Tail or an Append does to them.      *)

(* An empty stream holds no numbers. *)
LEMMA EmptyStream == \A S : IdsOf(<<>>, S) = {} /\ Rising(<<>>, S)
BY DEF IdsOf, Rising

(* Reading the head removes the smallest number of a rising stream. *)
LEMMA StreamTail ==
    ASSUME NEW M, NEW q \in Seq(M), q # <<>>, NEW S
    PROVE  /\ IdsOf(Tail(q), S) \subseteq IdsOf(q, S)
           /\ Rising(q, S) => Rising(Tail(q), S)
           /\ Head(q) \in S => /\ Head(q).id \in IdsOf(q, S)
                               /\ Rising(q, S) => Below({Head(q).id}, IdsOf(Tail(q), S))
<1>1. PICK n \in Nat : n = Len(q)
  OBVIOUS
<1>2. n >= 1 /\ Head(q) = q[1] /\ Len(Tail(q)) = n - 1
  BY <1>1
<1>3. \A i \in 1 .. n - 1 : Tail(q)[i] = q[i + 1]
  BY <1>1
<1>4. IdsOf(Tail(q), S) \subseteq IdsOf(q, S)
  BY <1>1, <1>2, <1>3 DEF IdsOf
<1>5. Rising(q, S) => Rising(Tail(q), S)
  BY <1>1, <1>2, <1>3 DEF Rising
<1>6. Head(q) \in S => Head(q).id \in IdsOf(q, S)
  BY <1>1, <1>2 DEF IdsOf
<1>7. ASSUME Head(q) \in S, Rising(q, S) PROVE Below({Head(q).id}, IdsOf(Tail(q), S))
  <2>1. ASSUME NEW t \in IdsOf(Tail(q), S) PROVE Head(q).id < t
    <3>1. PICK i \in 1 .. n - 1 : Tail(q)[i] \in S /\ t = Tail(q)[i].id
      BY <2>1, <1>2 DEF IdsOf
    <3>2. q[i + 1] \in S /\ t = q[i + 1].id
      BY <3>1, <1>3, Zenon
    <3>3. 1 < i + 1 /\ i + 1 \in 1 .. n /\ 1 \in 1 .. n
      BY <1>2
    <3>4. q[1].id < q[i + 1].id
      BY <1>1, <1>2, <1>7, <3>2, <3>3 DEF Rising
    <3>5. QED
      BY <1>2, <3>2, <3>4
  <2>2. QED
    BY <2>1 DEF Below
<1>8. QED
  BY <1>4, <1>5, <1>6, <1>7

(* Writing a number above all others keeps a stream rising. *)
LEMMA StreamAppend ==
    ASSUME NEW M, NEW q \in Seq(M), NEW x \in M, NEW S
    PROVE  /\ x \in S => IdsOf(Append(q, x), S) = IdsOf(q, S) \cup {x.id}
           /\ x \notin S => IdsOf(Append(q, x), S) = IdsOf(q, S)
           /\ Rising(q, S) /\ (x \in S => Below(IdsOf(q, S), {x.id})) => Rising(Append(q, x), S)
<1>1. PICK n \in Nat : n = Len(q)
  OBVIOUS
<1>a. Append(q, x) \in Seq(M)
  OBVIOUS
<1>2. PICK r \in Seq(M) : r = Append(q, x)
  BY <1>a, Zenon
<1>3. Len(r) = n + 1 /\ r[n + 1] = x /\ \A i \in 1 .. n : r[i] = q[i]
  BY <1>1, <1>2
<1>4. x \in S => IdsOf(r, S) = IdsOf(q, S) \cup {x.id}
  BY <1>1, <1>3 DEF IdsOf
<1>5. x \notin S => IdsOf(r, S) = IdsOf(q, S)
  BY <1>1, <1>3 DEF IdsOf
<1>6. ASSUME Rising(q, S), x \in S => Below(IdsOf(q, S), {x.id}) PROVE Rising(r, S)
  <2> SUFFICES ASSUME NEW i \in 1 .. n + 1, NEW j \in 1 .. n + 1, i < j, r[i] \in S, r[j] \in S
               PROVE  r[i].id < r[j].id
    BY <1>3 DEF Rising
  <2>1. CASE j = n + 1
    <3>1. r[i] = q[i] /\ i \in 1 .. Len(q) /\ r[j] = x
      BY <1>1, <1>3, <2>1
    <3>2. q[i].id \in IdsOf(q, S)
      BY <3>1 DEF IdsOf
    <3>3. QED
      BY <1>6, <3>1, <3>2 DEF Below
  <2>2. CASE j # n + 1
    BY <1>1, <1>3, <1>6, <2>2 DEF Rising
  <2>3. QED
    BY <2>1, <2>2
<1>7. QED
  BY <1>2, <1>4, <1>5, <1>6

-----------------------------------------------------------------------------
(* The moves along a lane: an entry is lost, replaced, taken or given, a    *)
(* request is executed, finished, answered at once, or added.               *)
LEMMA ChainMoves ==
    ASSUME NEW G \in SUBSET Int, NEW T \in SUBSET Int, NEW K \in SUBSET Int, NEW C \in SUBSET Int,
           NEW E \in SUBSET Int, NEW A \in SUBSET Int, Chain(G, T, K, C, E, A)
    PROVE  /\ \A K1 \in SUBSET K, A1 \in SUBSET A, C1 \in SUBSET C : Chain(G, {}, K1, C1, {}, A1) /\ Chain(G, T, K1, C1, E, A1)
           /\ \A a \in C, C1 \in SUBSET C : Below({a}, C1) => Chain(G, T, {a}, C1, E, A)
           /\ \A k \in Int : T = {} /\ K = {k} => Chain(G, {k}, K, C, E, A)
           /\ Chain(G \cup T, {}, {}, C, E, A)
           /\ \A a \in A, A1 \in SUBSET A : Below({a}, A1) => /\ E = {} => Chain(G, T, K, C, {a}, A1)
                                                              /\ Chain(G, T, K, C \cup {a}, {}, A1)
           /\ Chain(G, T, K, C \cup E, {}, A)
           /\ \A n \in Int : Below(G \cup T \cup K \cup C \cup E \cup A, {n}) => Chain(G, T, K, C, E, A \cup {n})
<1> USE DEF Below
<1>1. \A K1 \in SUBSET K, A1 \in SUBSET A, C1 \in SUBSET C : Chain(G, {}, K1, C1, {}, A1) /\ Chain(G, T, K1, C1, E, A1)
  <2> SUFFICES ASSUME NEW K1 \in SUBSET K, NEW A1 \in SUBSET A, NEW C1 \in SUBSET C
               PROVE  Chain(G, {}, K1, C1, {}, A1) /\ Chain(G, T, K1, C1, E, A1)
    OBVIOUS
  <2>1. Chain(G, T, K1, C1, E, A1)
    BY DEF Chain
  <2>2. Chain(G, {}, K1, C1, {}, A1)
    BY <2>1 DEF Chain
  <2> QED
    BY <2>1, <2>2
<1>2. \A a \in C, C1 \in SUBSET C : Below({a}, C1) => Chain(G, T, {a}, C1, E, A)
  BY DEF Chain
<1>3. \A k \in Int : T = {} /\ K = {k} => Chain(G, {k}, K, C, E, A)
  BY DEF Chain
<1>4. Chain(G \cup T, {}, {}, C, E, A)
  BY DEF Chain
<1>5. \A a \in A, A1 \in SUBSET A : Below({a}, A1) => (E = {} => Chain(G, T, K, C, {a}, A1))
  BY DEF Chain
<1>6. \A a \in A, A1 \in SUBSET A : Below({a}, A1) => Chain(G, T, K, C \cup {a}, {}, A1)
  BY DEF Chain
<1>7. Chain(G, T, K, C \cup E, {}, A)
  BY DEF Chain
<1>8. \A n \in Int : Below(G \cup T \cup K \cup C \cup E \cup A, {n}) => Chain(G, T, K, C, E, A \cup {n})
  BY DEF Chain
<1>9. QED
  BY <1>1, <1>2, <1>3, <1>4, <1>5, <1>6, <1>7, <1>8

-----------------------------------------------------------------------------
(* Who owns a number: a step makes a new call or goes on with the current one. *)
Entering(p) == /\ pc = "idle" /\ nextId' = nextId + 1 /\ cur'.id = nextId /\ cur'.proc = p
               /\ \A c \in returned' : c \in returned \/ (c.id = nextId /\ c.proc = p)
Proceeding  == /\ nextId' = nextId /\ cur' = cur /\ (pc' # "idle" => pc # "idle")
               /\ \A c \in returned' : c \in returned \/ (pc # "idle" /\ c.id = cur.id /\ c.proc = cur.proc)

(* Every step does one or the other. *)
LEMMA EveryStep == ASSUME [Next]_vars PROVE Proceeding \/ \E p \in Procs : Entering(p)
<1>1. ASSUME NEW p \in Procs, ExcuteCmd(p) PROVE Entering(p)
  BY <1>1 DEF ExcuteCmd, Enter, NewCall, Entering
<1>2. ASSUME NEW p \in Procs, NEW op, NEW size, SendAndWaitTask(p, op, size) PROVE Entering(p)
  <2>1. pc = "idle" /\ nextId' = nextId + 1 /\ cur' = [id |-> nextId, proc |-> p, op |-> op]
    BY <1>2 DEF SendAndWaitTask, Enter, NewCall
  <2>2. returned' = returned \/ Return(NewCall(p, op), TESTCASE_FAIL, 0, RSP1_OK)
    BY <1>2 DEF SendAndWaitTask
  <2>3. \A c \in returned' : c \in returned \/ (c.id = nextId /\ c.proc = p)
    BY <2>2 DEF Return, NewCall
  <2>4. QED
    BY <2>1, <2>3 DEF Entering
<1>3. ASSUME NEW code, NEW answer, Return(cur, code, answer, rsp1Local), pc # "idle", cur' = cur, nextId' = nextId
      PROVE  Proceeding
  BY <1>3 DEF Return, Proceeding
<1>4. CASE CallStep
  <2>1. CASE pc' # "idle" /\ returned' = returned
    BY <1>4, <2>1 DEF CallStep, Rsp1Timeout, TakeRsp1, EraseRsp1, Rsp2Timeout, TakeRsp2, EraseRsp2, TaskTimeout,
         TakeTask, Proceeding
  <2>2. CASE ~(pc' # "idle" /\ returned' = returned)
    <3>1. pc # "idle" /\ cur' = cur /\ nextId' = nextId
      BY <1>4 DEF CallStep, Rsp1Timeout, TakeRsp1, EraseRsp1, Rsp2Timeout, TakeRsp2, EraseRsp2, TaskTimeout, TakeTask
    <3>2. \E code, answer : Return(cur, code, answer, rsp1Local)
      BY <1>4, <2>2 DEF CallStep, Rsp1Timeout, TakeRsp1, EraseRsp1, Rsp2Timeout, TakeRsp2, EraseRsp2, TaskTimeout,
         TakeTask
    <3>3. QED
      BY <1>3, <3>1, <3>2
  <2>3. QED
    BY <2>1, <2>2
<1>5. ASSUME UNCHANGED apiVars PROVE Proceeding
  BY <1>5 DEF apiVars, Proceeding
<1>6. ASSUME NEW p \in Procs, DealMsg(p) \/ SetRsp1Event \/ SetRsp2Event PROVE UNCHANGED apiVars
  BY <1>6 DEF DealMsg, SetRsp1Event, SetRsp2Event
<1>7. ASSUME NEW p \in Procs,
             BoardExecute(p) \/ BoardFinish(p) \/ BoardSetPrio(p) \/ BoardRestart(p) \/ BoardDown(p)
      PROVE  UNCHANGED apiVars
  BY <1>7 DEF BoardExecute, BoardFinish, BoardSetPrio, BoardRestart, BoardDown
<1>8. UNCHANGED vars => UNCHANGED apiVars
  BY DEF vars
<1>9. QED
  BY <1>1, <1>2, <1>4, <1>5, <1>6, <1>7, <1>8, UAgentCommandAssumption DEF Next, SetTaskPrio, RestartExecuteTask

(* A number once owned keeps its owner, and a new one belongs to its call. *)
LEMMA NumberedStep ==
    ASSUME TypeOK, Numbered, [Next]_vars
    PROVE  /\ Numbered' /\ nextId' \in {nextId, nextId + 1}
           /\ \A p \in Procs, a \in 1 .. nextId - 1 : OwnerIs(a, p) => OwnerIs(a, p)'
           /\ \A p \in Procs, a \in Int : Entering(p) /\ a = nextId => OwnerIs(a, p)'
<1>1. nextId \in Nat /\ (pc # "idle" => cur.id \in Nat) /\ \A c \in returned : c.id \in Nat
  BY UAgentCommandAssumption DEF TypeOK, CallTypeOK, Returned, CallIds
<1>2. CASE Proceeding
  BY <1>1, <1>2 DEF Proceeding, Numbered, OwnerIs, Entering
<1>3. ASSUME NEW p \in Procs, Entering(p)
      PROVE  /\ Numbered' /\ nextId' = nextId + 1 /\ \A a \in Int : a = nextId => OwnerIs(a, p)'
             /\ \A q \in Procs, a \in 1 .. nextId - 1 : OwnerIs(a, q) => OwnerIs(a, q)'
  BY <1>1, <1>3 DEF Entering, Numbered, OwnerIs
<1>4. QED
  BY <1>2, <1>3, EveryStep

(* What a step may do to the lane of p besides asking for a new number. *)
Moves(p) == Lane(p)' /\ OnTheWay(p)' \subseteq OnTheWay(p) /\ Given(p)' \subseteq Given(p) \cup Taken(p)

(* A lane of which nothing changes. *)
LEMMA SameLane ==
    ASSUME NEW p \in Procs, Lane(p), Succeeded' = Succeeded, Taken(p)' = Taken(p),
           m_NameRsp2Map'[p] = m_NameRsp2Map[p], fromBoard'[p] = fromBoard[p], running'[p] = running[p],
           toBoard'[p] = toBoard[p]
    PROVE  Moves(p)
<1>1. /\ Given(p)' = Given(p) /\ Kept(p)' = Kept(p) /\ Coming(p)' = Coming(p)
      /\ Executing(p)' = Executing(p) /\ Asked(p)' = Asked(p)
  BY DEF Given, Kept, Coming, Executing, Asked
<1>2. Lane(p)'
  BY <1>1 DEF Lane, Chain
<1>3. QED
  BY <1>1, <1>2 DEF Moves, OnTheWay

(* The stages of a lane hold numbers of calls made. *)
LEMMA LaneTypes ==
    ASSUME NEW p \in Procs, Owned(p), nextId \in Nat
    PROVE  /\ Given(p) \in SUBSET Int /\ Taken(p) \in SUBSET Int /\ Kept(p) \in SUBSET Int
           /\ Coming(p) \in SUBSET Int /\ Executing(p) \in SUBSET Int /\ Asked(p) \in SUBSET Int
           /\ Below(Given(p) \cup Taken(p) \cup Kept(p) \cup Coming(p) \cup Executing(p) \cup Asked(p), {nextId})
BY DEF Owned, OnTheWay, Below

(* A call of p is made: its number is the last of p's lane. *)
LEMMA EnterLane ==
    ASSUME Inv, InOrder, NEW p \in Procs, ExcuteCmd(p) \/ SetTaskPrio(p) \/ RestartExecuteTask(p)
    PROVE  /\ \A q \in Procs \ {p} : Moves(q)
           /\ Lane(p)' /\ OnTheWay(p)' \subseteq OnTheWay(p) \cup {nextId} /\ Given(p)' \subseteq Given(p)
<1> USE DEF Inv, TypeOK
<1>0. PICK op \in Ops : \E size, result :
        /\ Enter(p, op) /\ SendMsg(p, op, size, result)
        /\ UNCHANGED <<events, maps, rcv, fromBoard, boardVars>>
        /\ \/ returned' = returned /\ pc' \in {"rsp1", "task"}
           \/ Return(NewCall(p, op), TESTCASE_FAIL, 0, RSP1_OK)
  BY DEF ExcuteCmd, SetTaskPrio, RestartExecuteTask, SendAndWaitTask, Ops
<1>1. PICK size, result :
        /\ Enter(p, op) /\ SendMsg(p, op, size, result)
        /\ UNCHANGED <<events, maps, rcv, fromBoard, boardVars>>
        /\ \/ returned' = returned /\ pc' \in {"rsp1", "task"}
           \/ Return(NewCall(p, op), TESTCASE_FAIL, 0, RSP1_OK)
  BY <1>0
<1>2. Succeeded' = Succeeded /\ pc' # "erase2" /\ pc # "erase2"
  <2>1. CASE returned' = returned /\ pc' \in {"rsp1", "task"}
    BY <1>1, <2>1 DEF Succeeded, Enter
  <2>2. CASE Return(NewCall(p, op), TESTCASE_FAIL, 0, RSP1_OK)
    BY <1>1, <2>2 DEF Succeeded, Enter, Return, TESTCASE_FAIL, TESTCASE_SUCCESS
  <2>3. QED
    BY <1>1, <2>1, <2>2
<1>3. \A q \in Procs : /\ Taken(q) = {} /\ Taken(q)' = {} /\ Given(q)' = Given(q)
                       /\ Kept(q)' = Kept(q) /\ Coming(q)' = Coming(q) /\ Executing(q)' = Executing(q)
  BY <1>1, <1>2 DEF Taken, Given, Kept, Coming, Executing, maps, boardVars
<1>4. \A q \in Procs \ {p} : Moves(q)
  <2> SUFFICES ASSUME NEW q \in Procs \ {p} PROVE Moves(q)
    OBVIOUS
  <2>1. toBoard'[q] = toBoard[q]
    BY <1>1 DEF SendMsg, BoardTypeOK
  <2>2. QED
    BY <1>1, <1>2, <1>3, <2>1, SameLane DEF InOrder, maps, boardVars
<1>5. CASE toBoard' = toBoard
  BY <1>1, <1>2, <1>3, <1>4, <1>5, SameLane DEF InOrder, Moves, maps, boardVars
<1>6. CASE toBoard' = [toBoard EXCEPT ![p] = Append(@, [id |-> nextId, op |-> op])]
  <2>a. nextId \in CallIds
    BY <1>1 DEF Enter, CallTypeOK, CallIds
  <2>1. PICK x \in Request : x = [id |-> nextId, op |-> op]
    BY <2>a DEF Request
  <2>2. toBoard'[p] = Append(toBoard[p], x) /\ toBoard[p] \in Seq(Request) /\ x.id = nextId
    BY <1>6, <2>1 DEF BoardTypeOK
  <2>3. /\ Lane(p) /\ nextId \in Int /\ Given(p) \in SUBSET Int /\ Taken(p) \in SUBSET Int
        /\ Kept(p) \in SUBSET Int /\ Coming(p) \in SUBSET Int /\ Executing(p) \in SUBSET Int
        /\ Asked(p) \in SUBSET Int
        /\ Below(Given(p) \cup Taken(p) \cup Kept(p) \cup Coming(p) \cup Executing(p) \cup Asked(p), {nextId})
    BY LaneTypes DEF InOrder, CallTypeOK
  <2>4. Asked(p)' = Asked(p) \cup {nextId} /\ Rising(toBoard'[p], Request)
    BY <2>1, <2>2, <2>3, StreamAppend DEF Lane, Asked, Below
  <2>5. Chain(Given(p), Taken(p), Kept(p), Coming(p), Executing(p), Asked(p) \cup {nextId})
    BY <2>3, ChainMoves DEF Lane
  <2>6. Chain(Given(p), Taken(p), Kept(p), Coming(p), Executing(p), Asked(p))'
    BY <1>3, <2>4, <2>5
  <2>7. Lane(p)'
    BY <1>1, <2>3, <2>4, <2>6 DEF Lane
  <2>8. QED
    BY <1>3, <1>4, <2>4, <2>7 DEF OnTheWay
<1>7. QED
  BY <1>1, <1>4, <1>5, <1>6 DEF SendMsg

(* A step inside a call moves an answer from the map to the test thread and *)
(* from there to the caller, or changes no lane.                            *)
LEMMA CallLane == ASSUME Inv, InOrder, CallStep, NEW q \in Procs PROVE Moves(q)
<1> USE DEF Inv, TypeOK
<1>1. /\ Lane(q) /\ fromBoard' = fromBoard /\ toBoard' = toBoard /\ running' = running
      /\ pc # "idle" /\ cur.proc \in Procs /\ cur' = cur
  BY DEF InOrder, CallStep, Rsp1Timeout, TakeRsp1, EraseRsp1, Rsp2Timeout, TakeRsp2, EraseRsp2, TaskTimeout, TakeTask,
     boardVars, CallTypeOK
<1>2. Coming(q)' = Coming(q) /\ Executing(q)' = Executing(q) /\ Asked(q)' = Asked(q)
  BY <1>1 DEF Coming, Executing, Asked
<1>3. ASSUME NEW code, NEW answer, Return(cur, code, answer, rsp1Local),
             code # TESTCASE_SUCCESS \/ cur.op # "exec"
      PROVE  Succeeded' = Succeeded /\ pc' = "idle"
  BY <1>3 DEF Return, Succeeded
<1>4. ASSUME pc # "erase2", pc' # "erase2", Succeeded' = Succeeded, m_NameRsp2Map' = m_NameRsp2Map PROVE Moves(q)
  BY <1>1, <1>4, SameLane DEF Taken
<1>5. CASE Rsp1Timeout \/ Rsp2Timeout \/ TaskTimeout
  BY <1>3, <1>4, <1>5 DEF Rsp1Timeout, Rsp2Timeout, TaskTimeout, maps, ECMD_RSP1_TIMEOUT_ERROR, ECMD_RSP2_TIMEOUT_ERROR,
     ECMD_CTRL_RSP_TIMEOUT_ERROR, TESTCASE_SUCCESS
<1>6. CASE TakeTask
  BY <1>3, <1>4, <1>6 DEF TakeTask, maps, CallKinds
<1>7. CASE TakeRsp1
  <2>1. \/ Return(cur, TESTCASE_FAIL, 0, rsp1Local)
        \/ pc' = "erase1" /\ returned' = returned
    BY <1>7 DEF TakeRsp1
  <2>2. Succeeded' = Succeeded /\ pc' # "erase2"
    BY <1>3, <2>1 DEF TESTCASE_FAIL, TESTCASE_SUCCESS, Succeeded
  <2>3. QED
    BY <1>4, <1>7, <2>2 DEF TakeRsp1, maps
<1>8. CASE EraseRsp1
  <2>1. \/ Return(cur, ECMD_RSP1_NO_SYMBOL_ERROR, 0, rsp1Local)
        \/ Return(cur, ECMD_TASK_BUSY, 0, rsp1Local)
        \/ pc' = "rsp2" /\ returned' = returned
    BY <1>8 DEF EraseRsp1
  <2>2. Succeeded' = Succeeded /\ pc' # "erase2"
    BY <1>3, <2>1 DEF ECMD_RSP1_NO_SYMBOL_ERROR, ECMD_TASK_BUSY, TESTCASE_SUCCESS, Succeeded
  <2>3. QED
    BY <1>4, <1>8, <2>2 DEF EraseRsp1
<1>9. CASE TakeRsp2 /\ m_NameRsp2Map[cur.proc] = NoAnswer
  BY <1>3, <1>4, <1>9 DEF TakeRsp2, maps, TESTCASE_FAIL, TESTCASE_SUCCESS
<1>t. /\ Given(q) \in SUBSET Int /\ Taken(q) \in SUBSET Int /\ Kept(q) \in SUBSET Int
      /\ Coming(q) \in SUBSET Int /\ Executing(q) \in SUBSET Int /\ Asked(q) \in SUBSET Int
      /\ Chain(Given(q), Taken(q), Kept(q), Coming(q), Executing(q), Asked(q))
  <2>1. Owned(q) /\ nextId \in Nat
    BY UAgentCommandAssumption DEF InOrder, CallTypeOK
  <2>2. QED
    BY <1>1, <2>1, LaneTypes DEF Lane
<1>10. CASE TakeRsp2 /\ m_NameRsp2Map[cur.proc] # NoAnswer
  <2>1. /\ pc = "rsp2" /\ pc' = "erase2" /\ retVal' = m_NameRsp2Map[cur.proc].id
        /\ returned' = returned /\ m_NameRsp2Map' = m_NameRsp2Map
    BY <1>10 DEF TakeRsp2, maps
  <2>2. Given(q)' = Given(q) /\ Kept(q)' = Kept(q) /\ Taken(q) = {}
    BY <2>1 DEF Given, Succeeded, Kept, Taken
  <2>3. Chain(Given(q), Taken(q)', Kept(q), Coming(q), Executing(q), Asked(q)) /\ Taken(q)' \subseteq Kept(q)
    <3>1. CASE q = cur.proc
      <4>1. PICK k : k = m_NameRsp2Map[q].id
        OBVIOUS
      <4>2. Kept(q) = {k} /\ Taken(q)' = {k} /\ k \in Int
        BY <1>1, <1>10, <1>t, <2>1, <3>1, <4>1 DEF Kept, Taken
      <4>3. Chain(Given(q), {k}, Kept(q), Coming(q), Executing(q), Asked(q))
        BY <1>t, <2>2, <4>2, ChainMoves
      <4>4. QED
        BY <4>2, <4>3
    <3>2. CASE q # cur.proc
      BY <1>1, <1>t, <2>2, <3>2 DEF Taken
    <3>3. QED
      BY <3>1, <3>2
  <2>4. QED
    BY <1>1, <1>2, <2>2, <2>3 DEF Moves, Lane, OnTheWay
<1>11. CASE EraseRsp2
  <2>1. /\ pc = "erase2" /\ pc' = "idle" /\ m_NameRsp2Map' = [m_NameRsp2Map EXCEPT ![cur.proc] = NoAnswer]
        /\ Return(cur, TESTCASE_SUCCESS, retVal, rsp1Local)
    BY <1>11 DEF EraseRsp2, Return
  <2>2. Taken(q)' = {}
    BY <2>1 DEF Taken
  <2>3. CASE q = cur.proc
    <3>1. Taken(q) = {retVal} /\ Kept(q)' = {}
      BY <1>1, <2>1, <2>3 DEF Taken, Kept, ReceiveTypeOK
    <3>2. Given(q)' = Given(q) \cup {retVal}
      <4> DEFINE record == [id |-> cur.id, proc |-> cur.proc, op |-> cur.op,
                            code |-> TESTCASE_SUCCESS, answer |-> retVal, rsp1 |-> rsp1Local]
      <4>1. returned' = returned \cup {record}
        BY <2>1 DEF Return
      <4>2. record.op = "exec" /\ record.code = TESTCASE_SUCCESS /\ record.proc = q /\ record.answer = retVal
        BY <2>1, <2>3 DEF CallKinds
      <4> HIDE DEF record
      <4>3. QED
        BY <4>1, <4>2 DEF Given, Succeeded
    <3>3. Chain(Given(q) \cup Taken(q), {}, {}, Coming(q), Executing(q), Asked(q))
      BY <1>t, ChainMoves
    <3>4. QED
      BY <1>1, <1>2, <2>2, <3>1, <3>2, <3>3 DEF Moves, Lane, OnTheWay
  <2>4. CASE q # cur.proc
    <3>1. Taken(q) = {} /\ m_NameRsp2Map'[q] = m_NameRsp2Map[q]
      BY <1>1, <2>1, <2>4 DEF Taken, ReceiveTypeOK
    <3>2. Given(q)' = Given(q) /\ Kept(q)' = Kept(q)
      BY <2>1, <2>4, <3>1 DEF Given, Succeeded, Return, Kept
    <3>3. QED
      BY <1>1, <1>2, <1>t, <2>2, <3>1, <3>2 DEF Moves, Lane, OnTheWay
  <2>5. QED
    BY <2>3, <2>4
<1>12. QED
  BY <1>5, <1>6, <1>7, <1>8, <1>9, <1>10, <1>11 DEF CallStep

(* The facts about a lane that the steps outside the client start from. *)
Outside(q) ==
    /\ Given(q) \in SUBSET Int /\ Taken(q) \in SUBSET Int /\ Kept(q) \in SUBSET Int
    /\ Coming(q) \in SUBSET Int /\ Executing(q) \in SUBSET Int /\ Asked(q) \in SUBSET Int
    /\ Rising(toBoard[q], Request) /\ Rising(fromBoard[q], Rsp2Like)
    /\ Chain(Given(q), Taken(q), Kept(q), Coming(q), Executing(q), Asked(q))
    /\ toBoard[q] \in Seq(Request) /\ fromBoard[q] \in Seq(Answer)
    /\ Given(q)' = Given(q) /\ Taken(q)' = Taken(q) /\ Succeeded' = Succeeded

(* A step that leaves the test thread alone starts from these facts. *)
LEMMA OutsideLane == ASSUME Inv, InOrder, UNCHANGED apiVars, NEW q \in Procs PROVE Outside(q)
<1>1. Owned(q) /\ nextId \in Nat /\ Lane(q)
  BY UAgentCommandAssumption DEF InOrder, Inv, TypeOK, CallTypeOK
<1>2. /\ Given(q) \in SUBSET Int /\ Taken(q) \in SUBSET Int /\ Kept(q) \in SUBSET Int
      /\ Coming(q) \in SUBSET Int /\ Executing(q) \in SUBSET Int /\ Asked(q) \in SUBSET Int
  BY <1>1, LaneTypes
<1>3. Given(q)' = Given(q) /\ Taken(q)' = Taken(q) /\ Succeeded' = Succeeded
  BY DEF apiVars, Given, Succeeded, Taken
<1>4. toBoard[q] \in Seq(Request) /\ fromBoard[q] \in Seq(Answer)
  BY DEF Inv, TypeOK, BoardTypeOK
<1>5. QED
  BY <1>1, <1>2, <1>3, <1>4 DEF Outside, Lane

(* The receive thread: an answer that takes the OTHER branch of DealMsg     *)
(* replaces the one that is kept.                                           *)
LEMMA ReceiveLane ==
    ASSUME Inv, InOrder, NEW p \in Procs, DealMsg(p) \/ SetRsp1Event \/ SetRsp2Event, NEW q \in Procs
    PROVE  Moves(q)
<1> USE DEF Inv, TypeOK
<1>1. Outside(q) /\ toBoard' = toBoard /\ running' = running /\ Lane(q)
  BY OutsideLane DEF DealMsg, SetRsp1Event, SetRsp2Event, boardVars, InOrder
<1>2. ASSUME fromBoard'[q] = fromBoard[q], m_NameRsp2Map'[q] = m_NameRsp2Map[q] PROVE Moves(q)
  BY <1>1, <1>2, SameLane DEF Outside
<1>3. CASE SetRsp1Event \/ SetRsp2Event
  BY <1>2, <1>3 DEF SetRsp1Event, SetRsp2Event, maps
<1>4. CASE DealMsg(p) /\ q # p
  <2>1. fromBoard'[q] = fromBoard[q]
    BY <1>4 DEF DealMsg, BoardTypeOK
  <2>2. m_NameRsp2Map'[q] = m_NameRsp2Map[q]
    BY <1>4 DEF DealMsg, ReceiveTypeOK, maps
  <2>3. QED
    BY <1>2, <2>1, <2>2
<1>5. CASE DealMsg(p) /\ q = p
  <2>1. fromBoard[q] # <<>> /\ fromBoard'[q] = Tail(fromBoard[q])
    BY <1>5 DEF DealMsg, BoardTypeOK
  <2>2. PICK msg \in Answer : msg = Head(fromBoard[q])
    BY <1>1, <2>1 DEF Outside
  <2>3. /\ Coming(q)' = IdsOf(Tail(fromBoard[q]), Rsp2Like)
        /\ Executing(q)' = Executing(q) /\ Asked(q)' = Asked(q)
    BY <1>1, <2>1 DEF Coming, Executing, Asked
  <2>4. /\ Coming(q)' \subseteq Coming(q) /\ Rising(fromBoard'[q], Rsp2Like)
        /\ msg \in Rsp2Like => msg.id \in Coming(q) /\ Below({msg.id}, Coming(q)')
    BY <1>1, <2>1, <2>2, <2>3, StreamTail DEF Outside, Coming
  <2>5. \/ m_NameRsp2Map'[q] = m_NameRsp2Map[q]
        \/ msg \in Rsp2Like /\ m_NameRsp2Map'[q] = msg
    BY <1>5, <2>2 DEF DealMsg, Rsp2Like, Rsp1Sizes, ReceiveTypeOK, maps
  <2>6. CASE m_NameRsp2Map'[q] = m_NameRsp2Map[q]
    <3>1. Kept(q)' = Kept(q)
      BY <2>6 DEF Kept
    <3>2. Chain(Given(q), Taken(q), Kept(q), Coming(q)', Executing(q), Asked(q))
      BY <1>1, <2>4, ChainMoves DEF Outside
    <3>3. Lane(q)'
      BY <1>1, <2>3, <2>4, <3>1, <3>2 DEF Outside, Lane
    <3>4. QED
      BY <1>1, <2>3, <2>4, <3>1, <3>3 DEF Outside, Moves, OnTheWay
  <2>7. CASE msg \in Rsp2Like /\ m_NameRsp2Map'[q] = msg
    <3>1. Kept(q)' = {msg.id}
      BY <2>2, <2>7, Constants DEF Kept
    <3>2. Chain(Given(q), Taken(q), {msg.id}, Coming(q)', Executing(q), Asked(q))
      BY <1>1, <2>4, <2>7, ChainMoves DEF Outside
    <3>3. Lane(q)'
      BY <1>1, <2>3, <2>4, <3>1, <3>2 DEF Outside, Lane
    <3>4. QED
      BY <1>1, <2>3, <2>4, <2>7, <3>1, <3>3 DEF Outside, Moves, OnTheWay
  <2>8. QED
    BY <2>5, <2>6, <2>7
<1>6. QED
  BY <1>3, <1>4, <1>5

(* The boards: a request is taken from the send stream, its result appears  *)
(* in the receive stream, at once or after it has been executed.            *)
LEMMA BoardLane ==
    ASSUME Inv, InOrder, NEW p \in Procs, NEW q \in Procs,
           BoardExecute(p) \/ BoardFinish(p) \/ BoardSetPrio(p) \/ BoardRestart(p) \/ BoardDown(p)
    PROVE  Moves(q)
<1> USE DEF Inv, TypeOK
<1>1. Outside(q) /\ m_NameRsp2Map' = m_NameRsp2Map /\ Lane(q)
  BY OutsideLane DEF BoardExecute, BoardFinish, BoardSetPrio, BoardRestart, BoardDown, maps, InOrder
<1>2. CASE q # p
  <2>1. toBoard'[q] = toBoard[q] /\ fromBoard'[q] = fromBoard[q] /\ running'[q] = running[q]
    BY <1>2 DEF BoardExecute, BoardFinish, BoardSetPrio, BoardRestart, BoardDown, NextRequest, Reply, BoardTypeOK, boardVars
  <2>2. QED
    BY <1>1, <2>1, SameLane DEF Outside
<1>k. Kept(q)' = Kept(q)
  BY <1>1 DEF Kept
<1>n. ASSUME NEW op, NextRequest(q, op)
      PROVE  /\ toBoard[q] # <<>> /\ Head(toBoard[q]) \in Request /\ Head(toBoard[q]).id \in Asked(q)
             /\ Asked(q)' \subseteq Asked(q) /\ Rising(toBoard'[q], Request)
             /\ Below({Head(toBoard[q]).id}, Asked(q)')
  <2>1. toBoard[q] # <<>> /\ toBoard'[q] = Tail(toBoard[q]) /\ Asked(q)' = IdsOf(Tail(toBoard[q]), Request)
    BY <1>n DEF NextRequest, BoardTypeOK, Asked
  <2>2. Head(toBoard[q]) \in Request
    BY <1>1, <2>1 DEF Outside
  <2>3. QED
    BY <1>1, <2>1, <2>2, StreamTail DEF Outside, Asked
<1>r. ASSUME NEW id \in CallIds, NEW size \in AnswerSizes, NEW result \in Rsp1Results, Reply(q, id, size, result)
      PROVE  /\ size \in Rsp1Sizes \cup {TASK_RSP_SIZE} => Coming(q)' = Coming(q) /\ Rising(fromBoard'[q], Rsp2Like)
             /\ size \notin Rsp1Sizes \cup {TASK_RSP_SIZE} =>
                    /\ Coming(q)' = Coming(q) \cup {id}
                    /\ Below(Coming(q), {id}) => Rising(fromBoard'[q], Rsp2Like)
  <2>1. PICK x \in Answer : x = [id |-> id, size |-> size, result |-> result]
    BY DEF Answer
  <2>2. fromBoard'[q] = Append(fromBoard[q], x) /\ x.id = id /\ x.size = size
    BY <1>r, <2>1 DEF Reply, BoardTypeOK
  <2>3. x \in Rsp2Like <=> size \notin Rsp1Sizes \cup {TASK_RSP_SIZE}
    BY <2>2 DEF Rsp2Like
  <2>4. /\ x \in Rsp2Like => Coming(q)' = Coming(q) \cup {x.id}
        /\ x \notin Rsp2Like => Coming(q)' = Coming(q)
        /\ (x \in Rsp2Like => Below(Coming(q), {x.id})) => Rising(fromBoard'[q], Rsp2Like)
    <3>1. fromBoard[q] \in Seq(Answer) /\ Rising(fromBoard[q], Rsp2Like)
      BY <1>1 DEF Outside
    <3>2. /\ x \in Rsp2Like => IdsOf(Append(fromBoard[q], x), Rsp2Like) = IdsOf(fromBoard[q], Rsp2Like) \cup {x.id}
          /\ x \notin Rsp2Like => IdsOf(Append(fromBoard[q], x), Rsp2Like) = IdsOf(fromBoard[q], Rsp2Like)
          /\ Rising(fromBoard[q], Rsp2Like) /\ (x \in Rsp2Like => Below(IdsOf(fromBoard[q], Rsp2Like), {x.id}))
                => Rising(Append(fromBoard[q], x), Rsp2Like)
      BY <3>1, StreamAppend, Zenon
    <3>3. QED
      BY <2>2, <3>1, <3>2, Zenon DEF Coming
  <2>5. QED
    BY <2>2, <2>3, <2>4
<1>m. /\ \A a \in Asked(q), A \in SUBSET Asked(q) :
            Below({a}, A) => /\ Executing(q) = {} => Chain(Given(q), Taken(q), Kept(q), Coming(q), {a}, A)
                             /\ Chain(Given(q), Taken(q), Kept(q), Coming(q) \cup {a}, {}, A)
      /\ \A A \in SUBSET Asked(q) : Chain(Given(q), Taken(q), Kept(q), Coming(q), Executing(q), A)
      /\ Chain(Given(q), Taken(q), Kept(q), Coming(q) \cup Executing(q), {}, Asked(q))
  BY <1>1, ChainMoves DEF Outside
<1>3. CASE BoardExecute(p) /\ q = p
  <2>1. NextRequest(q, "exec")
    BY <1>3 DEF BoardExecute
  <2>2. PICK id : id = Head(toBoard[q]).id
    OBVIOUS
  <2>3. id \in Asked(q) /\ id \in CallIds /\ id # 0
    BY <1>n, <2>1, <2>2, Constants DEF Request
  <2>4. PICK result \in Rsp1Results :
           /\ running[q] # 0 => result = RSP1_BUSY
           /\ Reply(q, id, Rsp1Size(q), result)
           /\ running' = IF result = RSP1_OK THEN [running EXCEPT ![q] = id] ELSE running
    BY <1>3, <2>2 DEF BoardExecute
  <2>5. Coming(q)' = Coming(q) /\ Rising(fromBoard'[q], Rsp2Like)
    BY <1>r, <2>3, <2>4, Distinct, Constants
  <2>6. \/ Executing(q)' = Executing(q)
        \/ Executing(q) = {} /\ Executing(q)' = {id}
    BY <2>3, <2>4, Distinct DEF Executing, BoardTypeOK
  <2>7. Chain(Given(q), Taken(q), Kept(q), Coming(q), Executing(q)', Asked(q)')
    BY <1>m, <1>n, <2>1, <2>2, <2>3, <2>6
  <2>8. Lane(q)'
    BY <1>1, <1>k, <1>n, <2>1, <2>5, <2>7 DEF Outside, Lane
  <2>9. QED
    BY <1>1, <1>k, <1>n, <2>1, <2>3, <2>5, <2>6, <2>8 DEF Outside, Moves, OnTheWay
<1>4. CASE BoardFinish(p) /\ q = p
  <2>1. PICK id : id = running[q]
    OBVIOUS
  <2>2. id \in CallIds /\ Executing(q) = {id} /\ Executing(q)' = {} /\ Reply(q, id, RSP2_SIZE, RSP1_OK)
        /\ toBoard' = toBoard
    BY <1>4, <2>1, UAgentCommandAssumption DEF BoardFinish, BoardTypeOK, CallIds, Executing
  <2>3. Below(Coming(q), {id})
    BY <1>1, <2>2 DEF Outside, Chain, Below
  <2>4. Coming(q)' = Coming(q) \cup {id} /\ Rising(fromBoard'[q], Rsp2Like)
    BY <1>r, <2>2, <2>3, Distinct, Constants DEF AnswerSizes
  <2>5. Asked(q)' = Asked(q)
    BY <2>2 DEF Asked
  <2>6. Chain(Given(q), Taken(q), Kept(q), Coming(q)', Executing(q)', Asked(q))
    BY <1>m, <2>2, <2>4
  <2>7. Lane(q)'
    BY <1>1, <1>k, <2>2, <2>4, <2>5, <2>6 DEF Outside, Lane
  <2>8. QED
    BY <1>1, <1>k, <2>2, <2>4, <2>5, <2>7 DEF Outside, Moves, OnTheWay
<1>5. CASE BoardSetPrio(p) /\ q = p
  <2>1. NextRequest(q, "prio") /\ Reply(q, Head(toBoard[q]).id, TASK_RSP_SIZE, RSP1_OK) /\ running' = running
    BY <1>5 DEF BoardSetPrio, boardVars
  <2>2. Head(toBoard[q]).id \in CallIds
    BY <1>n, <2>1 DEF Request
  <2>3. Coming(q)' = Coming(q) /\ Rising(fromBoard'[q], Rsp2Like) /\ Executing(q)' = Executing(q)
    BY <1>r, <2>1, <2>2, Constants DEF AnswerSizes, Executing
  <2>4. Chain(Given(q), Taken(q), Kept(q), Coming(q), Executing(q), Asked(q)')
    BY <1>m, <1>n, <2>1
  <2>5. Lane(q)'
    BY <1>1, <1>k, <1>n, <2>1, <2>3, <2>4 DEF Outside, Lane
  <2>6. QED
    BY <1>1, <1>k, <1>n, <2>1, <2>3, <2>5 DEF Outside, Moves, OnTheWay
<1>6. CASE BoardRestart(p) /\ q = p
  <2>1. NextRequest(q, "restart") /\ Reply(q, Head(toBoard[q]).id, RESTART_RSP_SIZE, RSP1_OK)
        /\ Executing(q)' = {}
    BY <1>6 DEF BoardRestart, Executing, BoardTypeOK
  <2>2. PICK id : id = Head(toBoard[q]).id
    OBVIOUS
  <2>3. id \in CallIds /\ id \in Asked(q)
    BY <1>n, <2>1, <2>2 DEF Request
  <2>4. Below(Coming(q), {id})
    BY <1>1, <2>3 DEF Outside, Chain, Below
  <2>5. RESTART_RSP_SIZE \in AnswerSizes /\ RESTART_RSP_SIZE \notin Rsp1Sizes \cup {TASK_RSP_SIZE}
    BY DEF AnswerSizes, RESTART_RSP_SIZE, Rsp1Sizes, TASK_RSP_SIZE, MSGSIZE_RSP1_32BIT, MSGSIZE_RSP1_64BIT
  <2>6. Coming(q)' = Coming(q) \cup {id} /\ Rising(fromBoard'[q], Rsp2Like)
    BY <1>r, <2>1, <2>2, <2>3, <2>4, <2>5, Constants
  <2>7. Chain(Given(q), Taken(q), Kept(q), Coming(q) \cup {id}, {}, Asked(q)')
    BY <1>m, <1>n, <2>1, <2>2, <2>3
  <2>8. Lane(q)'
    BY <1>1, <1>k, <1>n, <2>1, <2>6, <2>7 DEF Outside, Lane
  <2>9. QED
    BY <1>1, <1>k, <1>n, <2>1, <2>3, <2>6, <2>8 DEF Outside, Moves, OnTheWay
<1>7. CASE BoardDown(p) /\ q = p
  <2>1. toBoard'[q] = <<>> /\ Executing(q)' = {} /\ fromBoard' = fromBoard
    BY <1>7 DEF BoardDown, BoardTypeOK, Executing
  <2>2. Asked(q)' = {} /\ Rising(toBoard'[q], Request) /\ Coming(q)' = Coming(q)
    BY <2>1, EmptyStream DEF Asked, Coming
  <2>3. Chain(Given(q), Taken(q), Kept(q), Coming(q), {}, {})
    BY <1>1 DEF Outside, Chain, Below
  <2>4. Lane(q)'
    BY <1>1, <1>k, <2>1, <2>2, <2>3 DEF Outside, Lane
  <2>5. QED
    BY <1>1, <1>k, <2>1, <2>2, <2>4 DEF Outside, Moves, OnTheWay
<1>8. QED
  BY <1>2, <1>3, <1>4, <1>5, <1>6, <1>7

-----------------------------------------------------------------------------
(* Nothing is on its way at first. *)
LEMMA OrderInit == Init => InOrder
<1> SUFFICES ASSUME Init PROVE InOrder
  OBVIOUS
<1>1. Numbered
  BY DEF Init, Numbered
<1>2. ASSUME NEW p \in Procs
      PROVE  /\ Given(p) = {} /\ Taken(p) = {} /\ Kept(p) = {} /\ Coming(p) = {} /\ Executing(p) = {} /\ Asked(p) = {}
             /\ Rising(toBoard[p], Request) /\ Rising(fromBoard[p], Rsp2Like)
  BY EmptyStream DEF Init, Given, Succeeded, Taken, Kept, Coming, Executing, Asked
<1>3. ASSUME NEW p \in Procs PROVE Lane(p) /\ Owned(p)
  BY <1>2 DEF Lane, Chain, Below, Owned, OnTheWay
<1>4. QED
  BY <1>1, <1>3 DEF InOrder

(* Every step keeps the lanes in order. *)
LEMMA OrderStep == Inv /\ InOrder /\ [Next]_vars => InOrder'
<1> SUFFICES ASSUME Inv, InOrder, [Next]_vars PROVE InOrder'
  OBVIOUS
<1>1. /\ Numbered' /\ nextId' \in {nextId, nextId + 1} /\ nextId \in Nat /\ nextId >= 1
      /\ \A p \in Procs, a \in 1 .. nextId - 1 : OwnerIs(a, p) => OwnerIs(a, p)'
      /\ \A p \in Procs, a \in Int : Entering(p) /\ a = nextId => OwnerIs(a, p)'
  BY NumberedStep, UAgentCommandAssumption DEF Inv, InOrder, TypeOK, CallTypeOK
<1>2. ASSUME NEW q \in Procs, Moves(q) PROVE Lane(q)' /\ Owned(q)'
  <2>1. Given(q)' \cup OnTheWay(q)' \subseteq 1 .. nextId - 1 /\ OnTheWay(q)' \subseteq OnTheWay(q)
    BY <1>2 DEF Moves, InOrder, Owned, OnTheWay
  <2>2. Given(q)' \cup OnTheWay(q)' \subseteq 1 .. nextId' - 1
    BY <1>1, <2>1
  <2>3. \A a \in OnTheWay(q)' : OwnerIs(a, q)'
    BY <1>1, <2>1 DEF InOrder, Owned
  <2>4. QED
    BY <1>2, <2>2, <2>3 DEF Moves, Owned
<1>3. ASSUME NEW p \in Procs, ExcuteCmd(p) \/ SetTaskPrio(p) \/ RestartExecuteTask(p) PROVE InOrder'
  <2>1. /\ \A q \in Procs \ {p} : Moves(q)
        /\ Lane(p)' /\ OnTheWay(p)' \subseteq OnTheWay(p) \cup {nextId} /\ Given(p)' \subseteq Given(p)
    BY <1>3, EnterLane
  <2>2. Entering(p) /\ nextId' = nextId + 1
    <3>1. pc = "idle" /\ cur'.proc = p /\ nextId' = nextId + 1
      BY <1>3 DEF ExcuteCmd, SetTaskPrio, RestartExecuteTask, SendAndWaitTask, Enter, NewCall
    <3>2. QED
      BY <1>1, <3>1, EveryStep DEF Proceeding, Entering
  <2>o. Given(p) \cup OnTheWay(p) \subseteq 1 .. nextId - 1 /\ \A a \in OnTheWay(p) : OwnerIs(a, p)
    BY DEF InOrder, Owned
  <2>3. Given(p)' \cup OnTheWay(p)' \subseteq 1 .. nextId' - 1
    <3> SUFFICES ASSUME NEW x \in Given(p)' \cup OnTheWay(p)' PROVE x \in 1 .. nextId' - 1
      OBVIOUS
    <3>1. x \in 1 .. nextId - 1 \/ x = nextId
      BY <2>1, <2>o, Zenon
    <3>2. QED
      BY <1>1, <2>2, <3>1
  <2>4. ASSUME NEW a \in OnTheWay(p)' PROVE OwnerIs(a, p)'
    <3>1. CASE a = nextId
      BY <1>1, <2>2, <3>1
    <3>2. CASE a \in OnTheWay(p)
      <4>1. a \in 1 .. nextId - 1 /\ OwnerIs(a, p)
        BY <2>o, <3>2, Zenon
      <4>2. QED
        BY <1>1, <4>1, Zenon
    <3>3. QED
      BY <2>1, <3>1, <3>2
  <2>5. QED
    BY <1>1, <1>2, <2>1, <2>3, <2>4 DEF InOrder, Owned
<1>4. ASSUME \A q \in Procs : Moves(q) PROVE InOrder'
  BY <1>1, <1>2, <1>4 DEF InOrder
<1>5. CASE UNCHANGED vars
  <2>1. UNCHANGED apiVars /\ UNCHANGED <<maps, fromBoard, running, toBoard>>
    BY <1>5 DEF vars, boardVars
  <2>2. \A q \in Procs : Succeeded' = Succeeded /\ Taken(q)' = Taken(q) /\ Lane(q)
    BY <2>1 DEF InOrder, apiVars, Succeeded, Taken
  <2>3. QED
    BY <1>4, <2>1, <2>2, SameLane DEF maps
<1>6. QED
  BY <1>3, <1>4, <1>5, CallLane, ReceiveLane, BoardLane, UAgentCommandAssumption DEF Next

-----------------------------------------------------------------------------
(* The mapping of the steps. *)

(* What has ended does not change, and a return adds one ending. *)
LEMMA EndedStays ==
    ASSUME returned \subseteq returned', NEW call \in returned
    PROVE  Ended(call)' = Ended(call)
<1>1. (call \in Succeeded)' <=> call \in Succeeded
  BY DEF Succeeded
<1>2. Outcome(call)' = Outcome(call)
  BY <1>1 DEF Outcome
<1>3. QED
  BY <1>2 DEF Ended

(* A return adds its own ending. *)
LEMMA EndedReturn ==
    ASSUME NEW call, NEW code, NEW answer, NEW rsp1, Return(call, code, answer, rsp1)
    PROVE  \E outcome \in {"answered", "closed", "open"} :
              /\ outcome = "answered" <=> call.op = "exec" /\ code = TESTCASE_SUCCESS
              /\ {Ended(c) : c \in returned}' = {Ended(c) : c \in returned} \cup
                     {[id |-> call.id, proc |-> call.proc, outcome |-> outcome, answer |-> answer]}
<1> DEFINE record == [id |-> call.id, proc |-> call.proc, op |-> call.op,
                      code |-> code, answer |-> answer, rsp1 |-> rsp1]
<1>1. returned' = returned \cup {record}
  BY DEF Return
<1>2. /\ record.id = call.id /\ record.proc = call.proc /\ record.op = call.op
      /\ record.code = code /\ record.answer = answer
  OBVIOUS
<1> HIDE DEF record
<1>3. \A c \in returned : Ended(c)' = Ended(c)
  BY <1>1, EndedStays
<1>4. {Ended(c) : c \in returned}' = {Ended(c) : c \in returned} \cup {Ended(record)'}
  BY <1>1, <1>3
<1>5. PICK outcome : outcome = Outcome(record)'
  OBVIOUS
<1>6. Ended(record)' = [id |-> call.id, proc |-> call.proc, outcome |-> outcome, answer |-> answer]
  BY <1>2, <1>5 DEF Ended
<1>7. (record \in Succeeded)' <=> call.op = "exec" /\ code = TESTCASE_SUCCESS
  BY <1>1, <1>2 DEF Succeeded
<1>8. outcome \in {"answered", "closed", "open"} /\ (outcome = "answered" <=> (record \in Succeeded)')
  BY <1>5 DEF Outcome
<1>9. QED
  BY <1>4, <1>6, <1>7, <1>8

(* The initial states. *)
LEMMA InitService == Init => Service!Init
BY DEF Init, Service!Init, Service!NoCall

(* The answer a command is about to report is one the service allows. *)
LEMMA AnswerAllowed ==
    ASSUME Inv, InOrder, pc = "erase2"
    PROVE  retVal \in Service!Candidates([id |-> cur.id, proc |-> cur.proc])
<1> USE DEF Inv, TypeOK
<1> DEFINE call == [id |-> cur.id, proc |-> cur.proc]
<1>1. cur.proc \in Procs /\ cur.id = nextId - 1 /\ retVal \in Taken(cur.proc) /\ nextId \in Nat
  BY UAgentCommandAssumption DEF InOrder, Numbered, Taken, CallTypeOK
<1>2. retVal \in 1 .. cur.id /\ OwnerIs(retVal, cur.proc)
  BY <1>1 DEF InOrder, Owned, OnTheWay
<1>3. \A a \in Given(cur.proc) : a < retVal
  BY <1>1 DEF InOrder, Lane, Chain, Below
<1>4. \A d \in {Ended(c) : c \in returned} : d.id = retVal => d.proc = cur.proc
  BY <1>2 DEF OwnerIs, Ended
<1>5. ASSUME NEW d \in {Ended(c) : c \in returned}, d.proc = cur.proc, d.outcome = "answered"
      PROVE  d.answer < retVal
  <2>1. PICK c \in returned : d = Ended(c)
    BY <1>5
  <2>2. c.proc = cur.proc /\ d.answer = c.answer /\ Outcome(c) = "answered"
    BY <1>5, <2>1 DEF Ended
  <2>3. c \in Succeeded
    BY <2>2 DEF Outcome
  <2>4. QED
    BY <1>3, <2>2, <2>3 DEF Given
<1>6. ASSUME \A d \in {Ended(c) : c \in returned} : d.outcome # "open" PROVE retVal = cur.id
  <2>1. AllSettled
    <3> SUFFICES ASSUME NEW c \in returned, ~Settled(c) PROVE FALSE
      BY DEF AllSettled
    <3>1. c \notin Succeeded
      BY DEF Settled, Succeeded
    <3>2. Outcome(c) = "open"
      BY <3>1 DEF Outcome
    <3>3. Ended(c).outcome = "open"
      BY <3>2 DEF Ended
    <3>4. QED
      BY <1>6, <3>3, Zenon
  <2>2. QED
    BY <2>1 DEF IInv, CallProgress, ErasingRsp2
<1>7. QED
  BY <1>2, <1>4, <1>5, <1>6 DEF Service!Candidates, Service!Earlier

(* A return inside a call is the service's Finish. *)
LEMMA FinishAllowed ==
    ASSUME Inv, InOrder, pc # "idle", NEW code, NEW answer, NEW rsp1, Return(cur, code, answer, rsp1), nextId' = nextId,
           IF cur.op = "exec" /\ code = TESTCASE_SUCCESS THEN pc = "erase2" /\ answer = retVal ELSE answer = 0
    PROVE  Service!Finish
<1> DEFINE call == [id |-> cur.id, proc |-> cur.proc]
           Done == {Ended(c) : c \in returned}
<1>1. cur.id # 0
  BY Constants DEF Inv, TypeOK, CallTypeOK
<1>2. call # [id |-> 0]
  <2>1. call.id # 0
    BY <1>1
  <2>2. QED
    BY <2>1
<1>3. pc' = "idle"
  BY DEF Return
<1>4. PICK outcome \in {"answered", "closed", "open"} :
        /\ outcome = "answered" <=> cur.op = "exec" /\ code = TESTCASE_SUCCESS
        /\ Done' = Done \cup {[id |-> cur.id, proc |-> cur.proc, outcome |-> outcome, answer |-> answer]}
  BY EndedReturn
<1>5. call.id = cur.id /\ call.proc = cur.proc
  OBVIOUS
<1> HIDE DEF Done
<1>6. CASE outcome = "answered"
  <2>1. pc = "erase2" /\ answer = retVal
    BY <1>4, <1>6
  <2>2. retVal \in Service!Candidates(call)
    BY <2>1, AnswerAllowed
  <2>3. \E a \in Service!Candidates(call) :
           Done' = Done \cup {[id |-> call.id, proc |-> call.proc, outcome |-> "answered", answer |-> a]}
    BY <1>4, <1>5, <1>6, <2>1, <2>2
  <2>4. QED
    BY <1>2, <1>3, <2>3 DEF Service!Finish, Service!EndedAs, Service!NoCall, Done
<1>7. CASE outcome # "answered"
  <2>1. answer = 0 /\ outcome \in {"closed", "open"}
    BY <1>4, <1>7
  <2>2. \E o \in {"closed", "open"} :
           Done' = Done \cup {[id |-> call.id, proc |-> call.proc, outcome |-> o, answer |-> 0]}
    BY <1>4, <1>5, <2>1
  <2>3. QED
    BY <1>2, <1>3, <2>2 DEF Service!Finish, Service!EndedAs, Service!NoCall, Done
<1>8. QED
  BY <1>6, <1>7

(* Every step is one of the service or changes nothing the service sees. *)
LEMMA StepService == ASSUME Inv, InOrder, [Next]_vars PROVE [Service!Next]_(Service!serviceVars)
<1> USE DEF Inv, TypeOK
<1>1. ASSUME NEW p \in Procs, NEW op, Enter(p, op), pc' # "idle", returned' = returned PROVE Service!Begin(p)
  <2>1. /\ pc = "idle" /\ nextId - 1 < MaxCalls /\ nextId' - 1 = (nextId - 1) + 1 /\ (nextId - 1) + 1 = nextId
    BY <1>1, UAgentCommandAssumption DEF Enter, CallTypeOK
  <2>2. cur'.id = nextId /\ cur'.proc = p
    BY <1>1 DEF Enter, NewCall
  <2>3. {Ended(c) : c \in returned}' = {Ended(c) : c \in returned}
    BY <1>1, EndedStays
  <2>4. QED
    BY <1>1, <2>1, <2>2, <2>3 DEF Service!Begin, Service!NoCall
<1>2. ASSUME NEW p \in Procs, ExcuteCmd(p) PROVE Service!Next
  BY <1>1, <1>2 DEF ExcuteCmd, Service!Next
<1>3. ASSUME NEW p \in Procs, NEW op \in {"prio", "restart"}, NEW size, SendAndWaitTask(p, op, size) PROVE Service!Next
  <2>1. Enter(p, op)
    BY <1>3 DEF SendAndWaitTask
  <2>2. CASE pc' = "task" /\ returned' = returned
    BY <1>1, <2>1, <2>2 DEF Service!Next
  <2>3. CASE Return(NewCall(p, op), TESTCASE_FAIL, 0, RSP1_OK)
    <3>1. /\ pc = "idle" /\ pc' = "idle" /\ nextId - 1 < MaxCalls /\ nextId' - 1 = (nextId - 1) + 1
          /\ (nextId - 1) + 1 = nextId
      BY <2>1, <2>3, UAgentCommandAssumption DEF Enter, Return, CallTypeOK
    <3>2. NewCall(p, op).id = nextId /\ NewCall(p, op).proc = p /\ NewCall(p, op).op # "exec"
      BY DEF NewCall
    <3>3. PICK outcome \in {"closed", "open"} :
             {Ended(c) : c \in returned}' = {Ended(c) : c \in returned} \cup
                 {[id |-> nextId, proc |-> p, outcome |-> outcome, answer |-> 0]}
      BY <2>3, <3>2, EndedReturn
    <3>4. Service!Fail(p)
      BY <3>1, <3>3 DEF Service!Fail, Service!NoCall, Service!EndedAs
    <3>5. QED
      BY <3>4 DEF Service!Next
  <2>4. QED
    BY <1>3, <2>2, <2>3 DEF SendAndWaitTask
<1>4. ASSUME CallStep, ~(pc' # "idle" /\ returned' = returned) PROVE Service!Finish
  <2>1. pc # "idle" /\ nextId' = nextId
    BY <1>4 DEF CallStep, Rsp1Timeout, TakeRsp1, EraseRsp1, Rsp2Timeout, TakeRsp2, EraseRsp2, TaskTimeout, TakeTask
  <2>2. PICK code, answer :
           /\ Return(cur, code, answer, rsp1Local)
           /\ IF cur.op = "exec" /\ code = TESTCASE_SUCCESS THEN pc = "erase2" /\ answer = retVal ELSE answer = 0
    <3>1. CASE EraseRsp2
      BY <3>1 DEF EraseRsp2, CallKinds
    <3>2. CASE TakeTask
      BY <3>2 DEF TakeTask, CallKinds
    <3>3. CASE ~EraseRsp2 /\ ~TakeTask
      <4>1. PICK code \in {ECMD_RSP1_TIMEOUT_ERROR, ECMD_RSP2_TIMEOUT_ERROR, ECMD_CTRL_RSP_TIMEOUT_ERROR, TESTCASE_FAIL,
                           ECMD_RSP1_NO_SYMBOL_ERROR, ECMD_TASK_BUSY} : Return(cur, code, 0, rsp1Local)
        BY <1>4, <3>3 DEF CallStep, Rsp1Timeout, TakeRsp1, EraseRsp1, Rsp2Timeout, TakeRsp2, TaskTimeout
      <4>2. code # TESTCASE_SUCCESS
        BY DEF ECMD_RSP1_TIMEOUT_ERROR, ECMD_RSP2_TIMEOUT_ERROR, ECMD_CTRL_RSP_TIMEOUT_ERROR, TESTCASE_FAIL,
           ECMD_RSP1_NO_SYMBOL_ERROR, ECMD_TASK_BUSY, TESTCASE_SUCCESS
      <4>3. QED
        BY <4>1, <4>2
    <3>4. QED
      BY <3>1, <3>2, <3>3
  <2>3. QED
    BY <2>1, <2>2, FinishAllowed
<1>5. ASSUME pc' = pc \/ (pc # "idle" /\ pc' # "idle"), cur' = cur, nextId' = nextId, returned' = returned
      PROVE  UNCHANGED Service!serviceVars
  <2>1. {Ended(c) : c \in returned}' = {Ended(c) : c \in returned}
    BY <1>5, EndedStays
  <2>2. QED
    BY <1>5, <2>1 DEF Service!serviceVars
<1>6. CASE CallStep
  <2>1. CASE pc' # "idle" /\ returned' = returned
    BY <1>5, <1>6, <2>1 DEF CallStep, Rsp1Timeout, TakeRsp1, EraseRsp1, Rsp2Timeout, TakeRsp2, EraseRsp2, TaskTimeout,
       TakeTask
  <2>2. QED
    BY <1>4, <1>6, <2>1 DEF Service!Next
<1>7. ASSUME UNCHANGED apiVars PROVE UNCHANGED Service!serviceVars
  BY <1>5, <1>7 DEF apiVars
<1>8. ASSUME NEW p \in Procs, DealMsg(p) \/ SetRsp1Event \/ SetRsp2Event PROVE UNCHANGED apiVars
  BY <1>8 DEF DealMsg, SetRsp1Event, SetRsp2Event
<1>9. ASSUME NEW p \in Procs,
             BoardExecute(p) \/ BoardFinish(p) \/ BoardSetPrio(p) \/ BoardRestart(p) \/ BoardDown(p)
      PROVE  UNCHANGED apiVars
  BY <1>9 DEF BoardExecute, BoardFinish, BoardSetPrio, BoardRestart, BoardDown
<1>10. UNCHANGED vars => UNCHANGED apiVars
  BY DEF vars
<1>11. QED
  BY <1>2, <1>3, <1>6, <1>7, <1>8, <1>9, <1>10, UAgentCommandAssumption DEF Next, SetTaskPrio, RestartExecuteTask

(* The two threads, the shared events, the maps and the boards implement    *)
(* CommandService, also once calls have been left open: the answers of a    *)
(* board are handed out in the order of its requests, each at most once,    *)
(* and while no call is open the answer is the call's own.                  *)
THEOREM ImplementsTheService == Spec => ImplementsService
<1>1. Init => Inv /\ InOrder /\ Service!Init
  BY InvInit, OrderInit, InitService
<1>2. (Inv /\ InOrder) /\ [Next]_vars => (Inv /\ InOrder)'
  BY InvStep, OrderStep
<1>3. (Inv /\ InOrder) /\ [Next]_vars => [Service!Next]_(Service!serviceVars)
  BY StepService
<1>4. QED
  BY <1>1, <1>2, <1>3, PTL DEF Spec, ImplementsService, Service!Spec

=============================================================================
