--------------------------- MODULE UAgentRegistry ---------------------------
(***************************************************************************)
(* Registration of processors in TestCaseLib (CWorkManager): the test      *)
(* thread registers, unregisters and addresses processors by name, the     *)
(* receive thread selects on the sockets of all of them and hands what it  *)
(* receives to the packet model of the processor's name.                   *)
(*                                                                         *)
(* The critical section m_cs is taken by UnRegisterProc and by the receive *)
(* thread only; registration and SendMsg write m_NameAddrMap without it.   *)
(* Each step below is what happens between two points where the other      *)
(* thread can be observed; a step under m_cs is one step.                  *)
(***************************************************************************)
EXTENDS Integers, Sequences

CONSTANTS
    Names,      \* processor names
    Addrs,      \* addresses, pairs of IP and pid, that name a board
    Echoing,    \* the addresses whose boards also send the LOGON_REQ back
    Socks,      \* socket handle values
    Reuse,      \* may the system hand out a handle value again
    MaxCalls,   \* bound: API calls in a behaviour
    MaxOutages  \* bound: connections that boards close in a behaviour

ASSUME UAgentRegistryAssumption ==
    /\ Names # {} /\ Addrs # {} /\ Socks # {}
    /\ Echoing \subseteq Addrs
    /\ Reuse \in BOOLEAN
    /\ MaxCalls \in Nat /\ MaxOutages \in Nat

TESTCASE_SUCCESS            == 0
TESTCASE_FAIL               == -1
REGISTER_CONNECT_FAIL       == -1
REGISTER_INUSE_FAIL         == -2   \* REGISTER_NAMEINUSE_FAIL and REGISTER_IPINUSE_FAIL
ECMD_NOT_REGISTERED_ERROR   == -2
ECMD_RSP1_TIMEOUT_ERROR     == -3
ECMD_CTRL_RSP_TIMEOUT_ERROR == -7

(* What a CSockInfo of no Register call holds: an empty IP, pid -1 and,     *)
(* since its constructor leaves sock unset, any handle value.               *)
NoAddr     == "no address"
NotASocket == "not a socket"
NoEntry    == [addr |-> NoAddr, sock |-> "none"]

\* They are none of the addresses and handles there are.
ASSUME UAgentRegistryValues ==
    NoAddr \notin Addrs /\ NotASocket \notin Socks /\ NoEntry.sock \notin Socks

NoCall     == [op |-> "none"]
NoMessage  == [name |-> "none"]
Entry      == [addr : Addrs \cup {NoAddr}, sock : Socks \cup {NotASocket}]

Waits  == <<"wait1", "wait2", "wait3", "wait4">>    \* LOGON and three SERVICE requests
WaitNo(p) == CHOOSE k \in 1 .. 4 : Waits[k] = p
APIStates == {"idle", "connect", "insert", "model", "unreg", "eraseModel", "cmd"}
                \cup {Waits[k] : k \in 1 .. 4}

VARIABLES
    pc, cur,            \* the test thread and the call it is in
    made,               \* bound counter: API calls made
    last,               \* history: the call that has returned last
    clean,              \* history: can no signal of an earlier call be outstanding
    m_NameAddrMap,      \* name -> address and socket
    m_NameDataMap,      \* the names that have a packet model
    m_hSigRspEvent,     \* the auto-reset event of all control answers
    rcv,                \* where the receive thread is; it holds m_cs in "deal" and "dealing"
    readfds,            \* its fd_set
    todo,               \* names its loop under m_cs has yet to visit
    dealt,              \* the name and the message DealRecvBuff is at
    reopened,           \* history: handles in select's answer handed out again since
    sockState, peer,    \* sockets: "closed", "open" or "eof", and the board connected to
    used,               \* handle values that have been handed out
    requests, answers,  \* the TCP streams of a socket
    served,             \* how many of the four registration requests the board handled
    outages             \* bound counter: connections closed by boards

apiVars  == <<pc, cur, made, last, clean>>
maps     == <<m_NameAddrMap, m_NameDataMap>>
rcvVars  == <<rcv, readfds, todo, dealt, reopened>>
links    == <<sockState, peer, used, outages>>
sockVars == <<links, requests, answers, served>>
vars == <<apiVars, maps, m_hSigRspEvent, rcvVars, sockVars>>

Ops   == {"register", "unregister", "command"}
Call  == [op : Ops, name : Names, addr : Addrs \cup {NoAddr}, sock : Socks \cup {NotASocket}, known : BOOLEAN, clean : BOOLEAN]
Codes == {TESTCASE_SUCCESS, TESTCASE_FAIL, REGISTER_INUSE_FAIL, ECMD_RSP1_TIMEOUT_ERROR,
          ECMD_CTRL_RSP_TIMEOUT_ERROR}

(* The state of the two threads, the maps and the sockets is in range.      *)
TypeOK ==
    /\ pc \in APIStates /\ cur \in Call \cup {NoCall} /\ made \in 0 .. MaxCalls /\ clean \in BOOLEAN
    /\ last \in [call : Call, code : Codes, served : 0 .. 4] \cup {NoCall}
    /\ m_NameAddrMap \in [Names -> Entry \cup {NoEntry}]
    /\ m_NameDataMap \subseteq Names
    /\ m_hSigRspEvent \in BOOLEAN
    /\ rcv \in {"snapshot", "select", "lock", "deal", "dealing"}
    /\ readfds \subseteq Socks \cup {NotASocket}
    /\ todo \subseteq Names
    /\ dealt \in [name : Names, msg : {"sig", "data"}] \cup {NoMessage}
    /\ reopened \subseteq Socks
    /\ sockState \in [Socks -> {"closed", "open", "eof"}]
    /\ peer \in [Socks -> Addrs \cup {NoAddr}]
    /\ used \subseteq Socks
    /\ requests \in [Socks -> Seq({"logon", "service", "command"})]
    /\ answers \in [Socks -> Seq({"sig", "data"})]
    /\ served \in [Socks -> 0 .. 4]
    /\ outages \in 0 .. MaxOutages

Init ==
    /\ pc = "idle" /\ made = 0 /\ last = NoCall /\ clean = TRUE
    /\ cur = NoCall
    /\ m_NameAddrMap = [n \in Names |-> NoEntry] /\ m_NameDataMap = {}
    /\ m_hSigRspEvent = FALSE
    /\ rcv = "snapshot" /\ readfds = {} /\ todo = {}
    /\ dealt = NoMessage /\ reopened = {}
    /\ sockState = [s \in Socks |-> "closed"] /\ peer = [s \in Socks |-> NoAddr]
    /\ used = {}
    /\ requests = [s \in Socks |-> <<>>] /\ answers = [s \in Socks |-> <<>>]
    /\ served = [s \in Socks |-> 0] /\ outages = 0

InMap(n) == m_NameAddrMap[n] # NoEntry
IsReal(n) == InMap(n) /\ m_NameAddrMap[n].addr # NoAddr

-----------------------------------------------------------------------------
(* The test thread *)

NewCall(op, n, a) ==
    [op |-> op, name |-> n, addr |-> a, sock |-> NotASocket, known |-> IsReal(n), clean |-> clean]
Enter == pc = "idle" /\ made < MaxCalls /\ made' = made + 1
Begin(call, p) == pc' = p /\ cur' = call /\ UNCHANGED last

Return(call, code, handled) ==
    /\ pc' = "idle" /\ cur' = NoCall
    /\ last' = [call |-> call, code |-> code, served |-> handled]

(* SendMsg on the socket the map holds for the name.  What it returns is    *)
(* ignored by every caller here.                                            *)
SendMsg(s, msg) ==
    requests' = IF s \in Socks /\ sockState[s] = "open"
                THEN [requests EXCEPT ![s] = Append(@, msg)] ELSE requests

(* m_NameAddrMap[name] = ... without m_cs: if the receive thread is in its  *)
(* loop over the map it may or may not come to the new entry.               *)
InsertEntry(n, e) ==
    /\ m_NameAddrMap' = [m_NameAddrMap EXCEPT ![n] = e]
    /\ IF rcv \in {"deal", "dealing"} THEN todo' \in {todo, todo \cup {n}} ELSE UNCHANGED todo

AddrAlreadyInUse(a) == \E n \in Names : InMap(n) /\ m_NameAddrMap[n].addr = a
IsInfoMatch(n, a)   == InMap(n) /\ m_NameAddrMap[n].addr = a

(* An address is what SetPid stores: no pid below -1.  What becomes of such *)
(* a pid, which is compared as it is passed, is a matter of UAgentSession.  *)
RegisterProc(n, a) ==
    /\ Enter
    /\ IF InMap(n) \/ AddrAlreadyInUse(a)
       THEN Return(NewCall("register", n, a), REGISTER_INUSE_FAIL, 0)
       ELSE Begin(NewCall("register", n, a), "connect")
    /\ UNCHANGED <<clean, maps, m_hSigRspEvent, rcvVars, sockVars>>

(* ClientConnect, in one step each: its ports and its retries are the       *)
(* subject of UAgentConnect.                                                *)
ConnectFails ==
    /\ pc = "connect"
    /\ Return(cur, REGISTER_CONNECT_FAIL, 0)
    /\ UNCHANGED <<made, clean, maps, m_hSigRspEvent, rcvVars, sockVars>>

Connected(s) ==
    /\ pc = "connect" /\ pc' = "insert"
    /\ sockState[s] = "closed" /\ (s \in used => Reuse)
    /\ used' = used \cup {s}
    /\ sockState' = [sockState EXCEPT ![s] = "open"]
    /\ peer' = [peer EXCEPT ![s] = cur.addr]
    /\ cur' = [cur EXCEPT !.sock = s]
    /\ reopened' = IF rcv \in {"lock", "deal", "dealing"} THEN reopened \cup ({s} \cap readfds) ELSE reopened
    /\ UNCHANGED <<made, last, clean, maps, m_hSigRspEvent, rcv, readfds, todo, dealt>>
    /\ UNCHANGED <<outages, requests, answers, served>>

InsertAddr ==
    /\ pc = "insert" /\ pc' = "model"
    /\ InsertEntry(cur.name, [addr |-> cur.addr, sock |-> cur.sock])
    /\ UNCHANGED <<cur, made, last, clean, m_NameDataMap, m_hSigRspEvent, rcv, readfds, dealt, reopened, sockVars>>

(* Faulty variant: the request is sent before the packet model exists.      *)
BugLogOnFirst ==
    /\ pc = "model"
    /\ IF requests[cur.sock] = <<>> /\ served[cur.sock] = 0 /\ sockState[cur.sock] = "open"
       THEN SendMsg(cur.sock, "logon") /\ UNCHANGED <<pc, m_NameDataMap, clean>>
       ELSE /\ pc' = "wait1" /\ UNCHANGED requests
            /\ m_NameDataMap' = m_NameDataMap \cup {cur.name}
            /\ clean' = (clean /\ cur.addr \notin Echoing)
    /\ UNCHANGED <<cur, made, last, m_NameAddrMap, m_hSigRspEvent, rcvVars, links, answers, served>>

(* The packet model, then SendMsg_LogOn.  An echoing board sends one signal *)
(* more than the four this call waits for.                                  *)
InsertModel ==
    /\ pc = "model" /\ pc' = "wait1"
    /\ m_NameDataMap' = m_NameDataMap \cup {cur.name}
    /\ SendMsg(cur.sock, "logon")
    /\ clean' = (clean /\ cur.addr \notin Echoing)
    /\ UNCHANGED <<cur, made, last, m_NameAddrMap, m_hSigRspEvent, rcvVars, links, answers, served>>

(* Faulty variants: a manual-reset event, a wait without timeout, and the   *)
(* code for a failed control signal on a timeout.                           *)
BugSigManualReset ==
    /\ pc \in {Waits[k] : k \in 1 .. 4} /\ m_hSigRspEvent
    /\ IF pc = Waits[4]
       THEN Return(cur, TESTCASE_SUCCESS, served[cur.sock]) /\ UNCHANGED requests
       ELSE Begin(cur, Waits[WaitNo(pc) + 1]) /\ SendMsg(cur.sock, "service")
    /\ UNCHANGED <<made, clean, maps, m_hSigRspEvent, rcvVars, links, answers, served>>
BugSigInfinite == FALSE

(* A wait on m_hSigRspEvent succeeds: the next SERVICE request, or success. *)
SigSignalled ==
    /\ pc \in {Waits[k] : k \in 1 .. 4} /\ m_hSigRspEvent
    /\ m_hSigRspEvent' = FALSE
    /\ IF pc = Waits[4]
       THEN Return(cur, TESTCASE_SUCCESS, served[cur.sock]) /\ UNCHANGED requests
       ELSE Begin(cur, Waits[WaitNo(pc) + 1]) /\ SendMsg(cur.sock, "service")
    /\ UNCHANGED <<made, clean, maps, rcvVars, links, answers, served>>

(* It times out: the name stays registered and its socket connected.        *)
SigTimeout ==
    /\ pc \in {Waits[k] : k \in 1 .. 4} /\ ~m_hSigRspEvent
    /\ Return(cur, ECMD_CTRL_RSP_TIMEOUT_ERROR, served[cur.sock])
    /\ clean' = FALSE
    /\ UNCHANGED <<made, maps, m_hSigRspEvent, rcvVars, sockVars>>

UnRegisterProc(n, a) ==
    /\ Enter /\ Begin(NewCall("unregister", n, a), "unreg")
    /\ UNCHANGED <<clean, maps, m_hSigRspEvent, rcvVars, sockVars>>

(* ClientClose: closesocket drops what the streams still hold.              *)
ClientClose(s) ==
    /\ sockState' = [sockState EXCEPT ![s] = "closed"] /\ peer' = [peer EXCEPT ![s] = NoAddr]
    /\ requests' = [requests EXCEPT ![s] = <<>>]
    /\ answers' = [answers EXCEPT ![s] = <<>>]
    /\ served' = [served EXCEPT ![s] = 0]

CloseAndErase(s) ==
    /\ ClientClose(s)
    /\ m_NameAddrMap' = [m_NameAddrMap EXCEPT ![cur.name] = NoEntry]
    /\ Begin(cur, "eraseModel")

(* Faulty variants: the section without m_cs around it, and the local of    *)
(* the call closed instead of the socket of the name.                       *)
UnRegisterSection(guard, s) ==
    /\ pc = "unreg" /\ guard
    /\ IF IsInfoMatch(cur.name, cur.addr)
       THEN CloseAndErase(s)
       ELSE /\ Return(cur, IF InMap(cur.name) THEN TESTCASE_FAIL ELSE TESTCASE_SUCCESS, 0)
            /\ UNCHANGED <<m_NameAddrMap, sockState, peer, requests, answers, served>>
    /\ UNCHANGED <<made, clean, m_NameDataMap, m_hSigRspEvent, rcvVars, used, outages>>
BugNoLock     == UnRegisterSection(TRUE, m_NameAddrMap[cur.name].sock)
BugWrongClose == UnRegisterSection(rcv \notin {"deal", "dealing"}, cur.sock)

(* The section under m_cs: find, compare the address, close, erase.         *)
UnRegisterLocked ==
    /\ pc = "unreg" /\ rcv \notin {"deal", "dealing"}
    /\ IF IsInfoMatch(cur.name, cur.addr)
       THEN CloseAndErase(m_NameAddrMap[cur.name].sock)
       ELSE /\ Return(cur, IF InMap(cur.name) THEN TESTCASE_FAIL ELSE TESTCASE_SUCCESS, 0)
            /\ UNCHANGED <<m_NameAddrMap, sockState, peer, requests, answers, served>>
    /\ UNCHANGED <<made, clean, m_NameDataMap, m_hSigRspEvent, rcvVars, used, outages>>

(* After m_cs is released: the packet model goes. *)
EraseModel ==
    /\ pc = "eraseModel"
    /\ m_NameDataMap' = m_NameDataMap \ {cur.name}
    /\ Return(cur, IF cur.name \in m_NameDataMap THEN TESTCASE_SUCCESS ELSE TESTCASE_FAIL, 0)
    /\ UNCHANGED <<made, clean, m_NameAddrMap, m_hSigRspEvent, rcvVars, sockVars>>

(* ExcuteCmd and every other call that only sends: m_NameAddrMap[name] in   *)
(* SendMsg makes an entry for a name that has none.  What happens to the    *)
(* command itself is the subject of UAgentCommand.                          *)
Command(n) ==
    /\ Enter /\ Begin(NewCall("command", n, NoAddr), "cmd")
    /\ IF InMap(n)
       THEN SendMsg(m_NameAddrMap[n].sock, "command") /\ UNCHANGED <<m_NameAddrMap, todo>>
       ELSE \E s \in Socks \cup {NotASocket} :
                InsertEntry(n, [addr |-> NoAddr, sock |-> s]) /\ SendMsg(s, "command")
    /\ UNCHANGED <<clean, m_NameDataMap, m_hSigRspEvent, rcv, readfds, dealt, reopened, links, answers, served>>

CommandReturns ==
    /\ pc = "cmd"
    /\ \E code \in {TESTCASE_SUCCESS, TESTCASE_FAIL, ECMD_RSP1_TIMEOUT_ERROR} :
           /\ code = TESTCASE_SUCCESS => cur.known
           /\ Return(cur, code, 0)
    /\ UNCHANGED <<made, clean, maps, m_hSigRspEvent, rcvVars, sockVars>>

CallStep == \/ ConnectFails \/ (\E s \in Socks : Connected(s)) \/ InsertAddr \/ InsertModel
            \/ SigSignalled \/ SigTimeout \/ EraseModel \/ CommandReturns

-----------------------------------------------------------------------------
(* The receive thread, RecvMsg *)

Snapshot ==
    /\ rcv = "snapshot" /\ rcv' = "select"
    /\ readfds' = {m_NameAddrMap[n].sock : n \in {m \in Names : InMap(m)}}
    /\ UNCHANGED <<apiVars, maps, m_hSigRspEvent, todo, dealt, reopened, sockVars>>

IsOpen(s) == s \in Socks /\ sockState[s] # "closed"
Ready(s)  == sockState[s] = "eof" \/ answers[s] # <<>>

(* Faulty variant: the fd_set is built once. *)
BugFdSetOnce ==
    /\ rcv = "select"
    /\ (\A s \in readfds : IsOpen(s)) => (\A s \in readfds : ~Ready(s))
    /\ readfds' = {}
    /\ UNCHANGED <<rcv, apiVars, maps, m_hSigRspEvent, todo, dealt, reopened, sockVars>>

(* An fd_set with a handle that is no open socket fails as a whole; so does *)
(* an empty one.  A timeout comes back to the snapshot as well.             *)
SelectFails ==
    /\ rcv = "select" /\ rcv' = "snapshot"
    /\ (\A s \in readfds : IsOpen(s)) => (\A s \in readfds : ~Ready(s))
    /\ readfds' = {}
    /\ UNCHANGED <<apiVars, maps, m_hSigRspEvent, todo, dealt, reopened, sockVars>>

SelectReady ==
    /\ rcv = "select" /\ rcv' = "lock"
    /\ \A s \in readfds : IsOpen(s)
    /\ readfds' = {s \in readfds : Ready(s)}
    /\ readfds' # {}
    /\ UNCHANGED <<apiVars, maps, m_hSigRspEvent, todo, dealt, reopened, sockVars>>

EnterDealLoop ==
    /\ rcv = "lock" /\ rcv' = "deal"
    /\ todo' = {n \in Names : InMap(n)}
    /\ UNCHANGED <<apiVars, maps, m_hSigRspEvent, readfds, dealt, reopened, sockVars>>

(* Faulty variant: a socket is read until it has nothing left. *)
BugDrain(n) ==
    /\ rcv = "deal" /\ n \in todo
    /\ LET s == m_NameAddrMap[n].sock
       IN  IF s \notin readfds
           THEN todo' = todo \ {n} /\ UNCHANGED <<rcv, dealt, answers>>
           ELSE /\ s \in Socks /\ (Ready(s) \/ sockState[s] = "closed")
                /\ IF answers[s] = <<>>
                   THEN todo' = todo \ {n} /\ UNCHANGED <<rcv, dealt, answers>>
                   ELSE /\ answers' = [answers EXCEPT ![s] = Tail(@)]
                        /\ UNCHANGED todo
                        /\ IF n \in m_NameDataMap
                           THEN rcv' = "dealing" /\ dealt' = [name |-> n, msg |-> Head(answers[s])]
                           ELSE UNCHANGED <<rcv, dealt>>
    /\ UNCHANGED <<apiVars, maps, m_hSigRspEvent, readfds, reopened, links, requests, served>>

(* The next entry.  recv blocks while the socket has nothing to give; what  *)
(* it gives goes to the packet model of the name, or is dropped as Unknown. *)
RecvAndFind(n) ==
    /\ rcv = "deal" /\ n \in todo
    /\ todo' = todo \ {n}
    /\ LET s == m_NameAddrMap[n].sock
       IN  IF s \notin readfds
           THEN UNCHANGED <<rcv, dealt, answers>>
           ELSE /\ s \in Socks /\ (Ready(s) \/ sockState[s] = "closed")
                /\ IF answers[s] = <<>>
                   THEN UNCHANGED <<rcv, dealt, answers>>
                   ELSE /\ answers' = [answers EXCEPT ![s] = Tail(@)]
                        /\ IF n \in m_NameDataMap
                           THEN rcv' = "dealing" /\ dealt' = [name |-> n, msg |-> Head(answers[s])]
                           ELSE UNCHANGED <<rcv, dealt>>
    /\ UNCHANGED <<apiVars, maps, m_hSigRspEvent, readfds, reopened, links, requests, served>>

(* DealMsg through the iterator found before, then ResetModel. *)
DealMsg ==
    /\ rcv = "dealing" /\ rcv' = "deal"
    /\ m_hSigRspEvent' = (m_hSigRspEvent \/ dealt.msg = "sig")
    /\ dealt' = NoMessage
    /\ UNCHANGED <<apiVars, maps, readfds, todo, reopened, sockVars>>

LeaveDealLoop ==
    /\ rcv = "deal" /\ todo = {} /\ rcv' = "snapshot"
    /\ readfds' = {} /\ reopened' = {}
    /\ UNCHANGED <<apiVars, maps, m_hSigRspEvent, todo, dealt, sockVars>>

ReceiveStep == \/ Snapshot \/ SelectFails \/ SelectReady \/ EnterDealLoop
               \/ (\E n \in Names : RecvAndFind(n)) \/ DealMsg \/ LeaveDealLoop

-----------------------------------------------------------------------------
(* The boards, external: one signal per registration request, in order; an  *)
(* echoing board answers LOGON twice.  A command gets an answer.            *)
AnswersTo(s, msg) ==
    CASE msg = "command" -> <<"data">>
      [] msg = "logon" /\ peer[s] \in Echoing -> <<"sig", "sig">>
      [] OTHER -> <<"sig">>

BoardAnswers(s) ==
    /\ sockState[s] = "open" /\ requests[s] # <<>>
    /\ requests' = [requests EXCEPT ![s] = Tail(@)]
    /\ answers' = [answers EXCEPT ![s] = @ \o AnswersTo(s, Head(requests[s]))]
    /\ served' = IF Head(requests[s]) = "command" THEN served ELSE [served EXCEPT ![s] = @ + 1]
    /\ UNCHANGED <<apiVars, maps, m_hSigRspEvent, rcvVars, links>>

(* The board closes the connection or reboots. *)
BoardCloses(s) ==
    /\ sockState[s] = "open" /\ outages < MaxOutages
    /\ outages' = outages + 1
    /\ sockState' = [sockState EXCEPT ![s] = "eof"]
    /\ requests' = [requests EXCEPT ![s] = <<>>]
    /\ UNCHANGED <<apiVars, maps, m_hSigRspEvent, rcvVars, peer, used, answers, served>>

-----------------------------------------------------------------------------
Next ==
    \/ \E n \in Names : \/ \E a \in Addrs : RegisterProc(n, a) \/ UnRegisterProc(n, a)
                        \/ Command(n)
    \/ CallStep \/ UnRegisterLocked
    \/ ReceiveStep
    \/ \E s \in Socks : BoardAnswers(s) \/ BoardCloses(s)

Spec == Init /\ [][Next]_vars

(* Both threads are scheduled.  Entering m_cs needs strong fairness: the    *)
(* receive thread leaves it again and again but never stays out of it.      *)
FairSpec == Spec /\ WF_vars(CallStep) /\ SF_vars(UnRegisterLocked) /\ WF_vars(ReceiveStep)
                 /\ \A n \in Names : WF_vars(RecvAndFind(n))

-----------------------------------------------------------------------------
(* Properties *)

(* The iterator DealRecvBuff found stays valid until it is done with it:    *)
(* the erase of m_NameDataMap, which UnRegisterProc makes after it left     *)
(* m_cs, never removes the model under the receive thread.                  *)
IteratorStaysValid == rcv = "dealing" => dealt.name \in m_NameDataMap

(* What a registered processor sends is never dropped as "Unknown": when    *)
(* the receive thread comes to it, its packet model is there, although the  *)
(* two maps are filled one after the other without m_cs.                    *)
NothingDroppedAsUnknown ==
    \A n \in Names :
        rcv = "deal" /\ n \in todo /\ IsReal(n) /\ answers[m_NameAddrMap[n].sock] # <<>>
            => n \in m_NameDataMap

(* Every connection belongs to one name: no two names share an address or a *)
(* socket, and an open socket is held by its name or by the call that is    *)
(* registering it, so that it can be unregistered (AddrAlreadyInUse,        *)
(* IsInfoMatch, ClientClose).                                               *)
EveryConnectionHasItsName ==
    /\ \A m, n \in Names : IsReal(m) /\ IsReal(n) /\ m # n
            => /\ m_NameAddrMap[m].addr # m_NameAddrMap[n].addr
               /\ m_NameAddrMap[m].sock # m_NameAddrMap[n].sock
    /\ \A s \in Socks : sockState[s] # "closed" <=>
            \/ \E n \in Names : IsReal(n) /\ m_NameAddrMap[n].sock = s
            \/ pc = "insert" /\ cur.sock = s

(* A registration that succeeds while no signal of an earlier one can be    *)
(* outstanding was granted all its services by the board; by a board that   *)
(* echoes LOGON, all but the last, which is still to come.                  *)
Returned(op) == last # NoCall /\ last.call.op = op
SuccessMeansServed ==
    Returned("register") /\ last.code = TESTCASE_SUCCESS /\ last.call.clean
        => last.served >= IF last.call.addr \in Echoing THEN 3 ELSE 4

(* A name that was never registered has been addressed: its entry holds any *)
(* handle value, which makes every later select fail, or recv be called     *)
(* twice for one socket.                                                    *)
NoPhantom == \A n \in Names : InMap(n) => IsReal(n)

(* Without such an entry, and if handle values are not used twice, every    *)
(* call returns whatever the boards do: the waits have timeouts and m_cs is *)
(* left again.                                                              *)
EveryCallReturns == pc # "idle" ~> (pc = "idle" \/ ~NoPhantom)

(* Without such an entry what a connected board has sent is received, or    *)
(* its socket is closed (RecvMsg builds its fd_set anew for each select).   *)
DataReceivedUnlessPhantom ==
    \A s \in Socks :
        (answers[s] # <<>> /\ pc # "insert") ~>
            (answers[s] = <<>> \/ ~NoPhantom \/ pc = "insert")

(* recv, which holds m_cs, is only called where there is something to       *)
(* receive, although the answer of a select is read with the map as it is   *)
(* by then: the one exception is a handle value that select answered for a  *)
(* connection since closed and that was handed out again before the loop    *)
(* (RecvMsg).                                                               *)
RecvBlocksOnlyOnReopened ==
    NoPhantom => \A n \in Names :
        LET s == m_NameAddrMap[n].sock
        IN  rcv = "deal" /\ n \in todo /\ IsReal(n) /\ s \in readfds \ reopened => Ready(s)

(* WorkManager.cpp:1193: blocking in this thread was a bug that the timeout *)
(* of select removed.  Violated by a handle value that is handed out again. *)
RecvNeverBlocks ==
    NoPhantom => \A n \in Names :
        rcv = "deal" /\ n \in todo /\ IsReal(n) /\ m_NameAddrMap[n].sock \in readfds
            => Ready(m_NameAddrMap[n].sock)

(* WorkManager.cpp:155: unregistering a name that is not registered is      *)
(* allowed, since some do it before they register.                          *)
UnRegisterUnknownSucceeds ==
    Returned("unregister") /\ ~last.call.known => last.code = TESTCASE_SUCCESS

=============================================================================
