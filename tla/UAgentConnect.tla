---------------------------- MODULE UAgentConnect ----------------------------
(***************************************************************************)
(* CWorkManager::ClientConnect: how TestCaseLib connects to a board.  A    *)
(* call makes up to CONNECTTCPSERVER_RETRY_NUMBER rounds, each with a new  *)
(* socket that is bound to a local port computed from slot and processor.  *)
(* A socket whose connect failed is not closed and keeps its local port.   *)
(*                                                                         *)
(* The calls come from TestCaseLibRegisterProc, one at a time; a connected *)
(* socket is closed when its processor is unregistered.                    *)
(***************************************************************************)
EXTENDS Integers

CONSTANTS
    Boards,     \* the addresses (csIP)
    V6,         \* those with a colon: IPv6
    Listens,    \* the ports each board listens on when it is up
    Pids,       \* s32Pid: -1 for none
    Slots, ProcIds,
    CONNECTTCPSERVER_RETRY_NUMBER,  \* 10
    MaxCalls,   \* bound: registrations in a behaviour
    MaxToggles  \* bound: how often boards go down or come up

ASSUME UAgentConnectAssumption ==
    /\ V6 \subseteq Boards
    /\ Listens \in [Boards -> SUBSET Nat]
    /\ Pids \subseteq Nat \cup {-1}
    /\ Slots \subseteq Nat /\ ProcIds \subseteq Nat
    /\ CONNECTTCPSERVER_RETRY_NUMBER \in Nat \ {0}
    /\ MaxCalls \in Nat /\ MaxToggles \in Nat

CONNECTTCPSERVER_PORT_NULL == 0
CONNECTTCPSERVER_PORT_OLD  == 10001
CONNECTTCPSERVER_PORT_NEW  == 10021

SetPid(pid) == IF pid < 0 THEN CONNECTTCPSERVER_PORT_NULL ELSE CONNECTTCPSERVER_PORT_OLD + 10 * pid
BugSlotIgnored(call) == 30000 + call.procId + 16 * 64   \* faulty variant
srcPort(call) == 30000 + call.slot * 64 + call.procId + 16 * 64
Family(call)  == IF call.ip \in V6 THEN "v6" ELSE "v4"
Rotates(call) == SetPid(call.pid) = CONNECTTCPSERVER_PORT_NULL

CallIds == 1 .. MaxCalls
Call    == [id : CallIds, ip : Boards, pid : Pids, slot : Slots, procId : ProcIds]
NoCall  == [id |-> 0]
SocketNos == 1 .. MaxCalls * CONNECTTCPSERVER_RETRY_NUMBER
Socket  == [no : SocketNos, family : {"v4", "v6"}, port : Nat]
(* How a call ends: connected, no socket, refused by bind, all rounds made. *)
Ends    == {"connected", "socket", "bind", "rounds"}

VARIABLES
    pc,         \* "idle", "socket", "connect", "new" (the second port) or "sleep"
    cur,        \* the registration in progress
    round,      \* i
    target,     \* srvAddr.sin_port
    sock,       \* clientSock
    sockets,    \* the sockets of the process, with the local port each is bound to, 0 if none
    registered, \* m_NameAddrMap: [call, sock, port]
    up,         \* which boards accept connections
    nextId, nextNo, toggles,
    returned    \* history: [call, end, tried]; tried: the rounds that called connect

callVars == <<pc, cur, round, target, sock>>
vars == <<callVars, sockets, registered, up, nextId, nextNo, toggles, returned>>

(* Calls, sockets and registrations are in range. *)
TypeOK ==
    /\ pc \in {"idle", "socket", "connect", "new", "sleep"}
    /\ cur \in Call \cup {NoCall} /\ (pc # "idle" => cur \in Call)
    /\ round \in 0 .. CONNECTTCPSERVER_RETRY_NUMBER - 1
    /\ target \in Nat
    /\ sock \in SocketNos \cup {0}
    /\ sockets \subseteq Socket
    /\ registered \subseteq [call : Call, sock : SocketNos, port : Nat]
    /\ up \subseteq Boards
    /\ nextId \in 1 .. MaxCalls + 1 /\ nextNo \in Nat /\ toggles \in 0 .. MaxToggles
    /\ returned \subseteq [call : Call, end : Ends, tried : 0 .. CONNECTTCPSERVER_RETRY_NUMBER]

Init ==
    /\ pc = "idle" /\ cur = NoCall /\ round = 0 /\ target = 0 /\ sock = 0
    /\ sockets = {} /\ registered = {}
    /\ up \in SUBSET Boards
    /\ nextId = 1 /\ nextNo = 1 /\ toggles = 0
    /\ returned = {}

-----------------------------------------------------------------------------
AddrAlreadyInUse(ip, pid) == \E r \in registered : r.call.ip = ip /\ r.call.pid = pid

(* RegisterProc calls ClientConnect. *)
Register(ip, pid, slot, procId) ==
    /\ pc = "idle" /\ nextId <= MaxCalls
    /\ ~AddrAlreadyInUse(ip, pid)
    /\ pc' = "socket" /\ round' = 0 /\ sock' = 0
    /\ cur' = [id |-> nextId, ip |-> ip, pid |-> pid, slot |-> slot, procId |-> procId]
    /\ target' = IF SetPid(pid) = CONNECTTCPSERVER_PORT_NULL THEN CONNECTTCPSERVER_PORT_OLD ELSE SetPid(pid)
    /\ nextId' = nextId + 1
    /\ UNCHANGED <<sockets, registered, up, nextNo, toggles, returned>>

Return(end, tried) ==
    /\ pc' = "idle"
    /\ returned' = returned \cup {[call |-> cur, end |-> end, tried |-> tried]}

PortIsFree(family, port) == ~\E s \in sockets : s.family = family /\ s.port = port
NewSocket(port) ==
    /\ sockets' = sockets \cup {[no |-> nextNo, family |-> Family(cur), port |-> port]}
    /\ sock' = nextNo /\ nextNo' = nextNo + 1
(* With an explicit port and IPv6 a failed bind is logged only; the socket  *)
(* gets a local port of the system's choice.                                *)
BindMayFail == Family(cur) = "v6" /\ ~Rotates(cur)

NoSocket ==
    /\ pc = "socket"
    /\ Return("socket", round)
    /\ UNCHANGED <<cur, round, target, sock, sockets, registered, up, nextId, nextNo, toggles>>

(* Faulty variant: a refused bind is not noticed in any of the four loops.  *)
BugBindUnchecked ==
    /\ pc = "socket"
    /\ NewSocket(IF PortIsFree(Family(cur), srcPort(cur)) THEN srcPort(cur) ELSE 0)
    /\ pc' = "connect" /\ UNCHANGED returned
    /\ UNCHANGED <<cur, round, target, registered, up, nextId, toggles>>

SocketAndBind ==
    /\ pc = "socket"
    /\ \/ /\ PortIsFree(Family(cur), srcPort(cur))
          /\ NewSocket(srcPort(cur))
          /\ pc' = "connect" /\ UNCHANGED returned
       \/ /\ ~PortIsFree(Family(cur), srcPort(cur))
          /\ NewSocket(0)
          /\ IF BindMayFail THEN pc' = "connect" /\ UNCHANGED returned
                            ELSE Return("bind", round)
    /\ UNCHANGED <<cur, round, target, registered, up, nextId, toggles>>

Connected ==
    /\ cur.ip \in up /\ target \in Listens[cur.ip]
    /\ registered' = registered \cup {[call |-> cur, sock |-> sock, port |-> target]}
    /\ Return("connected", round + 1)

(* A connect may fail although the board listens. *)
Connect ==
    /\ pc = "connect"
    /\ \/ Connected /\ UNCHANGED target
       \/ /\ IF Rotates(cur) THEN pc' = "new" /\ target' = CONNECTTCPSERVER_PORT_NEW
                             ELSE pc' = "sleep" /\ UNCHANGED target
          /\ UNCHANGED <<registered, returned>>
    /\ UNCHANGED <<cur, round, sock, sockets, up, nextId, nextNo, toggles>>

(* The second connect of a round, on the same socket.  target stays at the  *)
(* new port in all later rounds.                                            *)
ConnectNewPort ==
    /\ pc = "new"
    /\ \/ Connected
       \/ pc' = "sleep" /\ UNCHANGED <<registered, returned>>
    /\ UNCHANGED <<cur, round, target, sock, sockets, up, nextId, nextNo, toggles>>

SleepAndRetry ==
    /\ pc = "sleep"
    /\ IF round + 1 < CONNECTTCPSERVER_RETRY_NUMBER
       THEN pc' = "socket" /\ round' = round + 1 /\ UNCHANGED returned
       ELSE Return("rounds", round + 1) /\ UNCHANGED round
    /\ UNCHANGED <<cur, target, sock, sockets, registered, up, nextId, nextNo, toggles>>

(* Faulty variant: the registration goes but its socket stays open.         *)
BugNotClosed(r) ==
    /\ pc = "idle"
    /\ registered' = registered \ {r}
    /\ UNCHANGED <<callVars, sockets, up, nextId, nextNo, toggles, returned>>

(* UnRegisterProc closes the socket and removes the registration. *)
ClientClose(r) ==
    /\ pc = "idle"
    /\ registered' = registered \ {r}
    /\ sockets' = {s \in sockets : s.no # r.sock}
    /\ UNCHANGED <<callVars, up, nextId, nextNo, toggles, returned>>

(* A board goes down or comes up. *)
Toggle(b) ==
    /\ toggles < MaxToggles /\ toggles' = toggles + 1
    /\ up' = IF b \in up THEN up \ {b} ELSE up \cup {b}
    /\ UNCHANGED <<callVars, sockets, registered, nextId, nextNo, returned>>

Next ==
    \/ \E ip \in Boards, pid \in Pids, slot \in Slots, procId \in ProcIds : Register(ip, pid, slot, procId)
    \/ NoSocket \/ SocketAndBind \/ Connect \/ ConnectNewPort \/ SleepAndRetry
    \/ \E r \in registered : ClientClose(r)
    \/ \E b \in Boards : Toggle(b)

Spec == Init /\ [][Next]_vars

-----------------------------------------------------------------------------
(* Properties *)

SamePort(a, b) == Family(a) = Family(b) /\ srcPort(a) = srcPort(b)

(* A registration is refused by bind only for a reason of its own slot and  *)
(* processor: one for the same that is or was connected, or a connect for   *)
(* the same that failed, in an earlier call or in this one.  Other slots    *)
(* and the other address family never stand in the way, as long as the      *)
(* processors of a slot are numbered below 64 (srcPort).                    *)
RefusedOnlyByOwnPort ==
    \A r \in returned : r.end = "bind" =>
        \/ r.tried > 0
        \/ \E e \in returned : /\ e.call.id < r.call.id /\ e.tried > 0
                               /\ Family(e.call) = Family(r.call)
                               /\ e.call.slot = r.call.slot /\ e.call.procId = r.call.procId

(* Each registered connection leaves from the local port computed for its  *)
(* slot and processor, except that IPv6 with an explicit port may go        *)
(* without, and no two of a family share one (the four bind calls).         *)
ConnectedFromItsPort ==
    \A r \in registered : \E s \in sockets :
        /\ s.no = r.sock
        /\ s.port = srcPort(r.call) \/ (s.port = 0 /\ Family(r.call) = "v6" /\ ~Rotates(r.call))
        /\ \A o \in sockets \ {s} :
             s.port # 0 /\ o.family = Family(r.call) => o.no # r.sock /\ o.port # s.port

(* Once a processor is unregistered and no attempt for its slot has failed, *)
(* its local port is free for the next registration (ClientClose).          *)
PortFreeAfterClose ==
    pc = "idle" => \A r \in returned :
        /\ r.end = "connected" /\ r.tried = 1
        /\ ~\E o \in registered : SamePort(o.call, r.call)
        /\ ~\E e \in returned : SamePort(e.call, r.call) /\ (e.end # "connected" \/ e.tried > 1)
        => PortIsFree(Family(r.call), srcPort(r.call))

(* MessageFormat.h:330: the number of retries is large because boards that  *)
(* cannot be connected to are there again a moment later.  So a call that   *)
(* has tried to connect in vain goes on until its rounds are over.          *)
RetriesUntilRoundsOver ==
    \A r \in returned : r.end = "bind" /\ r.tried > 0 => r.tried = CONNECTTCPSERVER_RETRY_NUMBER

=============================================================================
