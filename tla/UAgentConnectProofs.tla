------------------------- MODULE UAgentConnectProofs -------------------------
(***************************************************************************)
(* Theorems about the sockets of ClientConnect, for every set of boards,   *)
(* processes, slots and processors and every number of rounds and calls.   *)
(***************************************************************************)
EXTENDS UAgentConnect, TLAPS

(* What the argument needs of the types. *)
Types ==
    /\ pc \in {"idle", "socket", "connect", "new", "sleep"}
    /\ pc # "idle" => cur \in Call
    /\ round \in Nat /\ sock \in Nat /\ nextId \in Nat \ {0} /\ nextNo \in Nat
    /\ \A s \in sockets : s.no \in Nat /\ s.no < nextNo /\ s.port \in Nat
    /\ \A r \in registered : r.call \in Call /\ r.sock \in Nat
    /\ \A e \in returned : e.call \in Call /\ e.end \in Ends /\ e.tried \in Nat

(* No two sockets have a number, or a family and a local port, in common. *)
Apart ==
    \A s, o \in sockets : s # o =>
        s.no # o.no /\ (s.port = 0 \/ s.port # o.port \/ s.family # o.family)

(* The socket `no` serves a call with the local port that call is due. *)
Serves(s, call) ==
    /\ s.family = Family(call)
    /\ s.port = srcPort(call) \/ (s.port = 0 /\ Family(call) = "v6" /\ ~Rotates(call))
Kept(call, no) == \E s \in sockets : s.no = no /\ Serves(s, call)

Connecting == pc \in {"connect", "new", "sleep"}

Connections ==
    /\ \A r \in registered : Kept(r.call, r.sock)
    /\ \A r, o \in registered : r # o => r.sock # o.sock
    /\ Connecting => Kept(cur, sock) /\ \A r \in registered : r.sock # sock

(* A socket with a local port is that of a registration, or was left by a  *)
(* call that has failed to connect at least once, or belongs to this call. *)
Left(c) == \E e \in returned : /\ e.call = c /\ e.tried > 0
                               /\ e.end # "connected" \/ e.tried > 1
Held(c, no) == \E r \in registered : r.call = c /\ r.sock = no
Ours(c, no) == pc # "idle" /\ cur = c /\ (round > 0 \/ (pc # "socket" /\ no = sock))

Owned ==
    \A s \in sockets : s.port # 0 =>
        \E c \in Call : /\ s.family = Family(c) /\ s.port = srcPort(c)
                        /\ Held(c, s.no) \/ Left(c) \/ Ours(c, s.no)

(* Calls have returned in the order of their numbers, the registered ones  *)
(* after a connect.                                                        *)
Past ==
    /\ \A e \in returned : e.call.id < nextId /\ (pc # "idle" => e.call.id < cur.id)
    /\ pc # "idle" => cur.id < nextId
    /\ \A r \in registered : \E e \in returned : e.call = r.call /\ e.tried > 0

IInv == Types /\ Apart /\ Connections /\ Owned /\ Past

-----------------------------------------------------------------------------
(* A local port is never 0. *)
LEMMA PortIsNumber ==
    ASSUME NEW c \in Call
    PROVE  /\ srcPort(c) \in Nat \ {0} /\ c.id \in Nat
           /\ Family(c) \in {"v4", "v6"}
  <1>1. c.id \in Nat
    <2>1. c.id \in CallIds
      BY DEF Call
    <2> QED
      BY <2>1 DEF CallIds
  <1>2. c.slot \in Slots /\ c.procId \in ProcIds
    BY DEF Call
  <1>3. c.slot \in Nat /\ c.procId \in Nat
    BY <1>2, UAgentConnectAssumption
  <1> QED
    BY <1>1, <1>3 DEF srcPort, Family

LEMMA InitHolds == Init => IInv
  <1> SUFFICES ASSUME Init PROVE IInv
    OBVIOUS
  <1> USE DEF Init
  <1>1. Types
    BY DEF Types
  <1>2. Apart /\ Owned /\ Past
    BY DEF Apart, Owned, Past
  <1>3. Connections
    BY DEF Connections, Connecting
  <1> QED
    BY <1>1, <1>2, <1>3 DEF IInv

LEMMA TypesStep ==
    ASSUME IInv, [Next]_vars
    PROVE  Types'
  <1> USE DEF IInv, Types
  <1>1. CASE \E ip \in Boards, pid \in Pids, slot \in Slots, procId \in ProcIds :
               Register(ip, pid, slot, procId)
    <2>1. PICK ip \in Boards, pid \in Pids, slot \in Slots, procId \in ProcIds :
             Register(ip, pid, slot, procId)
      BY <1>1
    <2>2. nextId \in CallIds
      BY <2>1, UAgentConnectAssumption DEF Register, CallIds
    <2>3. cur' \in Call
      BY <2>1, <2>2 DEF Register, Call
    <2> QED
      BY <2>1, <2>3 DEF Register
  <1>2. CASE NoSocket
    BY <1>2 DEF NoSocket, Return, Ends
  <1>3. CASE SocketAndBind
    BY <1>3, PortIsNumber DEF SocketAndBind, NewSocket, Return, Ends
  <1>4. CASE Connect
    BY <1>4 DEF Connect, Connected, Return, Ends
  <1>5. CASE ConnectNewPort
    BY <1>5 DEF ConnectNewPort, Connected, Return, Ends
  <1>6. CASE SleepAndRetry
    BY <1>6 DEF SleepAndRetry, Return, Ends
  <1>7. CASE \E r \in registered : ClientClose(r)
    BY <1>7 DEF ClientClose, callVars
  <1>8. CASE \E b \in Boards : Toggle(b)
    BY <1>8 DEF Toggle, callVars
  <1>9. CASE UNCHANGED vars
    BY <1>9 DEF vars, callVars
  <1> QED
    BY <1>1, <1>2, <1>3, <1>4, <1>5, <1>6, <1>7, <1>8, <1>9 DEF Next

(* The socket that a round makes is new, and so is its local port.          *)
LEMMA NewSocketIsApart ==
    ASSUME Types, Apart, NEW port \in Nat, NewSocket(port),
           port = 0 \/ PortIsFree(Family(cur), port)
    PROVE  Apart'
  BY DEF Types, Apart, NewSocket, PortIsFree

LEMMA ApartStep ==
    ASSUME IInv, [Next]_vars
    PROVE  Apart'
  <1> USE DEF IInv
  <1>1. CASE SocketAndBind
    <2>1. srcPort(cur) \in Nat
      BY <1>1, PortIsNumber DEF SocketAndBind, Types
    <2> QED
      BY <1>1, <2>1, NewSocketIsApart DEF SocketAndBind
  <1>2. CASE \E r \in registered : ClientClose(r)
    BY <1>2 DEF ClientClose, Apart
  <1>3. CASE UNCHANGED sockets
    BY <1>3 DEF Apart
  <1>4. SocketAndBind \/ (\E r \in registered : ClientClose(r)) \/ UNCHANGED sockets
    BY DEF Next, Register, NoSocket, Connect, ConnectNewPort, SleepAndRetry, Toggle, vars
  <1> QED
    BY <1>1, <1>2, <1>3, <1>4

(* A socket that stays goes on to serve.                                    *)
LEMMA KeptStays ==
    ASSUME NEW c, NEW no, Kept(c, no), sockets \subseteq sockets'
    PROVE  Kept(c, no)'
  BY DEF Kept, Serves

LEMMA ConnectionsStep ==
    ASSUME IInv, [Next]_vars
    PROVE  Connections'
  <1> USE DEF IInv, Connections, Connecting
  <1>1. CASE \E ip \in Boards, pid \in Pids, slot \in Slots, procId \in ProcIds :
               Register(ip, pid, slot, procId)
    BY <1>1 DEF Register, Kept, Serves
  <1>2. CASE NoSocket
    BY <1>2 DEF NoSocket, Return, Kept, Serves
  <1>3. CASE SocketAndBind
    <2>1. PICK port \in Nat : /\ NewSocket(port)
                              /\ port = srcPort(cur) \/ (port = 0 /\ (BindMayFail \/ pc' = "idle"))
      BY <1>3, PortIsNumber DEF SocketAndBind, Types, Return
    <2>2. \A r \in registered : Kept(r.call, r.sock)'
      BY <2>1, <1>3, KeptStays DEF NewSocket, SocketAndBind
    <2>3. pc' # "idle" => Kept(cur, sock)'
      <3> DEFINE s == [no |-> nextNo, family |-> Family(cur), port |-> port]
      <3>1. s \in sockets' /\ sock' = nextNo /\ cur' = cur
        BY <2>1, <1>3 DEF NewSocket, SocketAndBind
      <3>2. pc' # "idle" => Serves(s, cur)
        BY <2>1 DEF Serves, BindMayFail
      <3>3. s.no = nextNo
        OBVIOUS
      <3> HIDE DEF s
      <3> QED
        BY <3>1, <3>2, <3>3 DEF Kept, Serves
    <2>4. \A r \in registered : r.sock < nextNo
      BY DEF Kept, Types
    <2> QED
      BY <1>3, <2>1, <2>2, <2>3, <2>4 DEF SocketAndBind, NewSocket, Types
  <1>4. CASE Connect
    BY <1>4 DEF Connect, Connected, Return, Kept, Serves
  <1>5. CASE ConnectNewPort
    BY <1>5 DEF ConnectNewPort, Connected, Return, Kept, Serves
  <1>6. CASE SleepAndRetry
    BY <1>6 DEF SleepAndRetry, Return, Kept, Serves
  <1>7. CASE \E r \in registered : ClientClose(r)
    <2>1. PICK r \in registered : ClientClose(r)
      BY <1>7
    <2>2. \A o \in registered \ {r} : Kept(o.call, o.sock)'
      BY <2>1 DEF ClientClose, Kept, Serves
    <2> QED
      BY <2>1, <2>2 DEF ClientClose, callVars
  <1>8. CASE \E b \in Boards : Toggle(b)
    BY <1>8 DEF Toggle, callVars, Kept, Serves
  <1>9. CASE UNCHANGED vars
    BY <1>9 DEF vars, callVars, Kept, Serves
  <1> QED
    BY <1>1, <1>2, <1>3, <1>4, <1>5, <1>6, <1>7, <1>8, <1>9 DEF Next

(* The call that connects joins the past together with its registration.   *)
LEMMA ConnectedIsPast ==
    ASSUME Types, Past, pc # "idle", Connected, UNCHANGED <<cur, nextId>>
    PROVE  Past'
  <1> DEFINE new == [call |-> cur, end |-> "connected", tried |-> round + 1]
  <1>1. returned' = returned \cup {new} /\ pc' = "idle" /\ new.call = cur /\ new.tried > 0
    BY DEF Connected, Return, Types
  <1>2. cur \in Call /\ cur.id \in Nat
    BY PortIsNumber DEF Types
  <1> HIDE DEF new
  <1>3. \A e \in returned' : e.call.id < nextId'
    BY <1>1, <1>2 DEF Past
  <1>4. \A r \in registered' : \E e \in returned' : e.call = r.call /\ e.tried > 0
    <2>1. \A r \in registered' : r \in registered \/ r.call = cur
      BY DEF Connected
    <2> QED
      BY <2>1, <1>1 DEF Past
  <1> QED
    BY <1>1, <1>3, <1>4 DEF Past

LEMMA PastStep ==
    ASSUME IInv, [Next]_vars
    PROVE  Past'
  <1> USE DEF IInv, Past, Types
  <1>1. CASE \E ip \in Boards, pid \in Pids, slot \in Slots, procId \in ProcIds :
               Register(ip, pid, slot, procId)
    BY <1>1, PortIsNumber DEF Register
  <1>2. CASE NoSocket
    BY <1>2, PortIsNumber DEF NoSocket, Return
  <1>3. CASE SocketAndBind
    BY <1>3, PortIsNumber DEF SocketAndBind, NewSocket, Return
  <1>4. CASE Connect
    <2>1. CASE Connected
      BY <1>4, <2>1, ConnectedIsPast DEF Connect
    <2>2. CASE pc' # "idle" /\ UNCHANGED <<registered, returned>>
      BY <1>4, <2>2 DEF Connect
    <2> QED
      BY <1>4, <2>1, <2>2 DEF Connect
  <1>5. CASE ConnectNewPort
    <2>1. CASE Connected
      BY <1>5, <2>1, ConnectedIsPast DEF ConnectNewPort
    <2>2. CASE pc' # "idle" /\ UNCHANGED <<registered, returned>>
      BY <1>5, <2>2 DEF ConnectNewPort
    <2> QED
      BY <1>5, <2>1, <2>2 DEF ConnectNewPort
  <1>6. CASE SleepAndRetry
    BY <1>6, PortIsNumber DEF SleepAndRetry, Return
  <1>7. CASE \E r \in registered : ClientClose(r)
    BY <1>7 DEF ClientClose, callVars
  <1>8. CASE \E b \in Boards : Toggle(b)
    BY <1>8 DEF Toggle, callVars
  <1>9. CASE UNCHANGED vars
    BY <1>9 DEF vars, callVars
  <1> QED
    BY <1>1, <1>2, <1>3, <1>4, <1>5, <1>6, <1>7, <1>8, <1>9 DEF Next

-----------------------------------------------------------------------------
(* The ways a socket is accounted for outlast a step that keeps what they   *)
(* refer to.                                                                *)
LEMMA LeftStays ==
    ASSUME NEW c, Left(c), returned \subseteq returned'
    PROVE  Left(c)'
  BY DEF Left

LEMMA HeldStays ==
    ASSUME NEW c, NEW no, Held(c, no), registered \subseteq registered'
    PROVE  Held(c, no)'
  BY DEF Held

(* Once a call has returned other than from its first connect, each socket  *)
(* of its own counts as left.                                               *)
LEMMA ReturnLeaves ==
    ASSUME NEW c, c = cur, NEW end, NEW tried \in Nat, Return(end, tried), tried > 0,
           end # "connected" \/ tried > 1
    PROVE  Left(c)'
  <1> DEFINE new == [call |-> cur, end |-> end, tried |-> tried]
  <1>1. new \in returned'
    BY DEF Return
  <1>2. new.call = c /\ new.tried > 0 /\ (new.end # "connected" \/ new.tried > 1)
    OBVIOUS
  <1> HIDE DEF new
  <1> QED
    BY <1>1, <1>2 DEF Left

(* So it is enough to look at the sockets of the present call.              *)
LEMMA OwnedStays ==
    ASSUME Types, Owned, sockets' = sockets,
           registered \subseteq registered', returned \subseteq returned',
           \A c \in Call, s \in sockets :
             Ours(c, s.no) => Held(c, s.no)' \/ Left(c)' \/ Ours(c, s.no)'
    PROVE  Owned'
  <1> SUFFICES ASSUME NEW s \in sockets, s.port # 0
               PROVE  \E c \in Call : /\ s.family = Family(c) /\ s.port = srcPort(c)
                                      /\ Held(c, s.no)' \/ Left(c)' \/ Ours(c, s.no)'
    BY DEF Owned
  <1>1. PICK c \in Call : /\ s.family = Family(c) /\ s.port = srcPort(c)
                          /\ Held(c, s.no) \/ Left(c) \/ Ours(c, s.no)
    BY DEF Owned
  <1>2. Held(c, s.no)' \/ Left(c)' \/ Ours(c, s.no)'
    BY <1>1, HeldStays, LeftStays
  <1> QED
    BY <1>1, <1>2

(* The call that connects keeps the socket of this round by registering it, *)
(* and the ones of earlier rounds are left.                                 *)
LEMMA ConnectedOwns ==
    ASSUME Types, Owned, Connecting, Connected, UNCHANGED sockets
    PROVE  Owned'
  <1>1. registered \subseteq registered' /\ returned \subseteq returned'
    BY DEF Connected, Return
  <1>2. ASSUME NEW c \in Call, NEW s \in sockets, Ours(c, s.no)
        PROVE  Held(c, s.no)' \/ Left(c)'
    <2>1. CASE round > 0
      <3>1. Return("connected", round + 1) /\ round + 1 \in Nat /\ round + 1 > 1 /\ c = cur
        BY <2>1, <1>2 DEF Connected, Types, Ours
      <3> QED
        BY <3>1, ReturnLeaves
    <2>2. CASE c = cur /\ s.no = sock
      <3> DEFINE new == [call |-> cur, sock |-> sock, port |-> target]
      <3>1. new \in registered' /\ new.call = c /\ new.sock = s.no
        BY <2>2 DEF Connected
      <3> HIDE DEF new
      <3> QED
        BY <3>1 DEF Held
    <2> QED
      BY <1>2, <2>1, <2>2 DEF Ours
  <1> QED
    BY <1>1, <1>2, OwnedStays

LEMMA OwnedStep ==
    ASSUME IInv, [Next]_vars
    PROVE  Owned'
  <1> USE DEF IInv
  <1>1. CASE \E ip \in Boards, pid \in Pids, slot \in Slots, procId \in ProcIds :
               Register(ip, pid, slot, procId)
    BY <1>1, OwnedStays DEF Register, Ours
  <1>2. CASE NoSocket
    <2>1. ASSUME NEW c \in Call, NEW s \in sockets, Ours(c, s.no)
          PROVE  Left(c)'
      <3>1. Return("socket", round) /\ round \in Nat /\ round > 0 /\ c = cur
        BY <1>2, <2>1 DEF NoSocket, Ours, Types
      <3> QED
        BY <3>1, ReturnLeaves
    <2> QED
      BY <1>2, <2>1, OwnedStays DEF NoSocket, Return
  <1>3. CASE SocketAndBind
    <2> SUFFICES ASSUME NEW s \in sockets', s.port # 0
                 PROVE  \E c \in Call : /\ s.family = Family(c) /\ s.port = srcPort(c)
                                        /\ Held(c, s.no)' \/ Left(c)' \/ Ours(c, s.no)'
      BY DEF Owned
    <2>1. CASE s \in sockets
      <3>1. PICK c \in Call : /\ s.family = Family(c) /\ s.port = srcPort(c)
                              /\ Held(c, s.no) \/ Left(c) \/ Ours(c, s.no)
        BY <2>1 DEF Owned
      <3>2. registered' = registered /\ returned \subseteq returned'
        BY <1>3 DEF SocketAndBind, Return
      <3>3. CASE Ours(c, s.no)
        <4>1. c = cur /\ round \in Nat /\ round > 0
          BY <1>3, <3>3 DEF Ours, SocketAndBind, Types
        <4>2. CASE Return("bind", round)
          BY <4>1, <4>2, <3>1, ReturnLeaves
        <4>3. CASE pc' = "connect"
          <5>1. Ours(c, s.no)'
            BY <1>3, <4>1, <4>3 DEF SocketAndBind, Ours
          <5> QED
            BY <5>1, <3>1
        <4> QED
          BY <1>3, <4>2, <4>3 DEF SocketAndBind
      <3> QED
        BY <3>1, <3>2, <3>3, HeldStays, LeftStays
    <2>2. CASE s \notin sockets
      <3>1. /\ cur \in Call /\ cur' = cur /\ pc' = "connect" /\ NewSocket(srcPort(cur))
        BY <1>3, <2>2 DEF SocketAndBind, NewSocket, Types
      <3>2. s = [no |-> nextNo, family |-> Family(cur), port |-> srcPort(cur)] /\ sock' = nextNo
        BY <2>2, <3>1 DEF NewSocket
      <3>3. s.family = Family(cur) /\ s.port = srcPort(cur) /\ s.no = sock'
        BY <3>2
      <3>4. Ours(cur, s.no)'
        BY <3>1, <3>3 DEF Ours
      <3>5. PICK c \in Call : c = cur
        BY <3>1
      <3>6. Ours(c, s.no)'
        BY <3>1, <3>3, <3>5 DEF Ours
      <3> QED
        BY <3>3, <3>5, <3>6
    <2> QED
      BY <2>1, <2>2
  <1>4. CASE Connect
    <2>1. CASE Connected
      BY <1>4, <2>1, ConnectedOwns DEF Connect, Connecting
    <2>2. CASE pc' \in {"new", "sleep"} /\ UNCHANGED <<registered, returned>>
      BY <1>4, <2>2, OwnedStays DEF Connect, Ours
    <2> QED
      BY <1>4, <2>1, <2>2 DEF Connect
  <1>5. CASE ConnectNewPort
    <2>1. CASE Connected
      BY <1>5, <2>1, ConnectedOwns DEF ConnectNewPort, Connecting
    <2>2. CASE pc' = "sleep" /\ UNCHANGED <<registered, returned>>
      BY <1>5, <2>2, OwnedStays DEF ConnectNewPort, Ours
    <2> QED
      BY <1>5, <2>1, <2>2 DEF ConnectNewPort
  <1>6. CASE SleepAndRetry
    <2>1. CASE pc' = "socket" /\ round' = round + 1 /\ UNCHANGED returned
      <3>1. \A c \in Call, s \in sockets : Ours(c, s.no) => Ours(c, s.no)'
        BY <1>6, <2>1 DEF SleepAndRetry, Ours, Types
      <3> QED
        BY <1>6, <2>1, <3>1, OwnedStays DEF SleepAndRetry
    <2>2. CASE Return("rounds", round + 1)
      <3>1. \A c \in Call, s \in sockets : Ours(c, s.no) => Left(c)'
        <4>1. round + 1 \in Nat /\ round + 1 > 0
          BY DEF Types
        <4> QED
          BY <2>2, <4>1, ReturnLeaves DEF Ours
      <3> QED
        BY <1>6, <2>2, <3>1, OwnedStays DEF SleepAndRetry, Return
    <2> QED
      BY <1>6, <2>1, <2>2 DEF SleepAndRetry
  <1>7. CASE \E r \in registered : ClientClose(r)
    <2>1. PICK r \in registered : ClientClose(r)
      BY <1>7
    <2> SUFFICES ASSUME NEW s \in sockets', s.port # 0
                 PROVE  \E c \in Call : /\ s.family = Family(c) /\ s.port = srcPort(c)
                                        /\ Held(c, s.no)' \/ Left(c)' \/ Ours(c, s.no)'
      BY DEF Owned
    <2>2. s \in sockets /\ s.no # r.sock
      BY <2>1 DEF ClientClose
    <2>3. PICK c \in Call : /\ s.family = Family(c) /\ s.port = srcPort(c)
                            /\ Held(c, s.no) \/ Left(c)
      BY <2>1, <2>2 DEF Owned, Ours, ClientClose
    <2>4. Held(c, s.no) => Held(c, s.no)'
      BY <2>1, <2>2 DEF Held, ClientClose
    <2>5. Left(c) => Left(c)'
      BY <2>1 DEF Left, ClientClose
    <2> QED
      BY <2>3, <2>4, <2>5
  <1>8. CASE \E b \in Boards : Toggle(b)
    BY <1>8, OwnedStays DEF Toggle, callVars, Ours
  <1>9. CASE UNCHANGED vars
    BY <1>9, OwnedStays DEF vars, callVars, Ours
  <1> QED
    BY <1>1, <1>2, <1>3, <1>4, <1>5, <1>6, <1>7, <1>8, <1>9 DEF Next

THEOREM ConnectInductive == Spec => []IInv
  <1>1. IInv /\ [Next]_vars => IInv'
    BY TypesStep, ApartStep, ConnectionsStep, OwnedStep, PastStep DEF IInv
  <1> QED
    BY InitHolds, <1>1, PTL DEF Spec

-----------------------------------------------------------------------------
(* Whatever fails and is tried again, each registration has a socket of its *)
(* own with the port of its slot and processor, or, over IPv6 with an       *)
(* explicit port, one that the system chose.                                *)
THEOREM ConnectionsHaveTheirPort == Spec => []ConnectedFromItsPort
  <1>1. IInv => ConnectedFromItsPort
    <2> SUFFICES ASSUME IInv, NEW r \in registered
                 PROVE  \E s \in sockets :
                   /\ s.no = r.sock
                   /\ s.port = srcPort(r.call) \/ (s.port = 0 /\ Family(r.call) = "v6" /\ ~Rotates(r.call))
                   /\ \A o \in sockets \ {s} :
                        s.port # 0 /\ o.family = Family(r.call) => o.no # r.sock /\ o.port # s.port
      BY DEF ConnectedFromItsPort
    <2>1. PICK s \in sockets : s.no = r.sock /\ Serves(s, r.call)
      BY DEF IInv, Connections, Kept
    <2>2. \A o \in sockets \ {s} :
            s.port # 0 /\ o.family = Family(r.call) => o.no # r.sock /\ o.port # s.port
      BY <2>1 DEF IInv, Apart, Serves
    <2> QED
      BY <2>1, <2>2 DEF Serves
  <1> QED
    BY <1>1, ConnectInductive, PTL

(* A port that no registration holds and no failed attempt has left taken   *)
(* is free.                                                                 *)
THEOREM PortsAreFreeAfterClose == Spec => []PortFreeAfterClose
  <1>1. IInv => PortFreeAfterClose
    <2> SUFFICES ASSUME IInv, pc = "idle", NEW r \in returned,
                        ~\E o \in registered : SamePort(o.call, r.call),
                        ~\E e \in returned : SamePort(e.call, r.call) /\ (e.end # "connected" \/ e.tried > 1),
                        NEW s \in sockets, s.family = Family(r.call), s.port = srcPort(r.call)
                 PROVE  FALSE
      BY DEF PortFreeAfterClose, PortIsFree
    <2>1. s.port # 0
      BY PortIsNumber DEF IInv, Types
    <2>2. PICK c \in Call : s.family = Family(c) /\ s.port = srcPort(c) /\ (Held(c, s.no) \/ Left(c))
      BY <2>1 DEF IInv, Owned, Ours
    <2>3. SamePort(c, r.call)
      BY <2>2 DEF SamePort
    <2> QED
      BY <2>2, <2>3 DEF Held, Left
  <1> QED
    BY <1>1, ConnectInductive, PTL

(* Slots are 64 ports apart, so up to 64 processors of a slot have ports of *)
(* their own.                                                               *)
ProcIdsFit == ProcIds \subseteq 0 .. 63

LEMMA OwnPorts ==
    ASSUME ProcIdsFit, NEW c \in Call, NEW d \in Call, srcPort(c) = srcPort(d)
    PROVE  c.slot = d.slot /\ c.procId = d.procId
  <1>1. c.slot \in Slots /\ d.slot \in Slots /\ c.procId \in ProcIds /\ d.procId \in ProcIds
    BY DEF Call
  <1>2. c.slot \in Nat /\ d.slot \in Nat /\ c.procId \in 0 .. 63 /\ d.procId \in 0 .. 63
    BY <1>1, UAgentConnectAssumption DEF ProcIdsFit
  <1>3. PICK a \in Nat, b \in Nat, x \in 0 .. 63, y \in 0 .. 63 :
          a = c.slot /\ b = d.slot /\ x = c.procId /\ y = d.procId
    BY <1>2
  <1>4. PICK p \in Nat : p = srcPort(c) /\ p = srcPort(d)
    BY PortIsNumber
  <1>5. p = 30000 + a * 64 + x + 16 * 64 /\ p = 30000 + b * 64 + y + 16 * 64
    BY <1>3, <1>4 DEF srcPort
  <1>6. a = b /\ x = y
    <2>1. ~(a + 1 <= b) /\ ~(b + 1 <= a)
      BY <1>5
    <2>2. a = b
      BY <2>1
    <2> QED
      BY <1>5, <2>2
  <1> QED
    BY <1>3, <1>6

(* Then bind refuses a registration for one of its own slot and processor   *)
(* only: a socket in the way belongs to a call that has called connect.     *)
LEMMA RefusedStep ==
    ASSUME ProcIdsFit, IInv, RefusedOnlyByOwnPort, [Next]_vars
    PROVE  RefusedOnlyByOwnPort'
  <1> DEFINE Own(r) == \/ r.tried > 0
                       \/ \E e \in returned : /\ e.call.id < r.call.id /\ e.tried > 0
                                              /\ Family(e.call) = Family(r.call)
                                              /\ e.call.slot = r.call.slot /\ e.call.procId = r.call.procId
  <1>1. \A r \in returned : r.end = "bind" => Own(r)
    BY DEF RefusedOnlyByOwnPort
  <1>2. returned \subseteq returned'
    BY DEF Next, Register, NoSocket, SocketAndBind, Connect, ConnectNewPort, Connected,
           SleepAndRetry, ClientClose, Toggle, Return, vars, callVars
  <1>3. ASSUME NEW r \in returned' \ returned, r.end = "bind"
        PROVE  Own(r)
    <2>1. /\ SocketAndBind /\ ~PortIsFree(Family(cur), srcPort(cur))
          /\ r.call = cur /\ r.tried = round
      BY <1>3 DEF Next, Register, NoSocket, SocketAndBind, Connect, ConnectNewPort, Connected,
                  SleepAndRetry, ClientClose, Toggle, Return, vars, callVars
    <2>2. cur \in Call /\ pc = "socket" /\ round \in Nat
      BY <2>1 DEF IInv, Types, SocketAndBind
    <2>3. PICK s \in sockets : s.family = Family(cur) /\ s.port = srcPort(cur)
      BY <2>1 DEF PortIsFree
    <2>4. PICK c \in Call : /\ s.family = Family(c) /\ s.port = srcPort(c)
                            /\ Held(c, s.no) \/ Left(c) \/ Ours(c, s.no)
      BY <2>2, <2>3, PortIsNumber DEF IInv, Owned
    <2>5. c.slot = cur.slot /\ c.procId = cur.procId
      BY <2>2, <2>3, <2>4, OwnPorts
    <2>6. CASE Ours(c, s.no)
      BY <2>1, <2>2, <2>6 DEF Ours
    <2>7. CASE Held(c, s.no) \/ Left(c)
      <3>1. PICK e \in returned : e.call = c /\ e.tried > 0
        BY <2>7 DEF Held, Left, IInv, Past
      <3>2. e.call.id < cur.id
        BY <2>2 DEF IInv, Past
      <3> QED
        BY <2>1, <2>3, <2>4, <2>5, <3>1, <3>2
    <2> QED
      BY <2>4, <2>6, <2>7
  <1>4. \A r \in returned' : r.end = "bind" => Own(r)
    BY <1>1, <1>3
  <1> QED
    BY <1>2, <1>4 DEF RefusedOnlyByOwnPort

THEOREM RefusalsAreOwn == ProcIdsFit => (Spec => []RefusedOnlyByOwnPort)
  <1> SUFFICES ASSUME ProcIdsFit PROVE Spec => []RefusedOnlyByOwnPort
    OBVIOUS
  <1>1. Init => RefusedOnlyByOwnPort
    BY DEF Init, RefusedOnlyByOwnPort
  <1>2. IInv /\ RefusedOnlyByOwnPort /\ [Next]_vars => RefusedOnlyByOwnPort'
    BY RefusedStep
  <1> QED
    BY <1>1, <1>2, ConnectInductive, PTL DEF Spec

-----------------------------------------------------------------------------
(* How many sockets the calls before this one may have made at most. *)
Made(n) == (n - 1) * CONNECTTCPSERVER_RETRY_NUMBER

LEMMA MadeFacts ==
  ASSUME NEW n \in Nat \ {0}
  PROVE  /\ Made(n) \in Nat /\ Made(n + 1) = Made(n) + CONNECTTCPSERVER_RETRY_NUMBER
         /\ n <= MaxCalls + 1 => Made(n) <= MaxCalls * CONNECTTCPSERVER_RETRY_NUMBER
  <1>1. PICK r \in Nat \ {0} : r = CONNECTTCPSERVER_RETRY_NUMBER
    BY UAgentConnectAssumption
  <1>2. PICK m \in Nat : m = n - 1
    OBVIOUS
  <1>3. PICK c \in Nat : c = MaxCalls
    BY UAgentConnectAssumption
  <1>4. \A a \in Nat : a * r \in Nat /\ (a + 1) * r = a * r + r
    BY SMT
  <1>5. ASSUME m <= c PROVE m * r <= c * r
    <2>1. PICK d \in Nat : c = m + d
      BY <1>5
    <2>2. (m + d) * r = m * r + d * r
      BY SMT
    <2>3. d * r \in Nat /\ m * r \in Nat
      BY <1>4
    <2> QED
      BY <2>1, <2>2, <2>3
  <1>6. Made(n) = m * r /\ Made(n + 1) = (m + 1) * r
    BY <1>1, <1>2 DEF Made
  <1>7. n <= MaxCalls + 1 => m <= c
    BY <1>2, <1>3
  <1> QED
    BY <1>1, <1>3, <1>4, <1>5, <1>6, <1>7

(* A call makes one socket in a round, and no round more than it may. *)
Numbers ==
  /\ nextId <= MaxCalls + 1 /\ nextNo # 0
  /\ pc = "idle" => nextNo - 1 <= Made(nextId)
  /\ pc # "idle" => /\ nextId > 1
                    /\ nextNo - 1 <= Made(nextId - 1) + round + (IF pc = "socket" THEN 0 ELSE 1)

LEMMA NumbersStep ==
  ASSUME Types, TypeOK, Numbers, [Next]_vars
  PROVE  Numbers' /\ nextNo' - 1 <= MaxCalls * CONNECTTCPSERVER_RETRY_NUMBER
  <1>1. PICK r \in Nat \ {0} : r = CONNECTTCPSERVER_RETRY_NUMBER
    BY UAgentConnectAssumption
  <1>2. PICK c \in Nat : c = MaxCalls
    BY UAgentConnectAssumption
  <1>3. PICK i \in Nat \ {0} : i = nextId
    BY DEF Types
  <1>4. PICK n \in Nat \ {0} : n = nextNo
    BY DEF Types, Numbers
  <1>5. PICK k \in 0 .. r - 1 : k = round
    BY <1>1 DEF TypeOK
  <1>6. PICK here \in Nat : here = Made(i)
    BY MadeFacts
  <1>7. PICK limit \in Nat : limit = MaxCalls * CONNECTTCPSERVER_RETRY_NUMBER
    BY <1>1, <1>2
  <1>8. i <= c + 1 /\ here <= limit
    BY <1>2, <1>3, <1>6, <1>7, MadeFacts DEF Numbers
  <1>9. pc = "idle" => n - 1 <= here
    BY <1>3, <1>4, <1>6 DEF Numbers
  <1>10. ASSUME pc # "idle"
         PROVE  \E past \in Nat : /\ past = Made(i - 1) /\ here = past + r /\ i > 1
                                  /\ n - 1 <= past + k + (IF pc = "socket" THEN 0 ELSE 1)
    <2>1. i > 1 /\ n - 1 <= Made(i - 1) + k + (IF pc = "socket" THEN 0 ELSE 1)
      BY <1>3, <1>4, <1>5, <1>10 DEF Numbers
    <2>2. i - 1 \in Nat \ {0} /\ (i - 1) + 1 = i
      BY <2>1
    <2>3. Made(i - 1) \in Nat /\ here = Made(i - 1) + r
      BY <1>1, <1>6, <2>2, MadeFacts
    <2> QED
      BY <2>1, <2>3
  <1>11. CASE \E ip \in Boards, pid \in Pids, slot \in Slots, procId \in ProcIds : Register(ip, pid, slot, procId)
    <2>1. pc = "idle" /\ i <= c /\ pc' = "socket" /\ round' = 0 /\ nextId' = i + 1 /\ nextNo' = n
      BY <1>2, <1>3, <1>4, <1>11 DEF Register
    <2>2. nextId' - 1 = i /\ Made(nextId' - 1) = here
      BY <1>6, <2>1
    <2> QED
      BY <1>2, <1>4, <1>7, <1>8, <1>9, <2>1, <2>2 DEF Numbers
  <1>12. CASE SocketAndBind
    <2>1. pc = "socket" /\ nextNo' = n + 1 /\ round' = k /\ nextId' = i /\ pc' \in {"connect", "idle"}
      BY <1>3, <1>4, <1>5, <1>12 DEF SocketAndBind, NewSocket, Return
    <2>2. PICK past \in Nat : past = Made(i - 1) /\ here = past + r /\ i > 1 /\ n - 1 <= past + k
      BY <1>10, <2>1
    <2>3. n + 1 - 1 <= past + k + 1 /\ n + 1 - 1 <= here
      BY <2>2
    <2>4. Made(nextId') = here /\ Made(nextId' - 1) = past
      BY <1>6, <2>1, <2>2
    <2> QED
      BY <1>2, <1>4, <1>7, <1>8, <2>1, <2>2, <2>3, <2>4 DEF Numbers
  <1>13. CASE SleepAndRetry
    <2>1. pc = "sleep" /\ nextNo' = n /\ nextId' = i
      BY <1>3, <1>4, <1>13 DEF SleepAndRetry
    <2>2. \/ k + 1 < r /\ pc' = "socket" /\ round' = k + 1
          \/ pc' = "idle"
      BY <1>1, <1>5, <1>13 DEF SleepAndRetry, Return
    <2>3. PICK past \in Nat : past = Made(i - 1) /\ here = past + r /\ i > 1 /\ n - 1 <= past + k + 1
      BY <1>10, <2>1
    <2>4. n - 1 <= here
      BY <2>3
    <2>5. Made(nextId') = here /\ Made(nextId' - 1) = past
      BY <1>6, <2>1, <2>3
    <2> QED
      BY <1>2, <1>4, <1>7, <1>8, <2>1, <2>2, <2>3, <2>4, <2>5 DEF Numbers
  <1>14. CASE NoSocket \/ Connect \/ ConnectNewPort
    <2>1. pc # "idle" /\ nextNo' = n /\ nextId' = i /\ round' = k
      BY <1>3, <1>4, <1>5, <1>14 DEF NoSocket, Connect, ConnectNewPort
    <2>2. pc' = "idle" \/ (pc \in {"connect", "new"} /\ pc' \in {"new", "sleep"})
      BY <1>14 DEF NoSocket, Connect, ConnectNewPort, Connected, Return
    <2>3. PICK past \in Nat : /\ past = Made(i - 1) /\ here = past + r /\ i > 1
                              /\ n - 1 <= past + k + (IF pc = "socket" THEN 0 ELSE 1)
      BY <1>10, <2>1
    <2>4. n - 1 <= here
      BY <2>3
    <2>5. Made(nextId') = here /\ Made(nextId' - 1) = past
      BY <1>6, <2>1, <2>3
    <2> QED
      BY <1>2, <1>4, <1>7, <1>8, <2>1, <2>2, <2>3, <2>4, <2>5 DEF Numbers
  <1>15. CASE (\E x \in registered : ClientClose(x)) \/ (\E b \in Boards : Toggle(b)) \/ UNCHANGED vars
    <2>1. pc' = pc /\ round' = round /\ nextId' = nextId /\ nextNo' = nextNo
      BY <1>15 DEF ClientClose, Toggle, callVars, vars
    <2>2. n - 1 <= limit
      <3>1. CASE pc = "idle"
        BY <1>8, <1>9, <3>1
      <3>2. CASE pc # "idle"
        <4>1. PICK past \in Nat : here = past + r /\ n - 1 <= past + k + (IF pc = "socket" THEN 0 ELSE 1)
          BY <1>10, <3>2
        <4> QED
          BY <1>8, <4>1
      <3> QED
        BY <3>1, <3>2
    <2> QED
      BY <1>4, <1>7, <2>1, <2>2 DEF Numbers, Made
  <1> QED
    BY <1>11, <1>12, <1>13, <1>14, <1>15 DEF Next

(* The sockets and what is registered stay in range. *)
LEMMA RestOfTypes ==
  ASSUME IInv, IInv', TypeOK, Numbers, [Next]_vars
  PROVE  TypeOK'
  <1>1. Types /\ Types' /\ Connections
    BY DEF IInv
  <1>2. PICK r \in Nat \ {0} : r = CONNECTTCPSERVER_RETRY_NUMBER
    BY UAgentConnectAssumption
  <1>3. round \in 0 .. r - 1 /\ target \in Nat /\ toggles \in 0 .. MaxToggles
    BY <1>2 DEF TypeOK
  <1>4. cur' \in Call \cup {NoCall} /\ (pc' # "idle" => cur' \in Call)
    BY <1>1 DEF TypeOK, Types, Next, Register, NoSocket, SocketAndBind, Connect, ConnectNewPort, SleepAndRetry,
                ClientClose, Toggle, callVars, vars
  <1>5. round' \in 0 .. r - 1
    BY <1>2, <1>3 DEF Next, Register, NoSocket, SocketAndBind, Connect, ConnectNewPort, SleepAndRetry, ClientClose,
                      Toggle, callVars, vars
  <1>6. target' \in Nat
    <2>1. \A pid \in Pids : SetPid(pid) \in Nat
      BY UAgentConnectAssumption DEF SetPid, CONNECTTCPSERVER_PORT_NULL, CONNECTTCPSERVER_PORT_OLD
    <2> QED
      BY <1>3, <2>1 DEF Next, Register, NoSocket, SocketAndBind, Connect, ConnectNewPort, SleepAndRetry, ClientClose,
                        Toggle, callVars, vars, CONNECTTCPSERVER_PORT_OLD, CONNECTTCPSERVER_PORT_NEW
  <1>7. toggles' \in 0 .. MaxToggles /\ up' \subseteq Boards
    <2>1. MaxToggles \in Nat /\ up \subseteq Boards
      BY UAgentConnectAssumption DEF TypeOK
    <2> QED
      BY <1>3, <2>1 DEF Next, Register, NoSocket, SocketAndBind, Connect, ConnectNewPort, SleepAndRetry, ClientClose,
                        Toggle, callVars, vars
  <1>8. SocketNos = 1 .. MaxCalls * r
    BY <1>2 DEF SocketNos
  <1>9. nextId' \in 1 .. MaxCalls + 1 /\ nextNo' \in Nat /\ nextNo' - 1 <= MaxCalls * r
    BY <1>1, <1>2, NumbersStep, UAgentConnectAssumption DEF Types, Numbers
  <1>10. nextNo \in Nat \ {0} /\ nextNo' \in {nextNo, nextNo + 1}
    BY <1>1 DEF Types, Numbers, Next, Register, NoSocket, SocketAndBind, NewSocket, Connect, ConnectNewPort,
                SleepAndRetry, ClientClose, Toggle, callVars, vars
  <1>11. sock' \in SocketNos \cup {0} /\ sockets' \subseteq Socket
    <2>1. CASE SocketAndBind
      <3>1. srcPort(cur) \in Nat
        <4>1. cur.slot \in Nat /\ cur.procId \in Nat
          BY <1>1, <2>1, UAgentConnectAssumption DEF SocketAndBind, Types, Call
        <4>2. PICK slot \in Nat : slot = cur.slot
          BY <4>1
        <4>3. PICK procId \in Nat : procId = cur.procId
          BY <4>1
        <4> QED
          BY <4>2, <4>3 DEF srcPort
      <3>2. PICK port \in Nat : NewSocket(port)
        BY <2>1, <3>1 DEF SocketAndBind
      <3>3. nextNo \in SocketNos
        <4>1. PICK limit \in Nat : limit = MaxCalls * r
          BY <1>2, UAgentConnectAssumption
        <4>2. nextNo' = nextNo + 1
          BY <3>2 DEF NewSocket
        <4> QED
          BY <1>8, <1>9, <1>10, <4>1, <4>2
      <3>4. [no |-> nextNo, family |-> Family(cur), port |-> port] \in Socket
        BY <3>2, <3>3 DEF Socket, Family
      <3> QED
        BY <3>2, <3>3, <3>4 DEF NewSocket, TypeOK
    <2>2. CASE sock' \in {sock, 0} /\ sockets' \subseteq sockets
      BY <2>2 DEF TypeOK
    <2> QED
      BY <2>1, <2>2 DEF Next, Register, NoSocket, Connect, ConnectNewPort, SleepAndRetry, ClientClose, Toggle,
                        callVars, vars
  <1>12. registered' \subseteq [call : Call, sock : SocketNos, port : Nat]
    <2>1. CASE (Connect \/ ConnectNewPort) /\ Connected
      <3>1. cur \in Call /\ pc \in {"connect", "new"}
        BY <1>1, <2>1 DEF Connect, ConnectNewPort, Types
      <3>2. sock \in SocketNos
        BY <1>1, <3>1 DEF Connections, Connecting, Kept, TypeOK, Socket
      <3> QED
        BY <1>3, <2>1, <3>1, <3>2 DEF Connected, TypeOK
    <2>2. CASE registered' \subseteq registered
      BY <2>2 DEF TypeOK
    <2> QED
      BY <2>1, <2>2 DEF Next, Register, NoSocket, SocketAndBind, Connect, ConnectNewPort, SleepAndRetry, ClientClose,
                        Toggle, callVars, vars
  <1>13. returned' \subseteq [call : Call, end : Ends, tried : 0 .. CONNECTTCPSERVER_RETRY_NUMBER]
    <2>1. CASE pc # "idle" /\ \E end \in Ends, tried \in {round, round + 1} : Return(end, tried)
      <3>1. PICK end \in Ends, tried \in {round, round + 1} : Return(end, tried)
        BY <2>1
      <3>2. tried \in 0 .. r /\ cur \in Call
        BY <1>1, <1>2, <1>3, <2>1 DEF Types
      <3> QED
        BY <1>2, <3>1, <3>2 DEF Return, TypeOK
    <2>2. CASE returned' = returned
      BY <2>2 DEF TypeOK
    <2> QED
      BY <2>1, <2>2 DEF Next, Register, NoSocket, SocketAndBind, Connect, ConnectNewPort, Connected, SleepAndRetry,
                        ClientClose, Toggle, vars, Ends
  <1>14. pc' \in {"idle", "socket", "connect", "new", "sleep"}
    BY <1>1 DEF Types
  <1> QED
    BY <1>2, <1>4, <1>5, <1>6, <1>7, <1>9, <1>11, <1>12, <1>13, <1>14 DEF TypeOK

(* The calls, the sockets and the registrations stay in range; in particular *)
(* a registration makes no more sockets than it has rounds, although those   *)
(* that failed are never closed (WorkManager.cpp:611-676).                   *)
THEOREM TypeCorrect == Spec => []TypeOK
  <1>1. Init => TypeOK /\ Numbers
    <2>1. PICK c \in Nat : c = MaxCalls
      BY UAgentConnectAssumption
    <2>2. PICK r \in Nat \ {0} : r = CONNECTTCPSERVER_RETRY_NUMBER
      BY UAgentConnectAssumption
    <2>3. Made(1) \in Nat
      BY MadeFacts
    <2> QED
      BY <2>1, <2>2, <2>3, UAgentConnectAssumption DEF Init, TypeOK, Numbers
  <1>2. IInv /\ IInv' /\ TypeOK /\ Numbers /\ [Next]_vars => TypeOK' /\ Numbers'
    BY RestOfTypes, NumbersStep DEF IInv
  <1> QED
    BY <1>1, <1>2, ConnectInductive, PTL DEF Spec

=============================================================================
