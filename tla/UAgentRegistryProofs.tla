------------------------ MODULE UAgentRegistryProofs ------------------------
(***************************************************************************)
(* Theorems about registration against the receive thread, for every set   *)
(* of names, addresses and handles and any number of calls and outages.    *)
(***************************************************************************)
EXTENDS UAgentRegistry, FiniteSets, SequenceTheorems, FiniteSetTheorems, TLAPS

(* What the argument needs of the types. *)
Types ==
    /\ m_NameAddrMap \in [Names -> Entry \cup {NoEntry}]
    /\ m_NameDataMap \subseteq Names /\ todo \subseteq Names
    /\ DOMAIN sockState = Socks /\ DOMAIN requests = Socks
    /\ answers \in [Socks -> Seq({"sig", "data"})]
    /\ used \subseteq Socks /\ clean \in BOOLEAN
    /\ pc # "idle" => cur \in Call

Sock(n) == m_NameAddrMap[n].sock
InLoop  == rcv \in {"deal", "dealing"}

(* A name that is registered has an address and a socket, of its own. *)
Entries ==
    /\ \A n \in Names : IsReal(n) => m_NameAddrMap[n].addr \in Addrs /\ Sock(n) \in Socks
    /\ \A m, n \in Names : IsReal(m) /\ IsReal(n) /\ m # n =>
           m_NameAddrMap[m].addr # m_NameAddrMap[n].addr /\ Sock(m) # Sock(n)

(* A socket is open if and only if a name, or the call that registers one, *)
(* holds it; a closed one has nothing in its streams.                      *)
Sockets ==
    \A s \in Socks :
        /\ sockState[s] # "closed" <=> \/ \E n \in Names : IsReal(n) /\ Sock(n) = s
                                       \/ pc = "insert" /\ cur.sock = s
        /\ sockState[s] = "closed" => requests[s] = <<>> /\ answers[s] = <<>>
        /\ sockState[s] # "closed" => s \in used

(* The call that registers a name: nobody has the name, the address or the *)
(* socket before it is inserted, and nothing was asked of the board yet.   *)
Registering ==
    /\ pc \in {"connect", "insert"} =>
           /\ cur.addr \in Addrs /\ ~InMap(cur.name)
           /\ \A n \in Names : IsReal(n) => m_NameAddrMap[n].addr # cur.addr
    /\ pc = "insert" => \A n \in Names : IsReal(n) => Sock(n) # cur.sock
    /\ pc = "model" => IsReal(cur.name) /\ Sock(cur.name) = cur.sock
    /\ pc \in {"insert", "model"} =>
           cur.sock \in Socks /\ requests[cur.sock] = <<>> /\ answers[cur.sock] = <<>>

(* The call that unregisters one: between m_cs and the erase of the model  *)
(* the receive thread is not at that name, and does not come to it.        *)
Unregistering ==
    /\ pc = "unreg" => cur.addr \in Addrs
    /\ pc = "eraseModel" => /\ ~InMap(cur.name)
                            /\ InLoop => cur.name \notin todo
                            /\ rcv = "dealing" => dealt.name # cur.name

(* A registered name has its packet model, or is about to get it. *)
Models ==
    \A n \in Names : IsReal(n) => n \in m_NameDataMap \/ (pc = "model" /\ cur.name = n)

IInv == Types /\ Entries /\ Sockets /\ Registering /\ Unregistering /\ Models
             /\ IteratorStaysValid

-----------------------------------------------------------------------------
LEMMA InitHolds == Init => IInv
  <1> SUFFICES ASSUME Init PROVE IInv
    OBVIOUS
  <1> USE DEF Init
  <1>1. \A n \in Names : ~IsReal(n)
    BY DEF IsReal, InMap
  <1>2. Types
    BY DEF Types
  <1>3. Entries /\ Sockets /\ Models
    BY <1>1 DEF Entries, Sockets, Models
  <1>4. Registering /\ Unregistering /\ IteratorStaysValid
    BY DEF Registering, Unregistering, IteratorStaysValid
  <1> QED
    BY <1>2, <1>3, <1>4 DEF IInv

(* A step of the test thread, outside a registration, that leaves the maps *)
(* and the sockets alone and at most sends on one that is open.            *)
Quiet ==
    /\ UNCHANGED <<maps, rcvVars, links, answers>>
    /\ pc \notin {"insert", "model"}
    /\ pc' \notin {"connect", "insert", "model", "unreg", "eraseModel"}
    /\ pc' # "idle" => cur' \in Call
    /\ clean' \in BOOLEAN
    /\ DOMAIN requests' = Socks
    /\ \A s \in Socks : sockState[s] = "closed" => requests'[s] = requests[s]

LEMMA QuietKeeps == ASSUME IInv, Quiet PROVE IInv'
  <1> USE DEF IInv, Quiet, maps, rcvVars, links
  <1>1. \A n \in Names : (IsReal(n)' <=> IsReal(n)) /\ (Sock(n)' = Sock(n))
    BY DEF IsReal, InMap, Sock
  <1>2. Types'
    BY DEF Types
  <1>3. Entries'
    BY <1>1 DEF Entries
  <1>4. Sockets'
    BY <1>1 DEF Sockets
  <1>5. Registering' /\ Unregistering' /\ IteratorStaysValid'
    BY DEF Registering, Unregistering, IteratorStaysValid
  <1>6. Models'
    BY <1>1 DEF Models
  <1> QED
    BY <1>2, <1>3, <1>4, <1>5, <1>6

LEMMA NewCallType ==
    ASSUME clean \in BOOLEAN, NEW op \in Ops, NEW n \in Names, NEW a \in Addrs \cup {NoAddr}
    PROVE  /\ NewCall(op, n, a) \in Call
           /\ NewCall(op, n, a).name = n /\ NewCall(op, n, a).addr = a
  <1>1. IsReal(n) \in BOOLEAN
    BY DEF IsReal
  <1> QED
    BY <1>1 DEF NewCall, Call

LEMMA SendMsgFacts ==
    ASSUME DOMAIN requests = Socks, NEW s, NEW msg, SendMsg(s, msg)
    PROVE  /\ DOMAIN requests' = Socks
           /\ \A t \in Socks : sockState[t] = "closed" => requests'[t] = requests[t]
  BY DEF SendMsg

(* Behind a wait there is another wait, or the end of the call. *)
LEMMA NextWait ==
    ASSUME NEW p \in {Waits[k] : k \in 1 .. 4}
    PROVE  /\ p \in {"wait1", "wait2", "wait3", "wait4"}
           /\ p # Waits[4] => Waits[WaitNo(p) + 1] \in {"wait2", "wait3", "wait4"}
  <1>1. PICK k \in 1 .. 4 : Waits[k] = p
    OBVIOUS
  <1>2. WaitNo(p) \in 1 .. 4 /\ Waits[WaitNo(p)] = p
    BY <1>1 DEF WaitNo
  <1>3. PICK j \in 1 .. 4 : j = WaitNo(p) /\ Waits[j] = p
    BY <1>2
  <1>4. Waits[1] = "wait1" /\ Waits[2] = "wait2" /\ Waits[3] = "wait3" /\ Waits[4] = "wait4"
    BY DEF Waits
  <1>5. j = 1 \/ j = 2 \/ j = 3 \/ j = 4
    OBVIOUS
  <1> QED
    BY <1>3, <1>4, <1>5

LEMMA ReturnsKeep ==
    ASSUME IInv, \/ ConnectFails \/ SigSignalled \/ SigTimeout \/ CommandReturns
    PROVE  IInv'
  <1>1. DOMAIN requests = Socks /\ clean \in BOOLEAN /\ (pc # "idle" => cur \in Call)
    BY DEF IInv, Types
  <1>2. CASE ConnectFails \/ CommandReturns
    BY <1>1, <1>2, QuietKeeps DEF ConnectFails, CommandReturns, Return, Quiet, sockVars
  <1>3. CASE SigTimeout
    <2>1. pc \in {"wait1", "wait2", "wait3", "wait4"}
      BY <1>3, NextWait DEF SigTimeout
    <2> QED
      BY <1>1, <1>3, <2>1, QuietKeeps DEF SigTimeout, Return, Quiet, sockVars
  <1>4. CASE SigSignalled
    <2>1. pc \in {"wait1", "wait2", "wait3", "wait4"}
      BY <1>4, NextWait DEF SigSignalled
    <2>2. CASE pc = Waits[4]
      BY <1>1, <1>4, <2>1, <2>2, QuietKeeps DEF SigSignalled, Return, Quiet
    <2>3. CASE pc # Waits[4]
      <3>1. pc' \in {"wait2", "wait3", "wait4"} /\ cur' = cur /\ SendMsg(cur.sock, "service")
        BY <1>4, <2>3, NextWait DEF SigSignalled, Begin
      <3>2. /\ DOMAIN requests' = Socks
            /\ \A t \in Socks : sockState[t] = "closed" => requests'[t] = requests[t]
        BY <1>1, <3>1, SendMsgFacts
      <3> QED
        BY <1>1, <1>4, <2>1, <3>1, <3>2, QuietKeeps DEF SigSignalled, Quiet
    <2> QED
      BY <2>2, <2>3
  <1> QED
    BY <1>2, <1>3, <1>4

LEMMA RegisterKeeps ==
    ASSUME IInv, NEW n \in Names, NEW a \in Addrs, RegisterProc(n, a)
    PROVE  IInv'
  <1>1. DOMAIN requests = Socks /\ clean \in BOOLEAN
    BY DEF IInv, Types
  <1>2. CASE InMap(n) \/ AddrAlreadyInUse(a)
    BY <1>1, <1>2, QuietKeeps DEF RegisterProc, Enter, Return, Quiet, sockVars
  <1>3. CASE ~(InMap(n) \/ AddrAlreadyInUse(a))
    <2>1. /\ pc = "idle" /\ pc' = "connect"
          /\ cur' \in Call /\ cur'.name = n /\ cur'.addr = a
      BY <1>1, <1>3, NewCallType DEF RegisterProc, Enter, Begin, Ops
    <2>2. UNCHANGED <<clean, maps, m_hSigRspEvent, rcvVars, sockVars>>
      BY DEF RegisterProc
    <2> USE DEF maps, rcvVars, sockVars, links
    <2>3. \A m \in Names : (IsReal(m)' <=> IsReal(m)) /\ (Sock(m)' = Sock(m)) /\ (InMap(m)' <=> InMap(m))
      BY <2>2 DEF IsReal, InMap, Sock
    <2>4. Types' /\ Entries'
      BY <2>1, <2>2, <2>3 DEF IInv, Types, Entries
    <2>5. Sockets'
      BY <2>1, <2>2, <2>3 DEF IInv, Sockets
    <2>6. Registering'
      BY <1>3, <2>1, <2>2, <2>3 DEF Registering, AddrAlreadyInUse, IsReal
    <2>7. Unregistering' /\ IteratorStaysValid' /\ Models'
      BY <2>1, <2>2, <2>3 DEF IInv, Unregistering, IteratorStaysValid, Models
    <2> QED
      BY <2>4, <2>5, <2>6, <2>7 DEF IInv
  <1> QED
    BY <1>2, <1>3

LEMMA ConnectedKeeps == ASSUME IInv, NEW s \in Socks, Connected(s) PROVE IInv'
  <1>1. /\ pc = "connect" /\ pc' = "insert" /\ sockState[s] = "closed"
        /\ used' = used \cup {s} /\ sockState' = [sockState EXCEPT ![s] = "open"]
        /\ UNCHANGED <<clean, maps, rcv, readfds, todo, dealt, requests, answers>>
    BY DEF Connected
  <1>2. cur' \in Call /\ cur'.name = cur.name /\ cur'.addr = cur.addr /\ cur'.sock = s
    <2>1. cur \in Call /\ cur' = [cur EXCEPT !.sock = s]
      BY <1>1 DEF IInv, Types, Connected
    <2> QED
      BY <2>1 DEF Call
  <1> USE DEF maps, rcvVars
  <1>3. \A n \in Names : (IsReal(n)' <=> IsReal(n)) /\ (Sock(n)' = Sock(n)) /\ (InMap(n)' <=> InMap(n))
    BY <1>1 DEF IsReal, InMap, Sock
  <1>4. \A n \in Names : IsReal(n) => Sock(n) # s
    BY <1>1 DEF IInv, Sockets
  <1>5. Types'
    BY <1>1, <1>2 DEF IInv, Types
  <1>6. Entries'
    BY <1>1, <1>3 DEF IInv, Entries
  <1>7. Sockets'
    BY <1>1, <1>2, <1>3, <1>4 DEF IInv, Types, Sockets
  <1>8. Registering'
    <2>1. requests[s] = <<>> /\ answers[s] = <<>>
      BY <1>1 DEF IInv, Sockets
    <2>2. /\ cur.addr \in Addrs /\ ~InMap(cur.name)
          /\ \A n \in Names : IsReal(n) => m_NameAddrMap[n].addr # cur.addr
      BY <1>1 DEF IInv, Registering
    <2>3. ~InMap(cur.name)'
      BY <1>1, <1>2, <2>2 DEF InMap
    <2> QED
      BY <1>1, <1>2, <1>3, <1>4, <2>1, <2>2, <2>3 DEF Registering
  <1>9. Unregistering' /\ IteratorStaysValid' /\ Models'
    BY <1>1, <1>3 DEF IInv, Unregistering, IteratorStaysValid, Models
  <1> QED
    BY <1>5, <1>6, <1>7, <1>8, <1>9 DEF IInv

(* An entry with an address in it is a registered name's. *)
LEMMA EntryIsReal ==
    /\ \A a \in Addrs, s \in Socks :
         /\ [addr |-> a, sock |-> s] \in Entry
         /\ [addr |-> a, sock |-> s] # NoEntry /\ a # NoAddr
    /\ \A s \in Socks \cup {NotASocket} : [addr |-> NoAddr, sock |-> s] \in Entry
  BY UAgentRegistryValues DEF Entry, NoEntry

LEMMA InsertAddrKeeps == ASSUME IInv, InsertAddr PROVE IInv'
  <1>n. PICK n \in Names : n = cur.name
    BY DEF InsertAddr, IInv, Types, Call
  <1>1. /\ pc = "insert" /\ pc' = "model"
        /\ m_NameAddrMap' = [m_NameAddrMap EXCEPT ![n] = [addr |-> cur.addr, sock |-> cur.sock]]
        /\ todo' \in {todo, todo \cup {n}}
        /\ UNCHANGED <<cur, clean, m_NameDataMap, rcv, dealt, sockVars>>
    BY <1>n DEF InsertAddr, InsertEntry
  <1>2. n \in Names /\ cur \in Call /\ cur.addr \in Addrs /\ cur.sock \in Socks /\ ~InMap(n)
    BY <1>1, <1>n DEF IInv, Types, Registering, Call
  <1> USE DEF sockVars, links
  <1>3. /\ IsReal(n)' /\ m_NameAddrMap'[n].addr = cur.addr /\ Sock(n)' = cur.sock
        /\ \A m \in Names : m # n =>
             /\ m_NameAddrMap'[m] = m_NameAddrMap[m]
             /\ (IsReal(m)' <=> IsReal(m)) /\ (Sock(m)' = Sock(m))
    BY <1>1, <1>2, EntryIsReal DEF IInv, Types, IsReal, InMap, Sock
  <1>4. ~IsReal(n)
    BY <1>2 DEF IsReal
  <1>5. Types'
    BY <1>1, <1>2, EntryIsReal DEF IInv, Types
  <1>a. \A m \in Names : IsReal(m) =>
          m_NameAddrMap[m].addr # cur.addr /\ Sock(m) # cur.sock
    BY <1>1 DEF IInv, Registering
  <1>6. Entries'
    <2>1. \A m \in Names : IsReal(m)' => m_NameAddrMap'[m].addr \in Addrs /\ Sock(m)' \in Socks
      BY <1>2, <1>3 DEF IInv, Entries
    <2>2. ASSUME NEW m \in Names, NEW o \in Names, IsReal(m)', IsReal(o)', m # o
          PROVE  m_NameAddrMap'[m].addr # m_NameAddrMap'[o].addr /\ Sock(m)' # Sock(o)'
      <3>1. CASE m # n /\ o # n
        BY <1>3, <2>2, <3>1 DEF IInv, Entries
      <3>2. CASE m = n \/ o = n
        BY <1>3, <1>a, <2>2, <3>2
      <3> QED
        BY <3>1, <3>2
    <2> QED
      BY <2>1, <2>2 DEF Entries
  <1>7. Sockets'
    <2>1. ASSUME NEW s \in Socks
          PROVE  (\E m \in Names : IsReal(m)' /\ Sock(m)' = s)
                   <=> (s = cur.sock \/ \E m \in Names : IsReal(m) /\ Sock(m) = s)
      BY <1>2, <1>3, <1>4
    <2> QED
      BY <1>1, <2>1 DEF IInv, Sockets
  <1>8. Registering'
    BY <1>1, <1>2, <1>3, <1>n DEF IInv, Registering
  <1>9. Unregistering' /\ IteratorStaysValid' /\ Models'
    BY <1>1, <1>2, <1>3, <1>n DEF IInv, Unregistering, IteratorStaysValid, Models
  <1> QED
    BY <1>5, <1>6, <1>7, <1>8, <1>9 DEF IInv

LEMMA InsertModelKeeps == ASSUME IInv, InsertModel PROVE IInv'
  <1>1. /\ pc = "model" /\ pc' = "wait1" /\ cur.name \in Names
        /\ m_NameDataMap' = m_NameDataMap \cup {cur.name}
        /\ UNCHANGED <<cur, m_NameAddrMap, rcvVars, links, answers>>
    BY DEF InsertModel, IInv, Types, Call
  <1>2. clean' \in BOOLEAN
    BY DEF InsertModel
  <1>3. /\ DOMAIN requests' = Socks
        /\ \A t \in Socks : sockState[t] = "closed" => requests'[t] = requests[t]
    BY SendMsgFacts DEF InsertModel, IInv, Types
  <1> USE DEF rcvVars, links
  <1>4. \A n \in Names : (IsReal(n)' <=> IsReal(n)) /\ (Sock(n)' = Sock(n))
    BY <1>1 DEF IsReal, InMap, Sock
  <1>5. Types'
    BY <1>1, <1>2, <1>3 DEF IInv, Types
  <1>6. Entries' /\ Registering' /\ Unregistering'
    BY <1>1, <1>4 DEF IInv, Entries, Registering, Unregistering
  <1>7. Sockets'
    BY <1>1, <1>3, <1>4 DEF IInv, Sockets
  <1>8. IteratorStaysValid' /\ Models'
    BY <1>1, <1>4 DEF IInv, IteratorStaysValid, Models
  <1> QED
    BY <1>5, <1>6, <1>7, <1>8 DEF IInv

(* A step that leaves the map of addresses, and which sockets are open,    *)
(* as they are.                                                            *)
LEMMA SameEntries ==
    ASSUME UNCHANGED m_NameAddrMap
    PROVE  \A n \in Names : /\ (IsReal(n)' <=> IsReal(n)) /\ (InMap(n)' <=> InMap(n))
                            /\ Sock(n)' = Sock(n)
  BY DEF IsReal, InMap, Sock

LEMMA SameRegistration ==
    ASSUME Registering, UNCHANGED <<pc, cur, m_NameAddrMap>>,
           pc \in {"insert", "model"} => requests'[cur.sock] = <<>> /\ answers'[cur.sock] = <<>>
    PROVE  Registering'
  <1>1. /\ ~InMap(cur.name) => ~InMap(cur.name)'
        /\ IsReal(cur.name) => IsReal(cur.name)'
        /\ Sock(cur.name)' = Sock(cur.name)
    BY DEF InMap, IsReal, Sock
  <1> QED
    BY <1>1, SameEntries DEF Registering

LEMMA UnRegisterProcKeeps ==
    ASSUME IInv, NEW n \in Names, NEW a \in Addrs, UnRegisterProc(n, a)
    PROVE  IInv'
  <1>1. /\ pc = "idle" /\ pc' = "unreg"
        /\ UNCHANGED <<clean, maps, rcvVars, sockVars>>
    BY DEF UnRegisterProc, Enter, Begin
  <1>2. cur' \in Call /\ cur'.addr \in Addrs
    BY NewCallType DEF UnRegisterProc, Begin, Ops, IInv, Types
  <1> USE DEF maps, rcvVars, sockVars, links
  <1>3. Types'
    BY <1>1, <1>2 DEF IInv, Types
  <1>4. Entries' /\ Sockets' /\ Models'
    BY <1>1, SameEntries DEF IInv, Entries, Sockets, Models
  <1>5. Registering' /\ Unregistering' /\ IteratorStaysValid'
    BY <1>1, <1>2 DEF IInv, Registering, Unregistering, IteratorStaysValid
  <1> QED
    BY <1>3, <1>4, <1>5 DEF IInv

(* The section closes the socket of the name and erases the entry. *)
LEMMA CloseKeeps ==
    ASSUME IInv, UnRegisterLocked, IsInfoMatch(cur.name, cur.addr)
    PROVE  IInv'
  <1>n. PICK n \in Names : n = cur.name
    BY DEF UnRegisterLocked, IInv, Types, Call
  <1>s. PICK s \in Socks : s = Sock(n) /\ IsReal(n)
    BY <1>n, UAgentRegistryValues
       DEF UnRegisterLocked, IsInfoMatch, IsReal, IInv, Unregistering, Entries
  <1>1. /\ pc = "unreg" /\ ~InLoop /\ pc' = "eraseModel" /\ cur' = cur
        /\ m_NameAddrMap' = [m_NameAddrMap EXCEPT ![n] = NoEntry]
        /\ sockState' = [sockState EXCEPT ![s] = "closed"]
        /\ requests' = [requests EXCEPT ![s] = <<>>]
        /\ answers' = [answers EXCEPT ![s] = <<>>]
        /\ UNCHANGED <<clean, m_NameDataMap, rcvVars, used>>
    BY <1>n, <1>s DEF UnRegisterLocked, CloseAndErase, ClientClose, Begin, Sock, InLoop
  <1>2. /\ ~InMap(n)' /\ ~IsReal(n)'
        /\ \A m \in Names : m # n =>
             /\ m_NameAddrMap'[m] = m_NameAddrMap[m]
             /\ (IsReal(m)' <=> IsReal(m)) /\ (Sock(m)' = Sock(m))
    BY <1>1 DEF IInv, Types, IsReal, InMap, Sock
  <1>3. \A m \in Names : IsReal(m) /\ m # n => Sock(m) # s
    BY <1>s DEF IInv, Entries
  <1> USE DEF rcvVars
  <1>4. Types'
    <2>1. answers' \in [Socks -> Seq({"sig", "data"})]
      BY <1>1, EmptySeq DEF IInv, Types
    <2> QED
      BY <1>1, <2>1 DEF IInv, Types
  <1>5. Entries'
    BY <1>1, <1>2 DEF IInv, Entries
  <1>6. Sockets'
    <2>1. ASSUME NEW t \in Socks, t # s
          PROVE  (\E m \in Names : IsReal(m)' /\ Sock(m)' = t)
                   <=> \E m \in Names : IsReal(m) /\ Sock(m) = t
      BY <1>s, <1>2, <2>1
    <2>2. ASSUME NEW t \in Socks, t # s
          PROVE  /\ sockState'[t] = sockState[t] /\ requests'[t] = requests[t]
                 /\ answers'[t] = answers[t]
      BY <1>1, <2>2 DEF IInv, Types
    <2>3. sockState'[s] = "closed" /\ requests'[s] = <<>> /\ answers'[s] = <<>>
      BY <1>1 DEF IInv, Types
    <2>4. ~\E m \in Names : IsReal(m)' /\ Sock(m)' = s
      BY <1>2, <1>3
    <2> QED
      BY <1>1, <2>1, <2>2, <2>3, <2>4 DEF IInv, Sockets
  <1>7. Registering' /\ Unregistering' /\ IteratorStaysValid'
    <2>1. ~InMap(cur.name)'
      BY <1>1, <1>2, <1>n DEF InMap
    <2> QED
      BY <1>1, <2>1 DEF Registering, Unregistering, IteratorStaysValid, InLoop
  <1>8. Models'
    BY <1>1, <1>2 DEF IInv, Models
  <1> QED
    BY <1>4, <1>5, <1>6, <1>7, <1>8 DEF IInv

LEMMA UnRegisterLockedKeeps == ASSUME IInv, UnRegisterLocked PROVE IInv'
  <1>1. CASE IsInfoMatch(cur.name, cur.addr)
    BY <1>1, CloseKeeps
  <1>2. CASE ~IsInfoMatch(cur.name, cur.addr)
    <2>1. DOMAIN requests = Socks /\ clean \in BOOLEAN
      BY DEF IInv, Types
    <2>2. /\ pc = "unreg" /\ pc' = "idle"
          /\ UNCHANGED <<maps, rcvVars, links, answers, requests, clean>>
      BY <1>2 DEF UnRegisterLocked, Return, maps, links
    <2> QED
      BY <2>1, <2>2, QuietKeeps DEF Quiet
  <1> QED
    BY <1>1, <1>2

LEMMA EraseModelKeeps == ASSUME IInv, EraseModel PROVE IInv'
  <1>1. /\ pc = "eraseModel" /\ pc' = "idle"
        /\ m_NameDataMap' = m_NameDataMap \ {cur.name}
        /\ UNCHANGED <<clean, m_NameAddrMap, rcvVars, sockVars>>
    BY DEF EraseModel, Return
  <1>2. ~InMap(cur.name) /\ (rcv = "dealing" => dealt.name # cur.name)
    BY <1>1 DEF IInv, Unregistering
  <1> USE DEF rcvVars, sockVars, links
  <1>3. Types'
    BY <1>1 DEF IInv, Types
  <1>4. Entries' /\ Sockets' /\ Registering' /\ Unregistering'
    BY <1>1, SameEntries DEF IInv, Entries, Sockets, Registering, Unregistering
  <1>5. Models'
    <2>1. \A n \in Names : IsReal(n) => n \in m_NameDataMap /\ n # cur.name
      BY <1>1, <1>2 DEF IInv, Models, IsReal
    <2> QED
      BY <1>1, <2>1, SameEntries DEF Models
  <1>6. IteratorStaysValid'
    BY <1>1, <1>2 DEF IInv, IteratorStaysValid
  <1> QED
    BY <1>3, <1>4, <1>5, <1>6 DEF IInv

LEMMA CommandKeeps == ASSUME IInv, NEW n \in Names, Command(n) PROVE IInv'
  <1>1. /\ pc = "idle" /\ pc' = "cmd"
        /\ UNCHANGED <<clean, m_NameDataMap, rcv, readfds, dealt, links, answers>>
    BY DEF Command, Enter, Begin
  <1>2. cur' \in Call
    BY NewCallType DEF Command, Begin, Ops, IInv, Types
  <1>3. CASE InMap(n)
    <2>1. UNCHANGED <<maps, rcvVars, links, answers>> /\ SendMsg(Sock(n), "command")
      BY <1>1, <1>3 DEF Command, maps, rcvVars, Sock
    <2>2. /\ DOMAIN requests' = Socks
          /\ \A t \in Socks : sockState[t] = "closed" => requests'[t] = requests[t]
      BY <2>1, SendMsgFacts DEF IInv, Types
    <2> QED
      BY <1>1, <1>2, <2>1, <2>2, QuietKeeps DEF Quiet, IInv, Types
  <1>4. CASE ~InMap(n)
    <2>1. PICK s \in Socks \cup {NotASocket} :
              InsertEntry(n, [addr |-> NoAddr, sock |-> s]) /\ SendMsg(s, "command")
      BY <1>4 DEF Command
    <2>2. /\ DOMAIN requests' = Socks
          /\ \A t \in Socks : sockState[t] = "closed" => requests'[t] = requests[t]
      BY <2>1, SendMsgFacts DEF IInv, Types
    <2>3. /\ m_NameAddrMap' = [m_NameAddrMap EXCEPT ![n] = [addr |-> NoAddr, sock |-> s]]
          /\ todo' \in {todo, todo \cup {n}}
      BY <2>1 DEF InsertEntry
    <2>4. \A m \in Names : IsReal(m)' <=> IsReal(m)
      BY <1>4, <2>3 DEF IInv, Types, IsReal, InMap
    <2>5. \A m \in Names : IsReal(m) =>
              m_NameAddrMap'[m] = m_NameAddrMap[m] /\ Sock(m)' = Sock(m)
      BY <1>4, <2>3 DEF IInv, Types, IsReal, InMap, Sock
    <2> USE DEF links
    <2>6. Types'
      BY <1>1, <1>2, <2>2, <2>3, EntryIsReal DEF IInv, Types
    <2>7. Entries'
      BY <2>4, <2>5 DEF IInv, Entries
    <2>8. Sockets'
      BY <1>1, <2>2, <2>4, <2>5 DEF IInv, Sockets
    <2>9. Registering' /\ Unregistering' /\ IteratorStaysValid' /\ Models'
      BY <1>1, <2>4 DEF IInv, Registering, Unregistering, IteratorStaysValid, Models
    <2> QED
      BY <2>6, <2>7, <2>8, <2>9 DEF IInv
  <1> QED
    BY <1>3, <1>4

-----------------------------------------------------------------------------
(* The receive thread *)
LEMMA RoundKeeps ==
    ASSUME IInv, Snapshot \/ SelectFails \/ SelectReady \/ EnterDealLoop
                 \/ DealMsg \/ LeaveDealLoop
    PROVE  IInv'
  <1>1. UNCHANGED <<apiVars, maps, sockVars>>
    BY DEF Snapshot, SelectFails, SelectReady, EnterDealLoop, DealMsg, LeaveDealLoop
  <1>2. rcv' # "dealing" /\ todo' \subseteq Names
    BY DEF Snapshot, SelectFails, SelectReady, EnterDealLoop, DealMsg, LeaveDealLoop, IInv, Types
  <1>3. /\ rcv' = "deal" =>
             \/ todo' = {n \in Names : InMap(n)}
             \/ todo' = todo /\ rcv = "dealing"
    BY DEF Snapshot, SelectFails, SelectReady, EnterDealLoop, DealMsg, LeaveDealLoop
  <1> USE DEF apiVars, maps, sockVars, links
  <1>4. Types'
    BY <1>1, <1>2 DEF IInv, Types
  <1>5. Entries' /\ Sockets' /\ Models'
    BY <1>1, SameEntries DEF IInv, Entries, Sockets, Models
  <1>8. Registering'
    BY <1>1, SameRegistration DEF IInv, Registering
  <1>6. Unregistering'
    BY <1>1, <1>2, <1>3 DEF IInv, Unregistering, InLoop, InMap
  <1>7. IteratorStaysValid'
    BY <1>2 DEF IteratorStaysValid
  <1> QED
    BY <1>4, <1>5, <1>6, <1>7, <1>8 DEF IInv

LEMMA RecvAndFindKeeps == ASSUME IInv, NEW n \in Names, RecvAndFind(n) PROVE IInv'
  <1>1. /\ rcv = "deal" /\ n \in todo /\ todo' = todo \ {n}
        /\ UNCHANGED <<apiVars, maps, links, requests>>
    BY DEF RecvAndFind
  <1>2. \/ rcv' = "deal" /\ dealt' = dealt
        \/ rcv' = "dealing" /\ dealt'.name = n /\ n \in m_NameDataMap
    BY <1>1 DEF RecvAndFind
  <1>3. \/ answers' = answers
        \/ \E s \in Socks : answers[s] # <<>> /\ answers' = [answers EXCEPT ![s] = Tail(@)]
    BY DEF RecvAndFind
  <1>4. /\ answers' \in [Socks -> Seq({"sig", "data"})]
        /\ \A s \in Socks : answers[s] = <<>> => answers'[s] = <<>>
    <2>1. CASE answers' = answers
      BY <2>1 DEF IInv, Types
    <2>2. ASSUME NEW s \in Socks, answers[s] # <<>>, answers' = [answers EXCEPT ![s] = Tail(@)]
          PROVE  <1>4!1 /\ <1>4!2
      <3>1. Tail(answers[s]) \in Seq({"sig", "data"})
        BY <2>2, HeadTailProperties DEF IInv, Types
      <3> QED
        BY <2>2, <3>1 DEF IInv, Types
    <2> QED
      BY <1>3, <2>1, <2>2
  <1> USE DEF apiVars, maps, links
  <1>5. Types'
    BY <1>1, <1>4 DEF IInv, Types
  <1>6. Entries' /\ Models'
    BY <1>1, SameEntries DEF IInv, Entries, Models
  <1>7. Sockets'
    BY <1>1, <1>4, SameEntries DEF IInv, Sockets
  <1>8. Registering'
    <2>1. pc \in {"insert", "model"} => requests'[cur.sock] = <<>> /\ answers'[cur.sock] = <<>>
      BY <1>1, <1>4 DEF IInv, Registering
    <2> QED
      BY <1>1, <2>1, SameRegistration DEF IInv
  <1>9. Unregistering'
    BY <1>1, <1>2 DEF IInv, Unregistering, InLoop, InMap
  <1>10. IteratorStaysValid'
    BY <1>1, <1>2 DEF IteratorStaysValid
  <1> QED
    BY <1>5, <1>6, <1>7, <1>8, <1>9, <1>10 DEF IInv

-----------------------------------------------------------------------------
(* The boards *)
LEMMA AnswersMore ==
    ASSUME IInv, NEW s \in Socks, BoardAnswers(s)
    PROVE  /\ answers' \in [Socks -> Seq({"sig", "data"})]
           /\ answers'[s] # <<>>
           /\ \A t \in Socks : t # s => answers'[t] = answers[t]
  <1> DEFINE more == AnswersTo(s, Head(requests[s]))
  <1>1. more \in Seq({"sig", "data"}) /\ Len(more) \in 1 .. 2
    <2>1. more = <<"data">> \/ more = <<"sig">> \/ more = <<"sig", "sig">>
      BY DEF AnswersTo
    <2>2. /\ <<"data">> \in Seq({"sig", "data"}) /\ Len(<<"data">>) = 1
          /\ <<"sig">> \in Seq({"sig", "data"}) /\ Len(<<"sig">>) = 1
          /\ <<"sig", "sig">> \in Seq({"sig", "data"}) /\ Len(<<"sig", "sig">>) = 2
      OBVIOUS
    <2> HIDE DEF more
    <2>3. Len(more) = 1 \/ Len(more) = 2
      BY <2>1, <2>2, Zenon
    <2>4. more \in Seq({"sig", "data"})
      BY <2>1, <2>2, Zenon
    <2> QED
      BY <2>3, <2>4
  <1>2. answers[s] \in Seq({"sig", "data"}) /\ answers' = [answers EXCEPT ![s] = @ \o more]
    BY DEF IInv, Types, BoardAnswers
  <1> HIDE DEF more
  <1>3. /\ answers[s] \o more \in Seq({"sig", "data"})
        /\ Len(answers[s] \o more) = Len(answers[s]) + Len(more)
    BY <1>1, <1>2, ConcatProperties
  <1>4. Len(answers[s]) \in Nat
    BY <1>2, LenProperties
  <1>5. Len(answers[s] \o more) # 0
    <2>1. PICK k \in Nat, j \in 1 .. 2 : k = Len(answers[s]) /\ j = Len(more)
      BY <1>1, <1>4
    <2>2. k + j # 0
      OBVIOUS
    <2> QED
      BY <1>3, <2>1, <2>2
  <1>6. answers[s] \o more # <<>>
    BY <1>5
  <1> QED
    BY <1>2, <1>3, <1>6 DEF IInv, Types

LEMMA BoardKeeps ==
    ASSUME IInv, NEW s \in Socks, BoardAnswers(s) \/ BoardCloses(s)
    PROVE  IInv'
  <1>1. UNCHANGED <<apiVars, maps, rcvVars, used>> /\ sockState[s] = "open"
    BY DEF BoardAnswers, BoardCloses, links
  <1>2. /\ DOMAIN sockState' = Socks /\ DOMAIN requests' = Socks
        /\ \A t \in Socks : sockState'[t] = "closed" <=> sockState[t] = "closed"
        /\ \A t \in Socks : t # s => requests'[t] = requests[t]
    BY <1>1 DEF BoardAnswers, BoardCloses, links, IInv, Types
  <1>3. /\ answers' \in [Socks -> Seq({"sig", "data"})]
        /\ \A t \in Socks : t # s => answers'[t] = answers[t]
    BY AnswersMore DEF BoardCloses, IInv, Types
  <1>4. \/ requests[s] # <<>>
        \/ requests'[s] = <<>> /\ answers'[s] = answers[s]
    BY DEF BoardAnswers, BoardCloses, IInv, Types
  <1> USE DEF apiVars, maps, rcvVars
  <1>5. Types'
    BY <1>1, <1>2, <1>3 DEF IInv, Types
  <1>6. Entries' /\ Models' /\ Unregistering' /\ IteratorStaysValid'
    BY <1>1, SameEntries DEF IInv, Entries, Models, Unregistering, IteratorStaysValid, InMap, InLoop
  <1>7. Sockets'
    BY <1>1, <1>2, <1>3, SameEntries DEF IInv, Sockets
  <1>8. Registering'
    <2>1. pc \in {"insert", "model"} => requests'[cur.sock] = <<>> /\ answers'[cur.sock] = <<>>
      BY <1>1, <1>2, <1>3, <1>4 DEF IInv, Registering
    <2> QED
      BY <1>1, <2>1, SameRegistration DEF IInv
  <1> QED
    BY <1>5, <1>6, <1>7, <1>8 DEF IInv

-----------------------------------------------------------------------------
(* One case per action of Next. *)
LEMMA StepHolds == IInv /\ [Next]_vars => IInv'
  <1> SUFFICES ASSUME IInv, [Next]_vars PROVE IInv'
    OBVIOUS
  <1>1. ASSUME NEW n \in Names, NEW a \in Addrs, RegisterProc(n, a) PROVE IInv'
    BY <1>1, RegisterKeeps
  <1>2. ASSUME NEW n \in Names, NEW a \in Addrs, UnRegisterProc(n, a) PROVE IInv'
    BY <1>2, UnRegisterProcKeeps
  <1>3. ASSUME NEW n \in Names, Command(n) PROVE IInv'
    BY <1>3, CommandKeeps
  <1>4. CASE CallStep
    BY <1>4, ReturnsKeep, ConnectedKeeps, InsertAddrKeeps, InsertModelKeeps, EraseModelKeeps
       DEF CallStep
  <1>5. CASE UnRegisterLocked
    BY <1>5, UnRegisterLockedKeeps
  <1>6. CASE ReceiveStep
    BY <1>6, RoundKeeps, RecvAndFindKeeps DEF ReceiveStep
  <1>7. ASSUME NEW s \in Socks, BoardAnswers(s) \/ BoardCloses(s) PROVE IInv'
    BY <1>7, BoardKeeps
  <1>8. CASE UNCHANGED vars
    <2> USE <1>8 DEF vars, apiVars, maps, rcvVars, sockVars, links
    <2>1. Types'
      BY DEF IInv, Types
    <2>2. Entries' /\ Sockets' /\ Models' /\ Unregistering' /\ IteratorStaysValid'
      BY SameEntries DEF IInv, Entries, Sockets, Models, Unregistering, IteratorStaysValid, InMap, InLoop
    <2>3. Registering'
      BY SameRegistration DEF IInv, Registering
    <2> QED
      BY <2>1, <2>2, <2>3 DEF IInv
  <1> QED
    BY <1>1, <1>2, <1>3, <1>4, <1>5, <1>6, <1>7, <1>8 DEF Next

THEOREM RegistryInductive == Spec => []IInv
  BY InitHolds, StepHolds, PTL DEF Spec

(* The packet model the receive thread works on is never erased under it,   *)
(* although UnRegisterProc erases it without m_cs (WorkManager.cpp:175-183).*)
THEOREM IteratorsStayValid == Spec => []IteratorStaysValid
  <1>1. IInv => IteratorStaysValid
    BY DEF IInv
  <1> QED
    BY <1>1, RegistryInductive, PTL

(* No two names share an address or a socket, and every open socket can be  *)
(* closed by its name (WorkManager.cpp:87-110, 160-175).                    *)
THEOREM ConnectionsHaveTheirNames == Spec => []EveryConnectionHasItsName
  <1>1. IInv => EveryConnectionHasItsName
    BY DEF IInv, Entries, Sockets, EveryConnectionHasItsName, Sock
  <1> QED
    BY <1>1, RegistryInductive, PTL

(* What a board sends is not dropped for want of a packet model: it sends   *)
(* nothing before it is asked, and it is asked when the model is there      *)
(* (WorkManager.cpp:107-120, 1250).                                         *)
THEOREM NothingIsDropped == Spec => []NothingDroppedAsUnknown
  <1>1. IInv => NothingDroppedAsUnknown
    <2> SUFFICES ASSUME IInv, NEW n \in Names, IsReal(n), answers[Sock(n)] # <<>>
                 PROVE  n \in m_NameDataMap
      BY DEF NothingDroppedAsUnknown, Sock
    <2>1. ~(pc = "model" /\ cur.name = n)
      BY DEF IInv, Registering
    <2> QED
      BY <2>1 DEF IInv, Models
  <1> QED
    BY <1>1, RegistryInductive, PTL

-----------------------------------------------------------------------------
(* What select has found ready is ready when its turn comes, if the handle  *)
(* was not handed out again; so is the socket of the call that is about to  *)
(* enter it in the map.                                                     *)
Answered(s) == s \in readfds /\ s \notin reopened

Selected ==
    NoPhantom =>
        /\ rcv = "lock" => \A s \in Socks : Answered(s) => Ready(s) \/ sockState[s] = "closed"
        /\ InLoop => \A n \in todo : IsReal(n) /\ Answered(Sock(n)) => Ready(Sock(n))
        /\ InLoop /\ pc = "insert" /\ Answered(cur.sock) => Ready(cur.sock)

(* A step that neither connects nor closes a socket, nor takes from one. *)
LEMMA ReadyKeeps ==
    ASSUME IInv, Selected, UNCHANGED <<m_NameAddrMap, rcvVars>>,
           pc' = "insert" => pc = "insert" /\ cur' = cur,
           \A s \in Socks : /\ Ready(s) => Ready(s)'
                            /\ sockState[s] = "closed" => sockState'[s] = "closed"
    PROVE  Selected'
  <1>1. NoPhantom' => NoPhantom
    BY SameEntries DEF NoPhantom
  <1>2. todo \subseteq Names
    BY DEF IInv, Types
  <1>3. \A s : Answered(s)' <=> Answered(s)
    BY DEF Answered, rcvVars
  <1>4. rcv' = rcv /\ todo' = todo
    BY DEF rcvVars
  <1>5. ASSUME NoPhantom', InLoop', NEW n \in todo', IsReal(n)', Answered(Sock(n))' PROVE Ready(Sock(n))'
    <2>1. n \in todo /\ n \in Names /\ IsReal(n) /\ Sock(n)' = Sock(n) /\ InLoop
      BY <1>2, <1>4, <1>5, SameEntries DEF InLoop
    <2>2. Answered(Sock(n)) /\ Sock(n) \in Socks
      BY <1>5, <2>1 DEF IInv, Entries, Answered, rcvVars
    <2>3. Ready(Sock(n))
      BY <1>1, <1>5, <2>1, <2>2 DEF Selected
    <2> QED
      BY <2>1, <2>2, <2>3 DEF Ready
  <1>6. ASSUME NoPhantom', InLoop', pc' = "insert", Answered(cur.sock)' PROVE Ready(cur.sock)'
    <2>1. pc = "insert" /\ cur' = cur /\ cur.sock \in Socks /\ InLoop /\ Answered(cur.sock)
      BY <1>4, <1>6 DEF IInv, Registering, InLoop, Answered, rcvVars
    <2>2. Ready(cur.sock)
      BY <1>1, <1>6, <2>1 DEF Selected
    <2> QED
      BY <2>1, <2>2 DEF Ready
  <1>7. NoPhantom' /\ rcv' = "lock" => \A s \in Socks : Answered(s)' => Ready(s)' \/ sockState'[s] = "closed"
    BY <1>1, <1>3, <1>4 DEF Selected
  <1>8. rcv' = "lock" => ~InLoop'
    BY DEF InLoop
  <1> QED
    BY <1>5, <1>6, <1>7 DEF Selected, Answered

LEMMA SelectedByCalls ==
    ASSUME IInv, Selected,
           \/ CallStep /\ ~InsertAddr /\ \A s \in Socks : ~Connected(s)
           \/ UnRegisterLocked /\ ~IsInfoMatch(cur.name, cur.addr)
           \/ \E n \in Names, a \in Addrs : RegisterProc(n, a) \/ UnRegisterProc(n, a)
           \/ \E n \in Names : Command(n) /\ InMap(n)
    PROVE  Selected'
  <1>1. UNCHANGED <<m_NameAddrMap, rcvVars, links, answers>> /\ pc' # "insert"
    <2>1. CASE SigSignalled
      <3>1. pc' # "insert"
        BY <2>1, NextWait DEF SigSignalled, Return, Begin
      <3> QED
        BY <2>1, <3>1 DEF SigSignalled, maps
    <2>2. CASE ConnectFails \/ SigTimeout \/ CommandReturns \/ EraseModel \/ InsertModel
      BY <2>2 DEF ConnectFails, SigTimeout, CommandReturns, EraseModel, InsertModel, Return,
                  maps, sockVars
    <2>3. CASE UnRegisterLocked /\ ~IsInfoMatch(cur.name, cur.addr)
      BY <2>3 DEF UnRegisterLocked, Return, links
    <2>4. ASSUME NEW n \in Names, NEW a \in Addrs, RegisterProc(n, a) \/ UnRegisterProc(n, a)
          PROVE  <1>1!1 /\ <1>1!2
      BY <2>4 DEF RegisterProc, UnRegisterProc, Return, Begin, maps, sockVars
    <2>5. ASSUME NEW n \in Names, Command(n), InMap(n)
          PROVE  <1>1!1 /\ <1>1!2
      BY <2>5 DEF Command, Begin, rcvVars
    <2> QED
      BY <2>1, <2>2, <2>3, <2>4, <2>5 DEF CallStep
  <1>2. \A s \in Socks : Ready(s)' <=> Ready(s)
    BY <1>1 DEF Ready, links
  <1> QED
    BY <1>1, <1>2, ReadyKeeps DEF links

LEMMA SelectedByConnected ==
    ASSUME IInv, Selected, NEW s \in Socks, Connected(s)
    PROVE  Selected'
  <1>1. /\ sockState[s] = "closed" /\ cur'.sock = s
        /\ sockState' = [sockState EXCEPT ![s] = "open"]
        /\ UNCHANGED <<m_NameAddrMap, rcv, readfds, todo, answers>>
    <2>1. cur \in Call /\ cur' = [cur EXCEPT !.sock = s]
      BY DEF Connected, IInv, Types
    <2>2. cur'.sock = s
      BY <2>1 DEF Call
    <2> QED
      BY <2>2 DEF Connected, maps
  <1>2. NoPhantom' => NoPhantom
    BY <1>1, SameEntries DEF NoPhantom
  <1>3. \A t \in Socks : t # s => (Ready(t)' <=> Ready(t)) /\ sockState'[t] = sockState[t]
    BY <1>1 DEF Ready, IInv, Types
  <1>4. rcv \in {"lock", "deal", "dealing"} => ~Answered(s)' /\ \A t : Answered(t)' => Answered(t)
    BY <1>1 DEF Connected, Answered
  <1>5. todo \subseteq Names
    BY DEF IInv, Types
  <1>6. NoPhantom' /\ rcv' = "lock" => \A t \in Socks : Answered(t)' => Ready(t)' \/ sockState'[t] = "closed"
    BY <1>1, <1>2, <1>3, <1>4 DEF Selected
  <1>7. ASSUME NoPhantom', InLoop', NEW n \in todo', IsReal(n)', Answered(Sock(n))'
        PROVE  Ready(Sock(n))'
    <2>1. n \in todo /\ IsReal(n) /\ Sock(n)' = Sock(n) /\ Sock(n) \in Socks /\ InLoop
      BY <1>1, <1>5, <1>7, SameEntries DEF IInv, Entries, InLoop
    <2>2. Answered(Sock(n)) /\ Sock(n) # s
      BY <1>1, <1>4, <1>7, <2>1 DEF InLoop, Answered
    <2>3. Ready(Sock(n))
      BY <1>2, <1>7, <2>1, <2>2 DEF Selected
    <2> QED
      BY <1>1, <2>1, <2>2, <2>3 DEF Ready, IInv, Types
  <1>8. InLoop' => ~Answered(cur.sock)'
    BY <1>1, <1>4 DEF InLoop, Answered
  <1> QED
    BY <1>6, <1>7, <1>8 DEF Selected

LEMMA SelectedByInsert == ASSUME IInv, Selected, InsertAddr PROVE Selected'
  <1>n. PICK n \in Names : n = cur.name
    BY DEF InsertAddr, IInv, Types, Call
  <1>1. /\ pc = "insert" /\ pc' = "model" /\ cur.sock \in Socks
        /\ m_NameAddrMap' = [m_NameAddrMap EXCEPT ![n] = [addr |-> cur.addr, sock |-> cur.sock]]
        /\ todo' \in {todo, todo \cup {n}}
        /\ UNCHANGED <<rcv, readfds, reopened, sockState, answers>>
    BY <1>n DEF InsertAddr, InsertEntry, sockVars, links, IInv, Registering
  <1>2. /\ Sock(n)' = cur.sock /\ ~IsReal(n) /\ ~InMap(n)
        /\ \A m \in Names : m # n =>
             (InMap(m)' <=> InMap(m)) /\ (IsReal(m)' <=> IsReal(m)) /\ Sock(m)' = Sock(m)
    BY <1>1, <1>n DEF IInv, Types, Registering, IsReal, InMap, Sock
  <1>3. NoPhantom' => NoPhantom
    BY <1>2 DEF NoPhantom
  <1>4. todo \subseteq Names
    BY DEF IInv, Types
  <1>5. \A s : (Ready(s)' <=> Ready(s)) /\ (Answered(s)' <=> Answered(s))
    BY <1>1 DEF Ready, Answered
  <1>6. ASSUME NoPhantom', InLoop', NEW m \in todo', IsReal(m)', Answered(Sock(m))'
        PROVE  Ready(Sock(m))'
    <2>1. InLoop
      BY <1>1, <1>6 DEF InLoop
    <2>2. CASE m = n
      <3>1. Answered(cur.sock) /\ Sock(m)' = cur.sock
        BY <1>1, <1>2, <1>6, <2>2 DEF Answered
      <3>2. Ready(cur.sock)
        BY <1>1, <1>3, <1>6, <2>1, <3>1 DEF Selected
      <3> QED
        BY <1>1, <3>1, <3>2 DEF Ready
    <2>3. CASE m # n
      <3>1. m \in todo /\ m \in Names /\ IsReal(m) /\ Sock(m)' = Sock(m) /\ Answered(Sock(m))
        BY <1>1, <1>2, <1>4, <1>6, <2>3 DEF Answered
      <3>2. Ready(Sock(m))
        BY <1>3, <1>6, <2>1, <3>1 DEF Selected
      <3> QED
        BY <1>1, <3>1, <3>2 DEF Ready
    <2> QED
      BY <2>2, <2>3
  <1>7. NoPhantom' /\ rcv' = "lock" => \A s \in Socks : Answered(s)' => Ready(s)' \/ sockState'[s] = "closed"
    BY <1>1, <1>3, <1>5 DEF Selected
  <1> QED
    BY <1>1, <1>6, <1>7 DEF Selected

LEMMA SelectedByClose ==
    ASSUME IInv, Selected, UnRegisterLocked, IsInfoMatch(cur.name, cur.addr)
    PROVE  Selected'
  <1>n. PICK n \in Names : n = cur.name
    BY DEF UnRegisterLocked, IInv, Types, Call
  <1>s. PICK s \in Socks : s = Sock(n) /\ IsReal(n)
    BY <1>n, UAgentRegistryValues
       DEF UnRegisterLocked, IsInfoMatch, IsReal, IInv, Unregistering, Entries
  <1>1. /\ ~InLoop /\ pc' = "eraseModel"
        /\ m_NameAddrMap' = [m_NameAddrMap EXCEPT ![n] = NoEntry]
        /\ sockState' = [sockState EXCEPT ![s] = "closed"]
        /\ answers' = [answers EXCEPT ![s] = <<>>]
        /\ UNCHANGED <<rcv, readfds, todo, reopened>>
    BY <1>n, <1>s DEF UnRegisterLocked, CloseAndErase, ClientClose, Begin, Sock, InLoop, rcvVars
  <1>2. NoPhantom' => NoPhantom
    BY <1>1, <1>s DEF NoPhantom, InMap, IsReal, IInv, Types
  <1>3. \A t : Answered(t)' <=> Answered(t)
    BY <1>1 DEF Answered
  <1>4. sockState'[s] = "closed" /\ \A t \in Socks : t # s =>
            (Ready(t)' <=> Ready(t)) /\ sockState'[t] = sockState[t]
    BY <1>1 DEF Ready, IInv, Types
  <1>5. NoPhantom' /\ rcv' = "lock" => \A t \in Socks : Answered(t)' => Ready(t)' \/ sockState'[t] = "closed"
    BY <1>1, <1>2, <1>3, <1>4 DEF Selected
  <1>6. ~InLoop'
    BY <1>1 DEF InLoop
  <1> QED
    BY <1>5, <1>6 DEF Selected

LEMMA SelectedByCommand ==
    ASSUME IInv, Selected, NEW n \in Names, Command(n), ~InMap(n)
    PROVE  Selected'
  <1>1. PICK s \in Socks \cup {NotASocket} :
            m_NameAddrMap' = [m_NameAddrMap EXCEPT ![n] = [addr |-> NoAddr, sock |-> s]]
    BY DEF Command, InsertEntry
  <1>2. m_NameAddrMap'[n] = [addr |-> NoAddr, sock |-> s]
    BY <1>1 DEF IInv, Types
  <1>3. [addr |-> NoAddr, sock |-> s] # NoEntry
    BY UAgentRegistryValues DEF NoEntry, NotASocket
  <1>4. InMap(n)' /\ ~IsReal(n)'
    BY <1>2, <1>3 DEF InMap, IsReal
  <1> QED
    BY <1>4 DEF Selected, NoPhantom

LEMMA SelectedByRound ==
    ASSUME IInv, Selected, Snapshot \/ SelectFails \/ SelectReady \/ EnterDealLoop
                           \/ DealMsg \/ LeaveDealLoop
    PROVE  Selected'
  <1>1. UNCHANGED <<apiVars, maps, sockVars>>
    BY DEF Snapshot, SelectFails, SelectReady, EnterDealLoop, DealMsg, LeaveDealLoop
  <1> USE DEF apiVars, maps, sockVars, links
  <1>2. NoPhantom' <=> NoPhantom
    BY <1>1, SameEntries DEF NoPhantom
  <1>3. \A s \in Socks : Ready(s)' <=> Ready(s)
    BY <1>1 DEF Ready
  <1>4. todo \subseteq Names /\ (pc = "insert" => cur.sock \in Socks)
    BY DEF IInv, Types, Registering
  <1>5. CASE Snapshot \/ SelectFails \/ LeaveDealLoop
    BY <1>5 DEF Snapshot, SelectFails, LeaveDealLoop, Selected, InLoop
  <1>6. CASE SelectReady
    <2>1. rcv' = "lock" /\ readfds' = {s \in readfds : Ready(s)}
      BY <1>6 DEF SelectReady
    <2> QED
      BY <1>3, <2>1 DEF Selected, InLoop, Answered
  <1>7. CASE EnterDealLoop
    <2>1. rcv = "lock" /\ rcv' = "deal" /\ todo' \subseteq Names /\ UNCHANGED <<readfds, reopened>>
      BY <1>7 DEF EnterDealLoop
    <2>2. ASSUME NoPhantom, NEW s \in Socks, sockState[s] # "closed", Answered(s)
          PROVE  Ready(s)
      BY <2>1, <2>2 DEF Selected
    <2>3. ASSUME NoPhantom', NEW n \in todo', IsReal(n)', Answered(Sock(n))'
          PROVE  Ready(Sock(n))'
      <3>1. n \in Names /\ IsReal(n) /\ Answered(Sock(n)) /\ Sock(n)' = Sock(n)
        BY <1>1, <2>1, <2>3, SameEntries DEF Answered
      <3>2. Sock(n) \in Socks /\ sockState[Sock(n)] # "closed"
        BY <3>1 DEF IInv, Entries, Sockets
      <3>3. Ready(Sock(n))
        BY <1>2, <2>2, <2>3, <3>1, <3>2
      <3> QED
        BY <1>1, <3>1, <3>3 DEF Ready
    <2>4. ASSUME NoPhantom', pc' = "insert", Answered(cur.sock)' PROVE Ready(cur.sock)'
      <3>1. pc = "insert" /\ cur' = cur /\ cur.sock \in Socks /\ Answered(cur.sock)
        BY <1>1, <1>4, <2>1, <2>4 DEF Answered
      <3>2. sockState[cur.sock] # "closed"
        BY <3>1 DEF IInv, Sockets
      <3>3. Ready(cur.sock)
        BY <1>2, <2>2, <2>4, <3>1, <3>2
      <3> QED
        BY <1>1, <3>1, <3>3 DEF Ready
    <2> QED
      BY <2>1, <2>3, <2>4 DEF Selected, InLoop
  <1>8. CASE DealMsg
    <2>1. rcv = "dealing" /\ rcv' = "deal" /\ UNCHANGED <<readfds, todo, reopened>>
      BY <1>8 DEF DealMsg
    <2>2. ASSUME NoPhantom', NEW n \in todo', IsReal(n)', Answered(Sock(n))'
          PROVE  Ready(Sock(n))'
      <3>1. n \in todo /\ IsReal(n) /\ Answered(Sock(n)) /\ Sock(n)' = Sock(n)
        BY <1>1, <1>4, <2>1, <2>2, SameEntries DEF Answered
      <3>2. Ready(Sock(n))
        BY <1>2, <2>1, <2>2, <3>1 DEF Selected, InLoop
      <3> QED
        BY <1>1, <3>1, <3>2 DEF Ready
    <2>3. ASSUME NoPhantom', pc' = "insert", Answered(cur.sock)' PROVE Ready(cur.sock)'
      <3>1. pc = "insert" /\ cur' = cur /\ Answered(cur.sock)
        BY <1>1, <2>1, <2>3 DEF Answered
      <3>2. Ready(cur.sock)
        BY <1>2, <2>1, <2>3, <3>1 DEF Selected, InLoop
      <3> QED
        BY <1>1, <3>1, <3>2 DEF Ready
    <2> QED
      BY <2>1, <2>2, <2>3 DEF Selected, InLoop
  <1> QED
    BY <1>5, <1>6, <1>7, <1>8

(* recv takes from the socket of one name only. *)
LEMMA SelectedByRecv ==
    ASSUME IInv, Selected, NEW n \in Names, RecvAndFind(n)
    PROVE  Selected'
  <1>1. /\ rcv = "deal" /\ todo' = todo \ {n} /\ rcv' \in {"deal", "dealing"}
        /\ UNCHANGED <<apiVars, maps, readfds, reopened, links>>
    BY DEF RecvAndFind
  <1>2. /\ Sock(n) \notin Socks => answers' = answers
        /\ \A s \in Socks : s # Sock(n) => answers'[s] = answers[s]
    BY DEF RecvAndFind, Sock, IInv, Types
  <1> USE DEF apiVars, maps, links
  <1>3. NoPhantom' <=> NoPhantom
    BY <1>1, SameEntries DEF NoPhantom
  <1>4. todo \subseteq Names
    BY DEF IInv, Types
  <1>5. NoPhantom /\ Sock(n) \in Socks => IsReal(n)
    BY UAgentRegistryValues DEF NoPhantom, InMap, Sock
  <1>6. ASSUME NoPhantom', NEW m \in todo', IsReal(m)', Answered(Sock(m))'
        PROVE  Ready(Sock(m))'
    <2>1. m \in todo /\ m # n /\ m \in Names /\ IsReal(m) /\ Answered(Sock(m)) /\ Sock(m)' = Sock(m)
      BY <1>1, <1>4, <1>6, SameEntries DEF Answered
    <2>2. Ready(Sock(m)) /\ Sock(m) \in Socks
      BY <1>1, <1>3, <1>6, <2>1 DEF Selected, InLoop, IInv, Entries
    <2>3. answers'[Sock(m)] = answers[Sock(m)]
      BY <1>2, <1>3, <1>5, <1>6, <2>1, <2>2 DEF IInv, Entries
    <2> QED
      BY <1>1, <2>1, <2>2, <2>3 DEF Ready
  <1>7. ASSUME NoPhantom', pc' = "insert", Answered(cur.sock)' PROVE Ready(cur.sock)'
    <2>1. pc = "insert" /\ cur' = cur /\ Answered(cur.sock)
      BY <1>1, <1>7 DEF Answered
    <2>2. Ready(cur.sock) /\ cur.sock \in Socks
      BY <1>1, <1>3, <1>7, <2>1 DEF Selected, InLoop, IInv, Registering
    <2>3. answers'[cur.sock] = answers[cur.sock]
      BY <1>2, <1>3, <1>5, <1>7, <2>1, <2>2 DEF IInv, Registering
    <2> QED
      BY <1>1, <2>1, <2>2, <2>3 DEF Ready
  <1> QED
    BY <1>1, <1>6, <1>7 DEF Selected, InLoop

LEMMA SelectedByBoard ==
    ASSUME IInv, Selected, NEW s \in Socks, BoardAnswers(s) \/ BoardCloses(s)
    PROVE  Selected'
  <1>1. /\ UNCHANGED <<apiVars, maps, rcvVars, used>> /\ sockState[s] = "open"
        /\ \A t \in Socks : t # s => sockState'[t] = sockState[t] /\ answers'[t] = answers[t]
    BY AnswersMore DEF BoardAnswers, BoardCloses, links, IInv, Types
  <1>2. sockState'[s] = "eof" \/ answers'[s] # <<>>
    BY AnswersMore DEF BoardCloses, IInv, Types
  <1>3. \A t \in Socks : (Ready(t) => Ready(t)') /\ (sockState[t] = "closed" => sockState'[t] = "closed")
    BY <1>1, <1>2 DEF Ready
  <1> QED
    BY <1>1, <1>3, ReadyKeeps DEF apiVars, maps

(* recv, which holds m_cs, is only called where there is something to       *)
(* receive, but for a handle value that was handed out again since the      *)
(* select, as long as no unknown name was addressed                         *)
(* (WorkManager.cpp:1193, 1200-1236).                                       *)
THEOREM RecvDoesNotBlock == Spec => []RecvBlocksOnlyOnReopened
  <1>1. Init => Selected
    BY DEF Init, Selected, InLoop
  <1>2. IInv /\ Selected /\ [Next]_vars => Selected'
    <2> SUFFICES ASSUME IInv, Selected, [Next]_vars PROVE Selected'
      OBVIOUS
    <2>1. CASE \E n \in Names, a \in Addrs : RegisterProc(n, a) \/ UnRegisterProc(n, a)
      BY <2>1, SelectedByCalls
    <2>2. ASSUME NEW n \in Names, Command(n) PROVE Selected'
      BY <2>2, SelectedByCalls, SelectedByCommand
    <2>3. CASE CallStep
      BY <2>3, SelectedByCalls, SelectedByInsert, SelectedByConnected
    <2>4. CASE UnRegisterLocked
      BY <2>4, SelectedByCalls, SelectedByClose
    <2>5. CASE ReceiveStep
      BY <2>5, SelectedByRound, SelectedByRecv DEF ReceiveStep
    <2>6. ASSUME NEW s \in Socks, BoardAnswers(s) \/ BoardCloses(s) PROVE Selected'
      BY <2>6, SelectedByBoard
    <2>7. CASE UNCHANGED vars
      <3>1. \A s \in Socks : Ready(s)' <=> Ready(s)
        BY <2>7 DEF Ready, vars, sockVars, links
      <3> QED
        BY <2>7, <3>1, ReadyKeeps DEF vars, apiVars, maps, sockVars, links
    <2> QED
      BY <2>1, <2>2, <2>3, <2>4, <2>5, <2>6, <2>7 DEF Next
  <1>3. IInv /\ Selected => RecvBlocksOnlyOnReopened
    BY DEF Selected, RecvBlocksOnlyOnReopened, InLoop, Answered, Sock
  <1> QED
    BY <1>1, <1>2, <1>3, RegistryInductive, PTL DEF Spec

-----------------------------------------------------------------------------
(* The signals of a registration, counted: a wait ends by a signal, a board *)
(* sends one for each request it has served, or one more if it echoes.      *)
InWait   == pc \in {"wait1", "wait2", "wait3", "wait4"}
Dealing  == IF rcv = "dealing" /\ dealt.msg = "sig" THEN 1 ELSE 0
Signal   == IF m_hSigRspEvent THEN 1 ELSE 0
Pending  == Len(answers[cur.sock]) + Dealing + Signal
Extra    == IF cur.addr \in Echoing THEN 1 ELSE 0

OnlyCommands(q) == \A i \in 1 .. Len(q) : q[i] = "command"
OnlyData(q)     == \A i \in 1 .. Len(q) : q[i] = "data"
NoSignals(s)    == OnlyCommands(requests[s]) /\ OnlyData(answers[s])

StreamTypes ==
    /\ requests \in [Socks -> Seq({"logon", "service", "command"})]
    /\ served \in [Socks -> Nat] /\ m_hSigRspEvent \in BOOLEAN
    /\ DOMAIN peer = Socks
    /\ rcv = "dealing" => dealt.msg \in {"sig", "data"}
    /\ \A s \in Socks : sockState[s] = "closed" => served[s] = 0

(* What the call is, by the place of the test thread. *)
CallKinds ==
    /\ pc = "cmd" => cur.op = "command"
    /\ pc \in {"unreg", "eraseModel"} => cur.op = "unregister"
    /\ pc \in {"connect", "insert", "model"} => cur.clean = clean
    /\ InWait => (clean <=> cur.clean /\ cur.addr \notin Echoing)
    /\ pc \in {"insert", "model"} => served[cur.sock] = 0
    /\ InWait \/ pc \in {"insert", "model"} => cur.sock \in Socks /\ peer[cur.sock] = cur.addr

(* Between registrations nothing is outstanding, while it is said so. *)
NothingOutstanding ==
    clean /\ ~InWait => Dealing = 0 /\ Signal = 0 /\ \A s \in Socks : NoSignals(s)

Counted(k) ==
    LET s == cur.sock
    IN  /\ \A t \in Socks : t # s => NoSignals(t)
        /\ \A i \in 1 .. Len(requests[s]) :
               /\ requests[s][i] # "command"
               /\ requests[s][i] = "logon" => served[s] = 0 /\ Len(requests[s]) = 1
        /\ Pending + k <= served[s] + 1 + Extra
        /\ served[s] = 0 => Pending = 0 /\ k = 1
        /\ served[s] + Len(requests[s]) <= k

Accounts ==
    /\ StreamTypes /\ CallKinds /\ NothingOutstanding /\ SuccessMeansServed
    /\ InWait /\ cur.clean => Counted(WaitNo(pc))

LEMMA WaitNumbers ==
    /\ Waits[1] = "wait1" /\ Waits[2] = "wait2" /\ Waits[3] = "wait3" /\ Waits[4] = "wait4"
    /\ \A k \in 1 .. 4 : WaitNo(Waits[k]) = k
  <1>1. Waits[1] = "wait1" /\ Waits[2] = "wait2" /\ Waits[3] = "wait3" /\ Waits[4] = "wait4"
    BY DEF Waits
  <1>2. ASSUME NEW k \in 1 .. 4, NEW j \in 1 .. 4, Waits[k] = Waits[j] PROVE k = j
    <2>1. (k = 1 \/ k = 2 \/ k = 3 \/ k = 4) /\ (j = 1 \/ j = 2 \/ j = 3 \/ j = 4)
      OBVIOUS
    <2> QED
      BY <1>1, <1>2, <2>1
  <1>3. ASSUME NEW k \in 1 .. 4 PROVE WaitNo(Waits[k]) = k
    <2>1. \E j \in 1 .. 4 : Waits[j] = Waits[k]
      BY <1>3
    <2>2. WaitNo(Waits[k]) \in 1 .. 4 /\ Waits[WaitNo(Waits[k])] = Waits[k]
      BY <2>1 DEF WaitNo
    <2> QED
      BY <1>2, <2>2
  <1> QED
    BY <1>1, <1>3

(* The number of a wait. *)
LEMMA WaitIs ==
    ASSUME InWait \/ pc \in {Waits[k] : k \in 1 .. 4}
    PROVE  \E k \in 1 .. 4 : /\ pc = Waits[k] /\ WaitNo(pc) = k
                             /\ InWait /\ pc \in {Waits[j] : j \in 1 .. 4}
  <1>1. \E k \in 1 .. 4 : pc = Waits[k]
    BY WaitNumbers DEF InWait
  <1>2. PICK k \in 1 .. 4 : pc = Waits[k]
    BY <1>1
  <1>3. k = 1 \/ k = 2 \/ k = 3 \/ k = 4
    OBVIOUS
  <1>4. InWait
    BY <1>2, <1>3, WaitNumbers DEF InWait
  <1> QED
    BY <1>2, <1>4, WaitNumbers

LEMMA DrainedTail ==
    ASSUME NEW S, NEW q \in Seq(S), q # <<>>
    PROVE  /\ Tail(q) \in Seq(S) /\ Len(Tail(q)) = Len(q) - 1 /\ Len(q) \in Nat \ {0}
           /\ OnlyData(q) => OnlyData(Tail(q)) /\ Head(q) = "data"
           /\ OnlyCommands(q) => OnlyCommands(Tail(q)) /\ Head(q) = "command"
  <1>1. /\ Tail(q) \in Seq(S) /\ Len(Tail(q)) = Len(q) - 1
        /\ \A i \in 1 .. Len(Tail(q)) : Tail(q)[i] = q[i + 1]
    BY HeadTailProperties
  <1>2. Len(q) \in Nat \ {0} /\ Head(q) = q[1]
    BY EmptySeq, LenProperties
  <1>3. PICK n \in Nat \ {0} : n = Len(q)
    BY <1>2
  <1>4. 1 \in 1 .. n /\ \A i \in 1 .. n - 1 : i + 1 \in 1 .. n
    BY <1>3
  <1> QED
    BY <1>1, <1>2, <1>3, <1>4 DEF OnlyData, OnlyCommands

LEMMA AppendedCommand ==
    ASSUME NEW S, NEW q \in Seq(S), "command" \in S, OnlyCommands(q)
    PROVE  OnlyCommands(Append(q, "command"))
  <1>1. PICK n \in Nat : n = Len(q)
    BY LenProperties
  <1>2. /\ Len(Append(q, "command")) = n + 1 /\ Append(q, "command")[n + 1] = "command"
        /\ \A i \in 1 .. n : Append(q, "command")[i] = q[i]
    BY <1>1, AppendProperties
  <1> QED
    BY <1>1, <1>2 DEF OnlyCommands

LEMMA NoneOutstanding == OnlyData(<<>>) /\ OnlyCommands(<<>>)
  BY DEF OnlyData, OnlyCommands

-----------------------------------------------------------------------------
(* A call that returns and is no registration, or has failed. *)
LEMMA ServedStays ==
    ASSUME SuccessMeansServed,
           \/ last' = last
           \/ /\ last'.call.op # "register" \/ last'.code # TESTCASE_SUCCESS
              /\ last' # NoCall
    PROVE  SuccessMeansServed'
  BY DEF SuccessMeansServed, Returned

(* A step of the test thread outside a wait that sends commands at most. *)
LEMMA OutsideKeeps ==
    ASSUME Accounts, ~InWait, ~InWait', CallKinds', SuccessMeansServed', clean' = clean,
           UNCHANGED <<m_hSigRspEvent, rcv, dealt, answers, served>>, DOMAIN peer' = Socks,
           requests' \in [Socks -> Seq({"logon", "service", "command"})],
           \A s \in Socks : /\ OnlyCommands(requests[s]) => OnlyCommands(requests'[s])
                            /\ sockState'[s] = "closed" => sockState[s] = "closed"
    PROVE  Accounts'
  <1>1. StreamTypes'
    BY DEF Accounts, StreamTypes
  <1>2. NothingOutstanding'
    BY DEF Accounts, NothingOutstanding, NoSignals, Dealing, Signal
  <1> QED
    BY <1>1, <1>2 DEF Accounts

LEMMA SentCommand ==
    ASSUME StreamTypes, NEW s, SendMsg(s, "command")
    PROVE  /\ requests' \in [Socks -> Seq({"logon", "service", "command"})]
           /\ \A t \in Socks : OnlyCommands(requests[t]) => OnlyCommands(requests'[t])
  <1>1. CASE s \in Socks /\ requests' = [requests EXCEPT ![s] = Append(@, "command")]
    <2>1. Append(requests[s], "command") \in Seq({"logon", "service", "command"})
      BY <1>1, AppendProperties DEF StreamTypes
    <2>2. OnlyCommands(requests[s]) => OnlyCommands(Append(requests[s], "command"))
      BY <1>1, AppendedCommand DEF StreamTypes
    <2> QED
      BY <1>1, <2>1, <2>2 DEF StreamTypes
  <1>2. CASE requests' = requests
    BY <1>2 DEF StreamTypes
  <1> QED
    BY <1>1, <1>2 DEF SendMsg

LEMMA AccountsOfCalls ==
    ASSUME IInv, Accounts,
           \/ ConnectFails \/ InsertAddr \/ EraseModel \/ CommandReturns
           \/ \E n \in Names : Command(n) \/ \E a \in Addrs : RegisterProc(n, a) \/ UnRegisterProc(n, a)
    PROVE  Accounts'
  <1>0. clean \in BOOLEAN /\ StreamTypes /\ CallKinds /\ SuccessMeansServed
    BY DEF IInv, Types, Accounts
  <1>1. CASE ConnectFails \/ CommandReturns \/ EraseModel
    <2>1. /\ pc \in {"connect", "cmd", "eraseModel"} /\ pc' = "idle"
          /\ UNCHANGED <<m_hSigRspEvent, rcvVars, sockVars, clean>>
      BY <1>1 DEF ConnectFails, CommandReturns, EraseModel, Return
    <2>2. /\ last' # NoCall
          /\ last'.call.op # "register" \/ last'.code # TESTCASE_SUCCESS
      BY <1>0, <1>1 DEF ConnectFails, CommandReturns, EraseModel, Return, CallKinds, NoCall,
         TESTCASE_SUCCESS, REGISTER_CONNECT_FAIL
    <2>3. SuccessMeansServed'
      BY <1>0, <2>2, ServedStays
    <2>4. ~InWait /\ ~InWait' /\ CallKinds'
      BY <2>1 DEF InWait, CallKinds
    <2> QED
      BY <1>0, <2>1, <2>3, <2>4, OutsideKeeps DEF rcvVars, sockVars, links, StreamTypes
  <1>2. CASE InsertAddr
    <2>1. /\ pc = "insert" /\ pc' = "model"
          /\ UNCHANGED <<cur, clean, last, m_hSigRspEvent, rcv, dealt, sockVars>>
      BY <1>2 DEF InsertAddr
    <2>2. ~InWait /\ ~InWait' /\ CallKinds' /\ SuccessMeansServed'
      BY <1>0, <2>1, ServedStays DEF InWait, CallKinds, sockVars, links
    <2> QED
      BY <1>0, <2>1, <2>2, OutsideKeeps DEF sockVars, links, StreamTypes
  <1>3. ASSUME NEW n \in Names, Command(n) PROVE Accounts'
    <2>1. /\ pc = "idle" /\ pc' = "cmd" /\ cur' = NewCall("command", n, NoAddr)
          /\ UNCHANGED <<clean, last, m_hSigRspEvent, rcv, dealt, links, answers, served>>
          /\ \E s : SendMsg(s, "command")
      BY <1>3 DEF Command, Enter, Begin
    <2>2. /\ requests' \in [Socks -> Seq({"logon", "service", "command"})]
          /\ \A t \in Socks : OnlyCommands(requests[t]) => OnlyCommands(requests'[t])
      BY <1>0, <2>1, SentCommand
    <2>3. ~InWait /\ ~InWait' /\ CallKinds' /\ SuccessMeansServed'
      BY <1>0, <2>1, ServedStays DEF InWait, CallKinds, NewCall
    <2> QED
      BY <1>0, <2>1, <2>2, <2>3, OutsideKeeps DEF links, StreamTypes
  <1>4. ASSUME NEW n \in Names, NEW a \in Addrs, RegisterProc(n, a) \/ UnRegisterProc(n, a)
        PROVE  Accounts'
    <2>1. /\ pc = "idle" /\ pc' \in {"idle", "connect", "unreg"}
          /\ UNCHANGED <<clean, m_hSigRspEvent, rcvVars, sockVars>>
      BY <1>4 DEF RegisterProc, UnRegisterProc, Enter, Begin, Return
    <2>2. \/ last' = last
          \/ last' # NoCall /\ last'.code # TESTCASE_SUCCESS
      BY <1>4 DEF RegisterProc, UnRegisterProc, Begin, Return, NoCall, TESTCASE_SUCCESS,
         REGISTER_INUSE_FAIL
    <2>3. /\ pc' = "unreg" => cur'.op = "unregister"
          /\ pc' = "connect" => cur'.clean = clean
      BY <1>4 DEF RegisterProc, UnRegisterProc, Begin, Return, NewCall
    <2>4. ~InWait /\ ~InWait' /\ CallKinds' /\ SuccessMeansServed'
      BY <1>0, <2>1, <2>2, <2>3, ServedStays DEF InWait, CallKinds
    <2> QED
      BY <1>0, <2>1, <2>4, OutsideKeeps DEF rcvVars, sockVars, links, StreamTypes
  <1> QED
    BY <1>1, <1>2, <1>3, <1>4

LEMMA AccountsInit == Init => Accounts
  <1> SUFFICES ASSUME Init PROVE Accounts
    OBVIOUS
  <1>1. <<>> \in Seq({"logon", "service", "command"})
    OBVIOUS
  <1>2. StreamTypes
    BY <1>1 DEF Init, StreamTypes
  <1>3. NothingOutstanding
    BY NoneOutstanding DEF Init, NothingOutstanding, NoSignals, Dealing, Signal
  <1>4. CallKinds /\ SuccessMeansServed /\ ~InWait
    BY DEF Init, CallKinds, SuccessMeansServed, Returned, InWait
  <1> QED
    BY <1>2, <1>3, <1>4 DEF Accounts

LEMMA AccountsOfConnected ==
    ASSUME IInv, Accounts, NEW s \in Socks, Connected(s)
    PROVE  Accounts'
  <1>0. clean \in BOOLEAN /\ StreamTypes /\ CallKinds /\ SuccessMeansServed /\ cur \in Call
    BY DEF IInv, Types, Accounts, Connected
  <1>1. /\ pc = "connect" /\ pc' = "insert" /\ sockState[s] = "closed"
        /\ peer' = [peer EXCEPT ![s] = cur.addr] /\ cur' = [cur EXCEPT !.sock = s]
        /\ sockState' = [sockState EXCEPT ![s] = "open"]
        /\ UNCHANGED <<last, clean, m_hSigRspEvent, rcv, readfds, todo, dealt, requests, answers, served>>
    BY DEF Connected
  <1>2. cur'.sock = s /\ cur'.addr = cur.addr /\ cur'.clean = cur.clean /\ cur'.op = cur.op
    BY <1>0, <1>1 DEF Call
  <1>3. served[s] = 0 /\ DOMAIN peer' = Socks /\ peer'[s] = cur.addr
    BY <1>0, <1>1 DEF StreamTypes
  <1>4. ~InWait /\ ~InWait' /\ CallKinds' /\ SuccessMeansServed'
    BY <1>0, <1>1, <1>2, <1>3, ServedStays DEF InWait, CallKinds
  <1>5. \A t \in Socks : sockState'[t] = "closed" => sockState[t] = "closed"
    BY <1>1 DEF IInv, Types
  <1> QED
    BY <1>0, <1>1, <1>3, <1>4, <1>5, OutsideKeeps DEF rcvVars, StreamTypes

(* UnRegisterProc under m_cs: nothing is left of a socket that is closed. *)
LEMMA AccountsOfUnRegister ==
    ASSUME IInv, Accounts, UnRegisterLocked
    PROVE  Accounts'
  <1>0. clean \in BOOLEAN /\ StreamTypes /\ CallKinds /\ SuccessMeansServed
    BY DEF IInv, Types, Accounts
  <1>1. /\ pc = "unreg" /\ cur.op = "unregister"
        /\ UNCHANGED <<clean, m_hSigRspEvent, rcvVars>>
    BY <1>0 DEF UnRegisterLocked, CallKinds
  <1>2. CASE CloseAndErase(m_NameAddrMap[cur.name].sock)
    <2> DEFINE s == m_NameAddrMap[cur.name].sock
    <2>1. /\ pc' = "eraseModel" /\ cur' = cur /\ last' = last
          /\ sockState' = [sockState EXCEPT ![s] = "closed"]
          /\ peer' = [peer EXCEPT ![s] = NoAddr]
          /\ requests' = [requests EXCEPT ![s] = <<>>]
          /\ answers' = [answers EXCEPT ![s] = <<>>]
          /\ served' = [served EXCEPT ![s] = 0]
      BY <1>2 DEF CloseAndErase, Begin, ClientClose
    <2> HIDE DEF s
    <2>2. <<>> \in Seq({"logon", "service", "command"})
      OBVIOUS
    <2>3. StreamTypes'
      BY <1>0, <1>1, <2>1, <2>2 DEF StreamTypes, rcvVars, IInv, Types
    <2>4. ~InWait /\ ~InWait' /\ CallKinds' /\ SuccessMeansServed'
      BY <1>0, <1>1, <2>1, ServedStays DEF InWait, CallKinds
    <2>5. \A t \in Socks : NoSignals(t) => NoSignals(t)'
      BY <1>0, <2>1, NoneOutstanding DEF NoSignals, StreamTypes, IInv, Types
    <2>6. NothingOutstanding'
      BY <1>1, <2>4, <2>5 DEF Accounts, NothingOutstanding, Dealing, Signal, rcvVars
    <2> QED
      BY <2>3, <2>4, <2>6 DEF Accounts
  <1>3. ASSUME NEW code, Return(cur, code, 0),
               UNCHANGED <<sockState, peer, requests, answers, served>>
        PROVE  Accounts'
    <2>1. pc' = "idle" /\ last' # NoCall /\ last'.call.op # "register"
      BY <1>1, <1>3 DEF Return, NoCall
    <2>2. ~InWait /\ ~InWait' /\ CallKinds' /\ SuccessMeansServed'
      BY <1>0, <1>1, <2>1, ServedStays DEF InWait, CallKinds
    <2> QED
      BY <1>0, <1>1, <1>3, <2>2, OutsideKeeps DEF rcvVars, StreamTypes
  <1> QED
    BY <1>2, <1>3 DEF UnRegisterLocked

-----------------------------------------------------------------------------
(* The counts of a registration at wait k, without CHOOSE. *)
LEMMA AccountsAt ==
    ASSUME NEW k \in 1 .. 4, pc = Waits[k]
    PROVE  InWait /\ (Accounts <=> /\ StreamTypes /\ CallKinds /\ SuccessMeansServed
                                   /\ cur.clean => Counted(k))
  <1>1. InWait /\ WaitNo(pc) = k
    BY WaitIs, WaitNumbers
  <1> QED
    BY <1>1 DEF Accounts, NothingOutstanding

(* What a waiting call knows of the numbers it counts. *)
LEMMA CountTypes ==
    ASSUME IInv, Accounts, cur.sock \in Socks
    PROVE  /\ served[cur.sock] \in Nat /\ Len(requests[cur.sock]) \in Nat
           /\ Len(answers[cur.sock]) \in Nat /\ Pending \in Nat
           /\ Dealing \in 0 .. 1 /\ Signal \in 0 .. 1 /\ Extra \in 0 .. 1
           /\ Len(answers[cur.sock]) <= Pending /\ Dealing <= Pending /\ Signal <= Pending
  <1>1. Dealing \in 0 .. 1 /\ Signal \in 0 .. 1 /\ Extra \in 0 .. 1
    BY DEF Dealing, Signal, Extra
  <1>2. PICK n \in Nat : n = Len(answers[cur.sock])
    BY LenProperties DEF IInv, Types
  <1>3. Len(requests[cur.sock]) \in Nat /\ served[cur.sock] \in Nat
    BY LenProperties DEF Accounts, StreamTypes
  <1> QED
    BY <1>1, <1>2, <1>3 DEF Pending

(* The packet model is there and the board is asked for its LOGON. *)
LEMMA AccountsOfInsertModel ==
    ASSUME IInv, Accounts, InsertModel
    PROVE  Accounts'
  <1>0. /\ clean \in BOOLEAN /\ StreamTypes /\ CallKinds /\ SuccessMeansServed
        /\ NothingOutstanding
    BY DEF IInv, Types, Accounts
  <1> DEFINE s == cur.sock
  <1>1. /\ pc = "model" /\ pc' = "wait1" /\ SendMsg(s, "logon")
        /\ clean' = (clean /\ cur.addr \notin Echoing)
        /\ UNCHANGED <<cur, last, m_hSigRspEvent, rcvVars, links, answers, served>>
    BY DEF InsertModel
  <1>2. s \in Socks /\ requests[s] = <<>> /\ answers[s] = <<>> /\ served[s] = 0
    BY <1>0, <1>1 DEF IInv, Registering, CallKinds
  <1>3. /\ Append(<<>>, "logon") \in Seq({"logon", "service", "command"})
        /\ Len(Append(<<>>, "logon")) = 1 /\ Append(<<>>, "logon")[1] = "logon"
        /\ Len(<<>>) = 0
    OBVIOUS
  <1> HIDE DEF s
  <1>4. /\ requests' \in [Socks -> Seq({"logon", "service", "command"})]
        /\ \A t \in Socks : t # s => requests'[t] = requests[t]
        /\ \/ Len(requests'[s]) = 0
           \/ Len(requests'[s]) = 1 /\ requests'[s][1] = "logon"
    BY <1>0, <1>1, <1>2, <1>3 DEF SendMsg, StreamTypes
  <1>5. StreamTypes'
    BY <1>0, <1>1, <1>4 DEF StreamTypes, rcvVars, links
  <1>6. CallKinds' /\ SuccessMeansServed'
    BY <1>0, <1>1, ServedStays DEF CallKinds, InWait, s, links
  <1>7. ASSUME cur'.clean PROVE Counted(1)'
    <2>1. clean
      BY <1>0, <1>1, <1>7 DEF CallKinds
    <2>2. /\ \A t \in Socks : t # s => NoSignals(t)'
          /\ Dealing' = 0 /\ Signal' = 0
      BY <1>0, <1>1, <1>4, <2>1 DEF NothingOutstanding, NoSignals, Dealing, Signal, InWait, rcvVars
    <2>3. Pending' = 0
      BY <1>1, <1>2, <1>3, <2>2 DEF Pending, s
    <2>4. cur'.sock = s /\ served'[s] = 0 /\ Extra' \in {0, 1}
      BY <1>1, <1>2 DEF s, Extra
    <2>5. \A i \in 1 .. Len(requests'[s]) : Len(requests'[s]) = 1 /\ requests'[s][i] = "logon"
      BY <1>4
    <2>6. Len(requests'[s]) \in {0, 1}
      BY <1>4
    <2> QED
      BY <2>2, <2>3, <2>4, <2>5, <2>6 DEF Counted
  <1>8. pc' = Waits[1]
    BY <1>1, WaitNumbers
  <1>9. InWait' /\ WaitNo(pc') = 1
    BY <1>1, <1>8, WaitNumbers DEF InWait
  <1> QED
    BY <1>5, <1>6, <1>7, <1>9 DEF Accounts, NothingOutstanding

(* A wait ends without a signal: what comes later is not counted any more. *)
LEMMA AccountsOfTimeout ==
    ASSUME IInv, Accounts, SigTimeout
    PROVE  Accounts'
  <1>1. /\ pc' = "idle" /\ clean' = FALSE
        /\ last' # NoCall /\ last'.code # TESTCASE_SUCCESS
        /\ UNCHANGED <<m_hSigRspEvent, rcvVars, sockVars>>
    BY DEF SigTimeout, Return, NoCall, TESTCASE_SUCCESS, ECMD_CTRL_RSP_TIMEOUT_ERROR
  <1>2. StreamTypes' /\ CallKinds' /\ ~InWait'
    BY <1>1 DEF Accounts, StreamTypes, CallKinds, InWait, rcvVars, sockVars, links
  <1>3. SuccessMeansServed'
    BY <1>1, ServedStays DEF Accounts
  <1> QED
    BY <1>1, <1>2, <1>3 DEF Accounts, NothingOutstanding

(* A wait takes the signal: a board that has sent it has served a request. *)
LEMMA AccountsOfSignal ==
    ASSUME IInv, Accounts, SigSignalled
    PROVE  Accounts'
  <1>0. /\ clean \in BOOLEAN /\ StreamTypes /\ CallKinds /\ SuccessMeansServed
        /\ pc \in {Waits[j] : j \in 1 .. 4} /\ m_hSigRspEvent /\ m_hSigRspEvent' = FALSE
        /\ UNCHANGED <<clean, rcvVars, links, answers, served>>
    BY DEF IInv, Types, Accounts, SigSignalled
  <1>1. PICK k \in 1 .. 4 : pc = Waits[k] /\ WaitNo(pc) = k /\ InWait
    BY <1>0, WaitIs
  <1>2. (cur.clean => Counted(k)) /\ cur.sock \in Socks
    BY <1>0, <1>1 DEF Accounts, CallKinds
  <1>3. PICK v \in Nat, p \in Nat, x \in 0 .. 1, r \in Nat, a \in Nat, d \in 0 .. 1 :
            /\ v = served[cur.sock] /\ p = Pending /\ x = Extra /\ r = Len(requests[cur.sock])
            /\ a = Len(answers[cur.sock]) /\ d = Dealing
    BY <1>2, CountTypes, Zenon
  <1>4. Signal = 1 /\ Signal' = 0 /\ Dealing' = d /\ p = a + d + 1
    BY <1>0, <1>3 DEF Signal, Dealing, Pending, rcvVars
  <1>5. cur.clean => p + k <= v + 1 + x /\ v # 0 /\ v + r <= k
    <2>1. cur.clean => p + k <= v + 1 + x /\ (v = 0 => p = 0) /\ v + r <= k
      BY <1>2, <1>3, Zenon DEF Counted
    <2>2. p # 0
      BY <1>4
    <2> QED
      BY <2>1, <2>2
  <1>6. CASE pc = Waits[4]
    <2>1. k = 4
      BY <1>1, <1>6, WaitNumbers
    <2>2. /\ pc' = "idle" /\ requests' = requests /\ last'.call = cur /\ last'.served = v
          /\ last' # NoCall
      BY <1>3, <1>6 DEF SigSignalled, Return, NoCall
    <2>3. ASSUME cur.clean PROVE v + x >= 4
      <3>1. p + k <= v + 1 + x
        BY <1>5, <2>3
      <3> QED
        BY <1>4, <2>1, <3>1
    <2>4. SuccessMeansServed'
      BY <1>3, <2>2, <2>3 DEF SuccessMeansServed, Extra
    <2>5. ASSUME clean PROVE Dealing' = 0 /\ Signal' = 0 /\ \A s \in Socks : NoSignals(s)'
      <3>1. cur.clean /\ x = 0
        BY <1>0, <1>1, <1>3, <2>5 DEF CallKinds, Extra
      <3>2. p + k <= v + 1 + x /\ v + r <= k
        BY <1>5, <3>1
      <3>3. a = 0 /\ d = 0 /\ r = 0
        BY <1>4, <2>1, <3>1, <3>2
      <3>4. NoSignals(cur.sock)
        BY <1>3, <3>3 DEF NoSignals, OnlyData, OnlyCommands
      <3>5. \A s \in Socks : NoSignals(s)
        BY <1>2, <3>1, <3>4 DEF Counted
      <3> QED
        BY <1>0, <1>4, <2>2, <3>3, <3>5 DEF NoSignals
    <2>6. StreamTypes' /\ CallKinds' /\ ~InWait'
      BY <1>0, <2>2 DEF StreamTypes, CallKinds, InWait, rcvVars, links
    <2> QED
      BY <1>0, <2>4, <2>5, <2>6 DEF Accounts, NothingOutstanding
  <1>7. CASE pc # Waits[4]
    <2>1. k \in 1 .. 3
      BY <1>1, <1>7
    <2>2. /\ pc' = Waits[k + 1] /\ cur' = cur /\ last' = last /\ SendMsg(cur.sock, "service")
      BY <1>1, <1>7 DEF SigSignalled, Begin
    <2>3. k + 1 \in 1 .. 4
      BY <2>1
    <2>4. InWait' /\ WaitNo(pc') = k + 1
      BY <2>1, <2>2, <2>3, WaitNumbers DEF InWait
    <2>5. Append(requests[cur.sock], "service") \in Seq({"logon", "service", "command"})
      BY <1>0, <1>2, AppendProperties DEF StreamTypes
    <2>6. /\ requests' \in [Socks -> Seq({"logon", "service", "command"})]
          /\ \A t \in Socks : t # cur.sock => requests'[t] = requests[t]
          /\ \/ requests'[cur.sock] = requests[cur.sock]
             \/ requests'[cur.sock] = Append(requests[cur.sock], "service")
      BY <1>0, <2>2, <2>5 DEF SendMsg, StreamTypes
    <2>7. StreamTypes'
      BY <1>0, <2>6 DEF StreamTypes, rcvVars, links
    <2>8. CallKinds' /\ SuccessMeansServed'
      BY <1>0, <1>1, <2>2, <2>4, ServedStays DEF CallKinds, InWait, links
    <2>9. ASSUME cur.clean PROVE Counted(k + 1)'
      <3>1. PICK r1 \in Nat : r1 = Len(requests'[cur.sock])
        BY <1>2, <2>6, LenProperties
      <3>2. /\ r1 \in {r, r + 1}
            /\ \A i \in 1 .. r1 : \/ i \in 1 .. r /\ requests'[cur.sock][i] = requests[cur.sock][i]
                                  \/ requests'[cur.sock][i] = "service"
        <4>1. CASE requests'[cur.sock] = requests[cur.sock]
          BY <1>3, <3>1, <4>1
        <4>2. CASE requests'[cur.sock] = Append(requests[cur.sock], "service")
          <5>1. /\ r1 = r + 1 /\ requests'[cur.sock][r + 1] = "service"
                /\ \A i \in 1 .. r : requests'[cur.sock][i] = requests[cur.sock][i]
            BY <1>0, <1>2, <1>3, <3>1, <4>2, AppendProperties DEF StreamTypes
          <5> QED
            BY <1>3, <5>1
        <4> QED
          BY <2>6, <4>1, <4>2
      <3>3. \A i \in 1 .. r1 : requests'[cur.sock][i] # "command" /\ requests'[cur.sock][i] # "logon"
        BY <1>2, <1>3, <1>5, <2>9, <3>2 DEF Counted
      <3>4. \A t \in Socks : t # cur.sock => NoSignals(t)'
        BY <1>0, <1>2, <2>6, <2>9 DEF Counted, NoSignals
      <3>5. Pending' = a + d /\ Extra' = x
        BY <1>0, <1>3, <1>4, <2>2 DEF Pending, Extra
      <3>6. p + k <= v + 1 + x /\ v + r <= k
        BY <1>5, <2>9
      <3>7. a + d + (k + 1) <= v + 1 + x /\ v + r1 <= k + 1
        BY <1>4, <2>1, <3>2, <3>6
      <3>8. served'[cur'.sock] = v /\ cur'.sock = cur.sock
        BY <1>0, <1>3, <2>2
      <3> QED
        BY <1>5, <2>9, <3>1, <3>3, <3>4, <3>5, <3>7, <3>8 DEF Counted
    <2> QED
      BY <2>2, <2>4, <2>7, <2>8, <2>9 DEF Accounts, NothingOutstanding
  <1> QED
    BY <1>6, <1>7

-----------------------------------------------------------------------------
(* The receive thread and the boards leave the call alone.  What they move *)
(* between the streams and the event keeps the accounts if it makes no     *)
(* signal of its own.                                                      *)
LEMMA MovesKeep ==
    ASSUME IInv, Accounts, UNCHANGED <<apiVars, requests, served, peer>>, StreamTypes',
           Dealing' \in 0 .. 1, Signal' \in 0 .. 1,
           \A s \in Socks : NoSignals(s) => NoSignals(s)',
           Dealing = 0 /\ Signal = 0 /\ (\A s \in Socks : NoSignals(s))
               => Dealing' = 0 /\ Signal' = 0,
           InWait /\ cur.clean => Pending' \in Nat /\ Pending' <= Pending
    PROVE  Accounts'
  <1> USE DEF apiVars
  <1>1. CallKinds' /\ SuccessMeansServed'
    BY ServedStays DEF Accounts, CallKinds, InWait
  <1>2. NothingOutstanding'
    BY DEF Accounts, NothingOutstanding, InWait
  <1>3. ASSUME InWait, cur.clean PROVE Counted(WaitNo(pc))'
    <2>1. PICK k \in 1 .. 4 : k = WaitNo(pc)
      BY <1>3, WaitIs
    <2>2. cur.sock \in Socks /\ Counted(k)
      BY <1>3, <2>1 DEF Accounts, CallKinds
    <2>3. PICK v \in Nat, p \in Nat, q \in Nat, x \in 0 .. 1 :
              v = served[cur.sock] /\ p = Pending /\ q = Pending' /\ x = Extra
      BY <1>3, <2>2, CountTypes
    <2>4. q <= p
      BY <1>3, <2>3
    <2>5. p + k <= v + 1 + x /\ (v = 0 => p = 0)
      BY <2>2, <2>3 DEF Counted
    <2>6. q + k <= v + 1 + x /\ (v = 0 => q = 0)
      BY <2>4, <2>5
    <2>7. Extra' = x
      BY <2>3 DEF Extra
    <2> QED
      BY <2>1, <2>2, <2>3, <2>6, <2>7 DEF Counted
  <1> QED
    BY <1>1, <1>2, <1>3 DEF Accounts, InWait

LEMMA AccountsOfRound ==
    ASSUME IInv, Accounts,
           Snapshot \/ SelectFails \/ SelectReady \/ EnterDealLoop \/ LeaveDealLoop \/ UNCHANGED vars
    PROVE  Accounts'
  <1>1. /\ UNCHANGED <<apiVars, m_hSigRspEvent, sockVars, dealt>>
        /\ rcv = "dealing" <=> rcv' = "dealing"
    BY DEF Snapshot, SelectFails, SelectReady, EnterDealLoop, LeaveDealLoop, vars, rcvVars
  <1>2. Dealing' = Dealing /\ Signal' = Signal /\ StreamTypes'
    BY <1>1 DEF Dealing, Signal, Accounts, StreamTypes, sockVars, links
  <1>3. Dealing \in 0 .. 1 /\ Signal \in 0 .. 1
    BY DEF Dealing, Signal
  <1>4. InWait /\ cur.clean => Pending \in Nat /\ Pending' = Pending
    BY <1>1, <1>2, CountTypes DEF Accounts, CallKinds, Pending, apiVars, sockVars
  <1>5. InWait /\ cur.clean => Pending' \in Nat /\ Pending' <= Pending
    BY <1>4
  <1> QED
    BY <1>1, <1>2, <1>3, <1>5, MovesKeep DEF sockVars, links, NoSignals

LEMMA AccountsOfDealMsg ==
    ASSUME IInv, Accounts, DealMsg
    PROVE  Accounts'
  <1>1. /\ rcv = "dealing" /\ rcv' = "deal" /\ dealt.msg \in {"sig", "data"}
        /\ m_hSigRspEvent \in BOOLEAN /\ m_hSigRspEvent' = (m_hSigRspEvent \/ dealt.msg = "sig")
        /\ UNCHANGED <<apiVars, sockVars>>
    BY DEF DealMsg, Accounts, StreamTypes
  <1>2. StreamTypes'
    BY <1>1 DEF Accounts, StreamTypes, sockVars, links
  <1>3. /\ Dealing \in 0 .. 1 /\ Signal \in 0 .. 1 /\ Dealing' = 0 /\ Signal' \in 0 .. 1
        /\ Signal' <= Signal + Dealing
    BY <1>1 DEF Dealing, Signal
  <1>4. ASSUME InWait PROVE Pending' \in Nat /\ Pending' <= Pending
    <2>1. PICK a \in Nat : a = Len(answers[cur.sock])
      BY <1>4, CountTypes DEF Accounts, CallKinds
    <2>2. Pending = a + Dealing + Signal /\ Pending' = a + Dealing' + Signal'
      BY <1>1, <2>1 DEF Pending, apiVars, sockVars
    <2>3. PICK d \in 0 .. 1, g \in 0 .. 1, h \in 0 .. 1 :
              d = Dealing /\ g = Signal /\ h = Signal' /\ h <= g + d
      BY <1>3
    <2>4. Pending = a + d + g /\ Pending' = a + 0 + h
      BY <1>3, <2>2, <2>3
    <2>5. h <= g + d
      BY <2>3
    <2>6. a + 0 + h \in Nat /\ a + 0 + h <= a + d + g
      BY <2>5
    <2> QED
      BY <2>4, <2>6
  <1> QED
    BY <1>1, <1>2, <1>3, <1>4, MovesKeep DEF sockVars, links, NoSignals

LEMMA AccountsOfRecv ==
    ASSUME IInv, Accounts, NEW n \in Names, RecvAndFind(n)
    PROVE  Accounts'
  <1>0. /\ StreamTypes /\ answers \in [Socks -> Seq({"sig", "data"})]
        /\ rcv = "deal" /\ UNCHANGED <<apiVars, m_hSigRspEvent, links, requests, served>>
    BY DEF RecvAndFind, Accounts, IInv, Types
  <1>1. Dealing = 0 /\ Signal \in 0 .. 1 /\ Signal' = Signal
    BY <1>0 DEF Dealing, Signal
  <1>2. CASE UNCHANGED <<rcv, dealt, answers>>
    <2>1. Dealing' = 0 /\ StreamTypes'
      BY <1>0, <1>2 DEF Dealing, StreamTypes, links
    <2>2. InWait => Pending' = Pending /\ Pending \in Nat
      BY <1>0, <1>1, <1>2, <2>1, CountTypes DEF Pending, apiVars, Accounts, CallKinds
    <2>3. InWait => Pending' \in Nat /\ Pending' <= Pending
      BY <2>2
    <2> QED
      BY <1>0, <1>1, <1>2, <2>1, <2>3, MovesKeep DEF links, NoSignals
  <1>3. ASSUME NEW s \in Socks, answers[s] # <<>>, answers' = [answers EXCEPT ![s] = Tail(@)],
               \/ rcv' = "dealing" /\ dealt' = [name |-> n, msg |-> Head(answers[s])]
               \/ UNCHANGED <<rcv, dealt>>
        PROVE  Accounts'
    <2>1. /\ Tail(answers[s]) \in Seq({"sig", "data"}) /\ Len(answers[s]) \in Nat \ {0}
          /\ Len(Tail(answers[s])) = Len(answers[s]) - 1
          /\ OnlyData(answers[s]) => OnlyData(Tail(answers[s])) /\ Head(answers[s]) = "data"
          /\ Head(answers[s]) \in {"sig", "data"}
      BY <1>0, <1>3, DrainedTail, HeadTailProperties
    <2>2. StreamTypes'
      BY <1>0, <1>3, <2>1 DEF StreamTypes, links
    <2>3. Dealing' \in 0 .. 1 /\ (NoSignals(s) => Dealing' = 0)
      BY <1>0, <1>3, <2>1 DEF Dealing, NoSignals
    <2>4. \A t \in Socks : NoSignals(t) => NoSignals(t)'
      BY <1>0, <1>3, <2>1 DEF NoSignals
    <2>5. ASSUME InWait, cur.clean PROVE Pending' \in Nat /\ Pending' <= Pending
      <3>1. cur.sock \in Socks /\ \E k : Counted(k)
        BY <2>5 DEF Accounts, CallKinds
      <3>2. PICK a \in Nat : a = Len(answers[cur.sock])
        BY <3>1, CountTypes
      <3>3. CASE s = cur.sock
        <4>1. Len(answers'[s]) = a - 1 /\ a # 0
          BY <1>0, <1>3, <2>1, <3>2, <3>3
        <4>2. PICK d \in 0 .. 1, g \in 0 .. 1 : d = Dealing' /\ g = Signal
          BY <1>1, <2>3
        <4>3. Pending' = (a - 1) + d + g /\ Pending = a + 0 + g
          BY <1>0, <1>1, <3>2, <3>3, <4>1, <4>2 DEF Pending, apiVars
        <4> QED
          BY <4>1, <4>3
      <3>4. CASE s # cur.sock
        <4>1. Dealing' = 0
          BY <2>3, <3>1, <3>4 DEF Counted
        <4>2. Pending' = a + 0 + Signal /\ Pending = a + 0 + Signal
          BY <1>0, <1>1, <1>3, <3>1, <3>2, <3>4, <4>1 DEF Pending, apiVars
        <4> QED
          BY <1>1, <4>2
      <3> QED
        BY <3>3, <3>4
    <2> QED
      BY <1>0, <1>1, <2>2, <2>3, <2>4, <2>5, MovesKeep DEF links
  <1> QED
    BY <1>2, <1>3 DEF RecvAndFind

LEMMA AccountsOfClosing ==
    ASSUME IInv, Accounts, NEW t \in Socks, BoardCloses(t)
    PROVE  Accounts'
  <1>0. /\ StreamTypes /\ requests' = [requests EXCEPT ![t] = <<>>]
        /\ sockState' = [sockState EXCEPT ![t] = "eof"]
        /\ UNCHANGED <<apiVars, m_hSigRspEvent, rcvVars, peer, answers, served>>
    BY DEF BoardCloses, Accounts
  <1>1. <<>> \in Seq({"logon", "service", "command"}) /\ Len(<<>>) = 0
    OBVIOUS
  <1>2. StreamTypes'
    BY <1>0, <1>1 DEF StreamTypes, rcvVars, IInv, Types
  <1>3. \A s \in Socks : NoSignals(s) => NoSignals(s)'
    BY <1>0, NoneOutstanding DEF NoSignals, StreamTypes
  <1>4. Dealing' = Dealing /\ Signal' = Signal
    BY <1>0 DEF Dealing, Signal, rcvVars
  <1>5. CallKinds' /\ SuccessMeansServed'
    BY <1>0, ServedStays DEF Accounts, CallKinds, InWait, apiVars
  <1>6. NothingOutstanding'
    BY <1>0, <1>3, <1>4 DEF Accounts, NothingOutstanding, InWait, apiVars
  <1>7. ASSUME InWait, cur.clean PROVE Counted(WaitNo(pc))'
    <2>1. PICK k \in 1 .. 4 : k = WaitNo(pc)
      BY <1>7, WaitIs
    <2>2. cur.sock \in Socks /\ Counted(k)
      BY <1>7, <2>1 DEF Accounts, CallKinds
    <2>3. PICK v \in Nat, r \in Nat : v = served[cur.sock] /\ r = Len(requests[cur.sock])
      BY <2>2, CountTypes
    <2>4. v + r <= k /\ v + 0 <= k
      BY <2>2, <2>3 DEF Counted
    <2>5. /\ \/ requests'[cur.sock] = requests[cur.sock]
             \/ requests'[cur.sock] = <<>>
          /\ Pending' = Pending /\ Extra' = Extra
      BY <1>0, <1>4, <2>2 DEF Pending, Extra, StreamTypes, apiVars
    <2>6. CASE requests'[cur.sock] = requests[cur.sock]
      BY <1>0, <1>3, <2>1, <2>2, <2>5, <2>6 DEF Counted, apiVars
    <2>7. CASE requests'[cur.sock] = <<>>
      <3>1. Len(requests'[cur.sock]) = 0
        BY <1>1, <2>7
      <3> QED
        BY <1>0, <1>3, <2>1, <2>2, <2>3, <2>4, <2>5, <3>1 DEF Counted, apiVars
    <2> QED
      BY <2>5, <2>6, <2>7
  <1> QED
    BY <1>0, <1>2, <1>5, <1>6, <1>7 DEF Accounts, InWait, apiVars

LEMMA AnswerTypes ==
    ASSUME NEW s, NEW msg
    PROVE  /\ AnswersTo(s, msg) \in Seq({"sig", "data"}) /\ Len(AnswersTo(s, msg)) \in 1 .. 2
           /\ msg = "command" => AnswersTo(s, msg) = <<"data">>
           /\ Len(AnswersTo(s, msg)) = 2 => msg = "logon" /\ peer[s] \in Echoing
  <1>1. /\ <<"data">> \in Seq({"sig", "data"}) /\ Len(<<"data">>) = 1
        /\ <<"sig">> \in Seq({"sig", "data"}) /\ Len(<<"sig">>) = 1
        /\ <<"sig", "sig">> \in Seq({"sig", "data"}) /\ Len(<<"sig", "sig">>) = 2
    OBVIOUS
  <1>2. CASE msg = "command"
    <2>1. AnswersTo(s, msg) = <<"data">>
      BY <1>2 DEF AnswersTo
    <2>2. AnswersTo(s, msg) \in Seq({"sig", "data"}) /\ Len(AnswersTo(s, msg)) = 1
      BY <1>1, <2>1, Zenon
    <2>3. 1 \in 1 .. 2 /\ 1 # 2
      OBVIOUS
    <2> QED
      BY <2>1, <2>2, <2>3, Zenon
  <1>3. CASE msg = "logon" /\ peer[s] \in Echoing
    <2>1. msg # "command"
      BY <1>3
    <2>2. AnswersTo(s, msg) = <<"sig", "sig">>
      BY <1>3, <2>1, Zenon DEF AnswersTo
    <2> QED
      BY <1>1, <1>3, <2>1, <2>2
  <1>4. CASE msg # "command" /\ ~(msg = "logon" /\ peer[s] \in Echoing)
    <2>1. AnswersTo(s, msg) = <<"sig">>
      BY <1>4 DEF AnswersTo
    <2> QED
      BY <1>1, <1>4, <2>1
  <1> QED
    BY <1>2, <1>3, <1>4

(* The board serves a request of the registration, or answers a command. *)
LEMMA AccountsOfAnswer ==
    ASSUME IInv, Accounts, NEW t \in Socks, BoardAnswers(t)
    PROVE  Accounts'
  <1> DEFINE msg == Head(requests[t])
             new == AnswersTo(t, msg)
  <1>0. /\ StreamTypes /\ CallKinds /\ SuccessMeansServed /\ NothingOutstanding
        /\ answers \in [Socks -> Seq({"sig", "data"})]
    BY DEF Accounts, IInv, Types
  <1>1. /\ sockState[t] = "open" /\ requests[t] # <<>>
        /\ requests' = [requests EXCEPT ![t] = Tail(@)]
        /\ answers' = [answers EXCEPT ![t] = @ \o new]
        /\ served' = IF msg = "command" THEN served ELSE [served EXCEPT ![t] = @ + 1]
        /\ UNCHANGED <<apiVars, m_hSigRspEvent, rcvVars, links>>
    BY DEF BoardAnswers
  <1>2. /\ Tail(requests[t]) \in Seq({"logon", "service", "command"})
        /\ Len(requests[t]) \in Nat \ {0} /\ Len(Tail(requests[t])) = Len(requests[t]) - 1
        /\ \A i \in 1 .. Len(Tail(requests[t])) : Tail(requests[t])[i] = requests[t][i + 1]
        /\ msg = requests[t][1]
        /\ OnlyCommands(requests[t]) => OnlyCommands(Tail(requests[t])) /\ msg = "command"
    BY <1>0, <1>1, DrainedTail, HeadTailProperties DEF StreamTypes
  <1>3. /\ new \in Seq({"sig", "data"}) /\ Len(new) \in 1 .. 2
        /\ msg = "command" => new = <<"data">>
        /\ Len(new) = 2 => msg = "logon" /\ peer[t] \in Echoing
    BY AnswerTypes
  <1> HIDE DEF msg, new
  <1>4. PICK a \in Nat, m \in 1 .. 2 : a = Len(answers[t]) /\ m = Len(new)
    BY <1>0, <1>3, LenProperties
  <1>5. /\ Len(answers[t] \o new) = a + m
        /\ \A i \in 1 .. a + m : (answers[t] \o new)[i] = IF i <= a THEN answers[t][i] ELSE new[i - a]
    BY <1>0, <1>3, <1>4, ConcatProperties
  <1>6. OnlyData(answers[t]) /\ msg = "command" => OnlyData(answers[t] \o new)
    <2>0. SUFFICES ASSUME OnlyData(answers[t]), msg = "command" PROVE OnlyData(answers[t] \o new)
      OBVIOUS
    <2>1. m = 1 /\ new[1] = "data"
      BY <1>3, <1>4, <2>0
    <2>2. \A i \in 1 .. a + 1 : (answers[t] \o new)[i] = "data"
      <3>1. ASSUME NEW i \in 1 .. a + 1 PROVE (answers[t] \o new)[i] = "data"
        <4>0. i \in 1 .. a + m /\ (answers[t] \o new)[i] = IF i <= a THEN answers[t][i] ELSE new[i - a]
          BY <1>5, <2>1
        <4>1. CASE i <= a
          <5>1. i \in 1 .. a
            BY <4>1
          <5> QED
            BY <1>4, <2>0, <4>0, <4>1, <5>1 DEF OnlyData
        <4>2. CASE i = a + 1
          <5>1. ~(i <= a) /\ i - a = 1
            BY <4>2
          <5>2. (answers[t] \o new)[i] = new[i - a]
            BY <4>0, <5>1
          <5> QED
            BY <2>1, <5>1, <5>2, Zenon
        <4>3. i <= a \/ i = a + 1
          OBVIOUS
        <4> QED
          BY <4>1, <4>2, <4>3, Zenon
      <3> QED
        BY <3>1
    <2> QED
      BY <1>5, <2>1, <2>2 DEF OnlyData
  <1>7. \A s \in Socks : NoSignals(s) => NoSignals(s)' /\ (s = t => msg = "command")
    BY <1>0, <1>1, <1>2, <1>6 DEF NoSignals, StreamTypes
  <1>8. served' \in [Socks -> Nat]
    BY <1>0, <1>1 DEF StreamTypes
  <1>9. StreamTypes'
    BY <1>0, <1>1, <1>2, <1>8 DEF StreamTypes, rcvVars, links
  <1>10. Dealing' = Dealing /\ Signal' = Signal /\ InWait' = InWait
    BY <1>1 DEF Dealing, Signal, InWait, rcvVars, apiVars
  <1>11. SuccessMeansServed'
    BY <1>0, <1>1, ServedStays DEF apiVars
  <1>12. CallKinds'
    <2>1. pc \in {"insert", "model"} => cur.sock # t
      BY <1>1 DEF IInv, Registering
    <2> QED
      BY <1>0, <1>1, <1>10, <2>1 DEF CallKinds, apiVars, links, StreamTypes
  <1>13. NothingOutstanding'
    BY <1>0, <1>1, <1>7, <1>10 DEF NothingOutstanding, apiVars
  <1>14. ASSUME InWait, cur.clean PROVE Counted(WaitNo(pc))'
    <2>1. PICK k \in 1 .. 4 : k = WaitNo(pc)
      BY <1>14, WaitIs
    <2>2. cur.sock \in Socks /\ Counted(k) /\ peer[cur.sock] = cur.addr
      BY <1>0, <1>14, <2>1 DEF Accounts, CallKinds
    <2>3. CASE t # cur.sock
      <3>1. msg = "command" /\ NoSignals(t)
        BY <1>7, <2>2, <2>3 DEF Counted
      <3>2. /\ requests'[cur.sock] = requests[cur.sock] /\ served' = served
            /\ answers'[cur.sock] = answers[cur.sock] /\ cur' = cur /\ pc' = pc
        BY <1>0, <1>1, <2>2, <2>3, <3>1 DEF StreamTypes, apiVars
      <3>3. Pending' = Pending /\ Extra' = Extra
        BY <1>10, <3>2 DEF Pending, Extra
      <3> QED
        BY <1>7, <2>1, <2>2, <3>2, <3>3 DEF Counted
    <2>4. CASE t = cur.sock
      <3>1. PICK v \in Nat, p \in Nat, x \in 0 .. 1, r \in Nat \ {0}, g \in 0 .. 2 :
                /\ v = served[t] /\ p = Pending /\ x = Extra /\ r = Len(requests[t])
                /\ g = Dealing + Signal
        <4>1. Dealing + Signal \in 0 .. 2
          BY DEF Dealing, Signal
        <4>2. served[t] \in Nat /\ Pending \in Nat /\ Extra \in 0 .. 1
          BY <2>2, <2>4, CountTypes
        <4> QED
          BY <1>2, <4>1, <4>2
      <3>2. /\ msg # "command" /\ (msg = "logon" => v = 0 /\ r = 1)
            /\ p + k <= v + 1 + x /\ (v = 0 => p = 0 /\ k = 1) /\ v + r <= k
            /\ \A i \in 1 .. r : /\ requests[t][i] # "command"
                                 /\ requests[t][i] = "logon" => r = 1
        <4>1. /\ p + k <= v + 1 + x /\ (v = 0 => p = 0 /\ k = 1) /\ v + r <= k
              /\ \A i \in 1 .. r : /\ requests[t][i] # "command"
                                   /\ requests[t][i] = "logon" => v = 0 /\ r = 1
          BY <2>2, <2>4, <3>1 DEF Counted
        <4>2. 1 \in 1 .. r
          OBVIOUS
        <4>3. msg # "command" /\ (msg = "logon" => v = 0 /\ r = 1)
          BY <1>2, <4>1, <4>2
        <4> QED
          BY <4>1, <4>3
      <3>3. served'[t] = v + 1 /\ cur' = cur /\ pc' = pc /\ requests'[t] = Tail(requests[t])
        BY <1>0, <1>1, <3>1, <3>2 DEF StreamTypes, apiVars
      <3>4. m = 2 => v = 0 /\ r = 1 /\ x = 1
        BY <1>3, <1>4, <2>2, <2>4, <3>1, <3>2 DEF Extra
      <3>5. Extra' = x
        BY <3>1, <3>3 DEF Extra
      <3>6. p + m = a + m + g /\ Pending' = a + m + g
        <4>1. PICK d \in 0 .. 1, h \in 0 .. 1 : d = Dealing /\ h = Signal
          BY DEF Dealing, Signal
        <4>2. p = a + d + h /\ g = d + h
          BY <1>4, <2>4, <3>1, <4>1 DEF Pending
        <4>3. Pending' = (a + m) + d + h
          BY <1>0, <1>1, <1>5, <1>10, <2>4, <3>3, <4>1 DEF Pending
        <4> QED
          BY <4>2, <4>3
      <3>7. (p + m) + k <= (v + 1) + 1 + x /\ (v + 1) + (r - 1) <= k
        BY <3>2, <3>4
      <3>8. Len(requests'[t]) = r - 1
        BY <1>2, <3>1, <3>3
      <3>9. ASSUME NEW i \in 1 .. r - 1
            PROVE  requests'[t][i] # "command" /\ requests'[t][i] # "logon"
        <4>1. i + 1 \in 1 .. r /\ r # 1
          OBVIOUS
        <4>2. requests'[t][i] = requests[t][i + 1]
          BY <1>2, <3>1, <3>3, <3>8
        <4> QED
          BY <3>2, <4>1, <4>2
      <3>10. \A s \in Socks : s # t => NoSignals(s)'
        BY <1>7, <2>2, <2>4 DEF Counted
      <3>11. Pending' = p + m /\ v + 1 # 0
        BY <3>6
      <3> QED
        BY <2>1, <2>4, <3>3, <3>5, <3>7, <3>8, <3>9, <3>10, <3>11 DEF Counted
    <2> QED
      BY <2>3, <2>4
  <1> QED
    BY <1>1, <1>9, <1>10, <1>11, <1>12, <1>13, <1>14 DEF Accounts, apiVars

(* Every step keeps the accounts. *)
LEMMA AccountsInvariant == Spec => []Accounts
  <1>1. IInv /\ Accounts /\ [Next]_vars => Accounts'
    <2> SUFFICES ASSUME IInv, Accounts, [Next]_vars PROVE Accounts'
      OBVIOUS
    <2>1. ASSUME NEW n \in Names,
                 \/ \E a \in Addrs : RegisterProc(n, a) \/ UnRegisterProc(n, a)
                 \/ Command(n)
          PROVE  Accounts'
      BY <2>1, AccountsOfCalls
    <2>2. CASE CallStep
      BY <2>2, AccountsOfCalls, AccountsOfConnected, AccountsOfInsertModel, AccountsOfSignal,
         AccountsOfTimeout DEF CallStep
    <2>3. CASE UnRegisterLocked
      BY <2>3, AccountsOfUnRegister
    <2>4. CASE ReceiveStep
      BY <2>4, AccountsOfRound, AccountsOfRecv, AccountsOfDealMsg DEF ReceiveStep
    <2>5. ASSUME NEW s \in Socks, BoardAnswers(s) \/ BoardCloses(s) PROVE Accounts'
      BY <2>5, AccountsOfAnswer, AccountsOfClosing
    <2>6. CASE UNCHANGED vars
      BY <2>6, AccountsOfRound
    <2> QED
      BY <2>1, <2>2, <2>3, <2>4, <2>5, <2>6 DEF Next
  <1> QED
    BY <1>1, AccountsInit, RegistryInductive, PTL DEF Spec

(* A registration that succeeds, while no signal of an earlier one can be  *)
(* outstanding, was granted its services by the board, however the two     *)
(* threads and the boards interleave (SendMsg_LogOn, SendMsg_Service).     *)
THEOREM RegistrationsAreServed == Spec => []SuccessMeansServed
  <1>1. Accounts => SuccessMeansServed
    BY DEF Accounts
  <1> QED
    BY <1>1, AccountsInvariant, PTL

-----------------------------------------------------------------------------
(* The requests of a registration that are still in a stream, by place. *)
Due(q) == {i \in 1 .. Len(q) : q[i] # "command"}

LEMMA DueFacts ==
    ASSUME NEW S, NEW q \in Seq(S)
    PROVE  /\ IsFiniteSet(Due(q)) /\ Cardinality(Due(q)) \in Nat
  <1>1. PICK n \in Nat : n = Len(q)
    BY LenProperties
  <1>2. IsFiniteSet(1 .. n) /\ Due(q) \in SUBSET (1 .. n)
    BY <1>1, FS_Interval DEF Due
  <1>3. IsFiniteSet(Due(q))
    BY <1>2, FS_Subset
  <1> QED
    BY <1>3, FS_CardinalityType

LEMMA NothingDue == Cardinality(Due(<<>>)) = 0
  BY FS_EmptySet DEF Due

LEMMA DueAppended ==
    ASSUME NEW S, NEW q \in Seq(S), NEW m \in S, NEW t, t = Append(q, m)
    PROVE  /\ m = "command" => Cardinality(Due(t)) = Cardinality(Due(q))
           /\ Cardinality(Due(t)) <= Cardinality(Due(q)) + 1
  <1>1. PICK n \in Nat : n = Len(q)
    BY LenProperties
  <1>2. Len(t) = n + 1 /\ t[n + 1] = m /\ \A i \in 1 .. n : t[i] = q[i]
    BY <1>1, AppendProperties
  <1>3. Due(t) = IF m = "command" THEN Due(q) ELSE Due(q) \cup {n + 1}
    BY <1>1, <1>2 DEF Due
  <1>4. PICK c \in Nat : c = Cardinality(Due(q)) /\ IsFiniteSet(Due(q))
    BY DueFacts
  <1>5. Cardinality(Due(q) \cup {n + 1}) \in {c, c + 1}
    BY <1>4, FS_AddElement
  <1> QED
    BY <1>3, <1>4, <1>5

LEMMA DueTail ==
    ASSUME NEW S, NEW q \in Seq(S), q # <<>>
    PROVE  /\ Tail(q) \in Seq(S)
           /\ Cardinality(Due(Tail(q))) <= Cardinality(Due(q)) - (IF Head(q) = "command" THEN 0 ELSE 1)
  <1>1. /\ Tail(q) \in Seq(S) /\ Len(Tail(q)) = Len(q) - 1
        /\ \A i \in 1 .. Len(Tail(q)) : Tail(q)[i] = q[i + 1]
    BY HeadTailProperties
  <1>2. PICK n \in Nat \ {0} : n = Len(q)
    BY EmptySeq, LenProperties
  <1>3. PICK r \in Seq(S) : r = Tail(q)
    BY <1>1
  <1>4. Len(r) = n - 1 /\ \A i \in 1 .. n - 1 : r[i] = q[i + 1]
    BY <1>1, <1>2, <1>3
  <1> DEFINE Rest == Due(q) \ {1}
             f == [i \in Rest |-> i - 1]
  <1>5. Due(q) \subseteq 1 .. n /\ (Head(q) # "command" => 1 \in Due(q))
    BY <1>2 DEF Due
  <1>6. f \in Surjection(Rest, Due(r))
    <2>1. \A i \in Rest : i - 1 \in Due(r)
      BY <1>2, <1>4 DEF Due
    <2>2. \A j \in Due(r) : j + 1 \in Rest /\ (j + 1) - 1 = j
      BY <1>2, <1>4 DEF Due
    <2> QED
      BY <2>1, <2>2 DEF Surjection
  <1>7. PICK c \in Nat : c = Cardinality(Due(q)) /\ IsFiniteSet(Due(q))
    BY DueFacts
  <1>8. IsFiniteSet(Rest) /\ Cardinality(Rest) = IF 1 \in Due(q) THEN c - 1 ELSE c
    BY <1>7, FS_RemoveElement
  <1>9. Cardinality(Due(r)) <= Cardinality(Rest)
    BY <1>6, <1>8, FS_Surjection DEF ExistsSurjection
  <1>10. Cardinality(Due(r)) \in Nat
    BY DueFacts
  <1> QED
    BY <1>1, <1>3, <1>5, <1>7, <1>8, <1>9, <1>10

(* The registration requests a connection has seen: at wait k at most k. *)
Asked(s) == served[s] + Cardinality(Due(requests[s]))
Bounds ==
    /\ \A s \in Socks : Asked(s) <= 4
    /\ InWait => Asked(cur.sock) <= WaitNo(pc)

LEMMA AskedType == ASSUME StreamTypes, NEW s \in Socks PROVE Asked(s) \in Nat
  <1>1. served[s] \in Nat /\ requests[s] \in Seq({"logon", "service", "command"})
    BY DEF StreamTypes
  <1>2. PICK c \in Nat : c = Cardinality(Due(requests[s]))
    BY <1>1, DueFacts
  <1> QED
    BY <1>1, <1>2 DEF Asked

LEMMA AskedTypeNext == ASSUME StreamTypes', NEW s \in Socks PROVE Asked(s)' \in Nat
  <1>1. served'[s] \in Nat /\ requests'[s] \in Seq({"logon", "service", "command"})
    BY DEF StreamTypes
  <1>2. PICK c \in Nat : c = Cardinality(Due(requests'[s]))
    BY <1>1, DueFacts
  <1> QED
    BY <1>1, <1>2 DEF Asked

LEMMA NoMoreAsked ==
    ASSUME StreamTypes, StreamTypes', CallKinds, Bounds, \A s \in Socks : Asked(s)' <= Asked(s),
           InWait' => UNCHANGED <<pc, cur>>
    PROVE  Bounds'
  <1>1. \A s \in Socks : Asked(s) \in Nat
    BY AskedType
  <1>2. \A s \in Socks : Asked(s)' \in Nat
    BY AskedTypeNext
  <1>3. \A s \in Socks : Asked(s)' <= 4
    BY <1>1, <1>2 DEF Bounds
  <1>4. (InWait => Asked(cur.sock) <= WaitNo(pc))'
    <2> SUFFICES ASSUME InWait' PROVE (Asked(cur.sock) <= WaitNo(pc))'
      OBVIOUS
    <2>1. InWait /\ cur' = cur /\ WaitNo(pc') = WaitNo(pc) /\ pc' = pc
      BY DEF InWait
    <2>2. PICK s \in Socks : s = cur.sock
      BY <2>1 DEF CallKinds
    <2>3. WaitNo(pc) \in Nat
      BY <2>1, WaitIs
    <2>4. Asked(s)' <= WaitNo(pc)
      BY <1>1, <1>2, <2>1, <2>2, <2>3 DEF Bounds
    <2>5. Asked(cur.sock)' = Asked(s)'
      BY <2>1, <2>2 DEF Asked
    <2> QED
      BY <2>1, <2>4, <2>5
  <1> QED
    BY <1>3, <1>4 DEF Bounds

(* What SendMsg asks of the connections. *)
LEMMA SentAsks ==
    ASSUME StreamTypes, NEW t, NEW msg \in {"logon", "service", "command"}, SendMsg(t, msg), served' = served
    PROVE  \A s \in Socks : /\ Asked(s)' <= Asked(s) + 1
                            /\ s # t \/ msg = "command" => Asked(s)' = Asked(s)
  <1> SUFFICES ASSUME NEW s \in Socks
               PROVE  Asked(s)' <= Asked(s) + 1 /\ (s # t \/ msg = "command" => Asked(s)' = Asked(s))
    OBVIOUS
  <1>1. PICK v \in Nat : v = served[s] /\ v = served'[s]
    BY DEF StreamTypes
  <1>2. PICK q \in Seq({"logon", "service", "command"}) : q = requests[s]
    BY DEF StreamTypes
  <1>3. PICK c \in Nat : c = Cardinality(Due(q))
    BY DueFacts
  <1>4. requests'[s] = q \/ (s = t /\ requests'[s] = Append(q, msg))
    BY <1>2 DEF SendMsg, StreamTypes
  <1>5. CASE requests'[s] = q
    BY <1>1, <1>2, <1>3, <1>5 DEF Asked
  <1>6. CASE s = t /\ requests'[s] = Append(q, msg)
    <2>a. Append(q, msg) \in Seq({"logon", "service", "command"})
      BY AppendProperties
    <2>1. PICK r \in Seq({"logon", "service", "command"}) : r = Append(q, msg)
      BY <2>a, Zenon
    <2>2. PICK d \in Nat : d = Cardinality(Due(r))
      BY DueFacts
    <2>3. /\ msg = "command" => Cardinality(Due(r)) = Cardinality(Due(q))
          /\ Cardinality(Due(r)) <= Cardinality(Due(q)) + 1
      <3>1. PICK M : M = {"logon", "service", "command"}
        OBVIOUS
      <3>2. q \in Seq(M) /\ msg \in M
        BY <3>1
      <3> QED
        BY <2>1, <3>2, DueAppended
    <2>4. d <= c + 1 /\ (msg = "command" => d = c)
      BY <1>3, <2>2, <2>3
    <2> QED
      BY <1>1, <1>2, <1>3, <1>6, <2>1, <2>2, <2>4 DEF Asked
  <1> QED
    BY <1>4, <1>5, <1>6

(* A board serves what was asked; a closed connection forgets it. *)
LEMMA ServingAsksNoMore ==
    ASSUME StreamTypes, NEW t \in Socks,
           BoardAnswers(t) \/ BoardCloses(t) \/ ClientClose(t)
    PROVE  \A s \in Socks : Asked(s)' <= Asked(s)
  <1> SUFFICES ASSUME NEW s \in Socks PROVE Asked(s)' <= Asked(s)
    OBVIOUS
  <1>1. PICK v \in Nat : v = served[s]
    BY DEF StreamTypes
  <1>2. PICK q \in Seq({"logon", "service", "command"}) : q = requests[s]
    BY DEF StreamTypes
  <1>3. PICK c \in Nat : c = Cardinality(Due(q))
    BY DueFacts
  <1>4. Asked(s) = v + c
    BY <1>1, <1>2, <1>3 DEF Asked
  <1>5. CASE s # t
    <2>1. served'[s] = v /\ requests'[s] = q
      BY <1>1, <1>2, <1>5 DEF BoardAnswers, BoardCloses, ClientClose, StreamTypes
    <2> QED
      BY <1>3, <1>4, <2>1 DEF Asked
  <1>6. CASE s = t /\ BoardAnswers(t)
    <2>1. q # <<>> /\ requests'[s] = Tail(q)
          /\ served'[s] = IF Head(q) = "command" THEN v ELSE v + 1
      BY <1>1, <1>2, <1>6 DEF BoardAnswers, StreamTypes
    <2>2. PICK d \in Nat : d = Cardinality(Due(Tail(q)))
      BY <2>1, DueTail, DueFacts
    <2>3. d <= c - (IF Head(q) = "command" THEN 0 ELSE 1)
      BY <1>3, <2>1, <2>2, DueTail
    <2> QED
      BY <1>3, <1>4, <2>1, <2>2, <2>3 DEF Asked
  <1>7. CASE s = t /\ (BoardCloses(t) \/ ClientClose(t))
    <2>1. requests'[s] = <<>> /\ served'[s] \in {v, 0}
      BY <1>1, <1>2, <1>7 DEF BoardCloses, ClientClose, StreamTypes
    <2>2. Cardinality(Due(<<>>)) = 0
      BY NothingDue
    <2> QED
      BY <1>4, <2>1, <2>2 DEF Asked
  <1> QED
    BY <1>5, <1>6, <1>7

LEMMA BoundsStep ==
    ASSUME IInv, Accounts, Accounts', Bounds, [Next]_vars
    PROVE  Bounds'
  <1>1. StreamTypes /\ StreamTypes' /\ CallKinds
    BY DEF Accounts
  <1>2. \A s \in Socks : Asked(s) \in Nat /\ Asked(s) <= 4
    BY <1>1, AskedType DEF Bounds
  <1>3. ASSUME requests' = requests, served' = served, InWait' => UNCHANGED <<pc, cur>>
        PROVE  Bounds'
    <2>1. \A s \in Socks : Asked(s)' = Asked(s)
      BY <1>3 DEF Asked
    <2> QED
      BY <1>1, <1>2, <1>3, <2>1, NoMoreAsked
  <1>4. CASE InsertModel
    <2>1. PICK t \in Socks : t = cur.sock
      BY <1>1, <1>4 DEF InsertModel, CallKinds
    <2>2. Asked(t) = 0
      <3>1. requests[t] = <<>> /\ served[t] = 0
        BY <1>1, <1>4, <2>1 DEF InsertModel, IInv, Registering, CallKinds
      <3>2. Cardinality(Due(<<>>)) = 0
        BY NothingDue
      <3> QED
        BY <3>1, <3>2 DEF Asked
    <2>3. \A s \in Socks : Asked(s)' <= Asked(s) + 1 /\ (s # t => Asked(s)' = Asked(s))
      BY <1>1, <1>4, <2>1, SentAsks DEF InsertModel
    <2>4. Asked(t)' <= 1
      BY <2>2, <2>3
    <2>5. pc' = Waits[1] /\ WaitNo(pc') = 1 /\ Asked(cur.sock)' = Asked(t)'
      <3>1. pc' = "wait1" /\ cur' = cur
        BY <1>4 DEF InsertModel
      <3> QED
        BY <2>1, <3>1, WaitNumbers DEF Asked
    <2>6. \A s \in Socks : Asked(s)' <= 4
      <3>1. ASSUME NEW s \in Socks PROVE Asked(s)' <= 4
        <4>1. Asked(s)' \in Nat
          BY <1>1, AskedTypeNext
        <4> QED
          BY <1>2, <2>3, <2>4, <4>1
      <3> QED
        BY <3>1
    <2>7. (Asked(cur.sock) <= WaitNo(pc))'
      BY <2>4, <2>5
    <2> QED
      BY <2>6, <2>7 DEF Bounds
  <1>5. CASE SigSignalled
    <2>1. PICK k \in 1 .. 4 : pc = Waits[k] /\ WaitNo(pc) = k /\ InWait
      BY <1>5, WaitIs DEF SigSignalled
    <2>2. CASE k = 4
      <3>1. pc' = "idle" /\ requests' = requests /\ served' = served
        BY <1>5, <2>1, <2>2 DEF SigSignalled, Return
      <3> QED
        BY <1>3, <3>1 DEF InWait
    <2>3. CASE k # 4
      <3>1. pc # Waits[4]
        BY <2>1, <2>3, WaitNumbers
      <3>2. pc' = Waits[k + 1] /\ cur' = cur /\ SendMsg(cur.sock, "service") /\ served' = served
        BY <1>5, <2>1, <3>1 DEF SigSignalled, Begin
      <3>3. PICK t \in Socks : t = cur.sock
        BY <1>1, <2>1 DEF CallKinds
      <3>4. \A s \in Socks : Asked(s)' <= Asked(s) + 1 /\ (s # t => Asked(s)' = Asked(s))
        BY <1>1, <3>2, <3>3, SentAsks
      <3>5. Asked(t) <= k
        BY <2>1, <3>3 DEF Bounds
      <3>6. Asked(t)' <= k + 1 /\ k + 1 \in 1 .. 4
        <4>1. PICK a \in Nat : a = Asked(t)
          BY <1>2
        <4>2. PICK b \in Nat : b = Asked(t)'
          BY <1>1, AskedTypeNext
        <4>3. b <= a + 1 /\ a <= k
          BY <3>4, <3>5, <4>1, <4>2
        <4> QED
          BY <2>3, <4>2, <4>3
      <3>7. WaitNo(pc') = k + 1 /\ Asked(cur.sock)' = Asked(t)'
        BY <3>2, <3>3, <3>6, WaitNumbers DEF Asked
      <3>8. \A s \in Socks : Asked(s)' <= 4
        <4>1. ASSUME NEW s \in Socks PROVE Asked(s)' <= 4
          <5>1. Asked(s)' \in Nat
            BY <1>1, AskedTypeNext
          <5> QED
            BY <1>2, <3>4, <3>6, <5>1
        <4> QED
          BY <4>1
      <3>9. (Asked(cur.sock) <= WaitNo(pc))'
        BY <3>6, <3>7
      <3> QED
        BY <3>8, <3>9 DEF Bounds
    <2> QED
      BY <2>2, <2>3
  <1>6. CASE UnRegisterLocked
    <2>1. CASE IsInfoMatch(cur.name, cur.addr)
      <3>1. PICK t \in Socks : t = m_NameAddrMap[cur.name].sock
        <4>1. cur.name \in Names /\ cur.addr \in Addrs
          BY <1>6 DEF UnRegisterLocked, IInv, Types, Call, Unregistering
        <4>2. IsReal(cur.name)
          BY <2>1, <4>1, UAgentRegistryValues DEF IsInfoMatch, IsReal
        <4> QED
          BY <4>1, <4>2 DEF IInv, Entries, Sock
      <3>2. ClientClose(t) /\ pc' = "eraseModel"
        BY <1>6, <2>1, <3>1 DEF UnRegisterLocked, CloseAndErase, Begin
      <3> QED
        BY <1>1, <3>2, NoMoreAsked, ServingAsksNoMore DEF InWait, Accounts
    <2>2. CASE ~IsInfoMatch(cur.name, cur.addr)
      BY <1>3, <1>6, <2>2 DEF UnRegisterLocked, Return, InWait
    <2> QED
      BY <2>1, <2>2
  <1>7. ASSUME NEW n \in Names, Command(n) PROVE Bounds'
    <2>1. PICK t : SendMsg(t, "command")
      BY <1>7 DEF Command
    <2>2. pc' = "cmd" /\ served' = served
      BY <1>7 DEF Command, Begin
    <2>3. \A s \in Socks : Asked(s)' = Asked(s)
      BY <1>1, <2>1, <2>2, SentAsks
    <2> QED
      BY <1>1, <1>2, <2>2, <2>3, NoMoreAsked DEF InWait
  <1>8. ASSUME NEW t \in Socks, BoardAnswers(t) \/ BoardCloses(t) PROVE Bounds'
    <2>1. pc' = pc /\ cur' = cur
      BY <1>8 DEF BoardAnswers, BoardCloses, apiVars
    <2> QED
      BY <1>1, <1>8, <2>1, NoMoreAsked, ServingAsksNoMore
  <1>9. CASE \E n \in Names, a \in Addrs : RegisterProc(n, a) \/ UnRegisterProc(n, a)
    BY <1>3, <1>9 DEF RegisterProc, UnRegisterProc, Begin, Return, InWait, sockVars
  <1>10. CASE ConnectFails \/ InsertAddr \/ SigTimeout \/ EraseModel \/ CommandReturns
    BY <1>3, <1>10 DEF ConnectFails, InsertAddr, SigTimeout, EraseModel, CommandReturns, Return, InWait, sockVars
  <1>11. ASSUME NEW s \in Socks, Connected(s) PROVE Bounds'
    BY <1>3, <1>11 DEF Connected, InWait
  <1>12. CASE Snapshot \/ SelectFails \/ SelectReady \/ EnterDealLoop \/ DealMsg \/ LeaveDealLoop \/ UNCHANGED vars
    BY <1>3, <1>12 DEF Snapshot, SelectFails, SelectReady, EnterDealLoop, DealMsg, LeaveDealLoop, vars, apiVars, sockVars
  <1>13. ASSUME NEW n \in Names, RecvAndFind(n) PROVE Bounds'
    BY <1>3, <1>13 DEF RecvAndFind, apiVars
  <1> QED
    BY <1>4, <1>5, <1>6, <1>7, <1>8, <1>9, <1>10, <1>11, <1>12, <1>13 DEF Next, CallStep, ReceiveStep

(* The call, its result and the two threads stay in range. *)
LEMMA CallTypes ==
    ASSUME IInv, IInv', Accounts, Bounds, TypeOK, [Next]_vars
    PROVE  /\ cur' \in Call \cup {NoCall} /\ made' \in 0 .. MaxCalls
           /\ last' \in [call : Call, code : Codes, served : 0 .. 4] \cup {NoCall}
           /\ pc' \in APIStates
  <1>1. /\ pc # "idle" => cur \in Call
        /\ pc' # "idle" => cur' \in Call
        /\ clean \in BOOLEAN
    BY DEF IInv, Types
  <1>2. \A op \in Ops, n \in Names, a \in Addrs \cup {NoAddr} : NewCall(op, n, a) \in Call
    BY <1>1, NewCallType
  <1>3. cur' \in Call \cup {NoCall}
    <2>1. pc' = "idle" => cur' \in {NoCall, cur}
      BY DEF Next, CallStep, ReceiveStep, RegisterProc, UnRegisterProc, Command, ConnectFails, Connected, InsertAddr,
             InsertModel, SigSignalled, SigTimeout, EraseModel, CommandReturns, UnRegisterLocked, CloseAndErase,
             Begin, Return, Snapshot, SelectFails, SelectReady, EnterDealLoop, RecvAndFind, DealMsg, LeaveDealLoop,
             BoardAnswers, BoardCloses, vars, apiVars
    <2> QED
      BY <1>1, <2>1 DEF TypeOK
  <1>4. made' \in 0 .. MaxCalls
    <2>1. made' = made \/ (made < MaxCalls /\ made' = made + 1)
      BY DEF Next, CallStep, ReceiveStep, RegisterProc, UnRegisterProc, Command, ConnectFails, Connected, InsertAddr,
             InsertModel, SigSignalled, SigTimeout, EraseModel, CommandReturns, UnRegisterLocked, Enter,
             Snapshot, SelectFails, SelectReady, EnterDealLoop, RecvAndFind, DealMsg, LeaveDealLoop,
             BoardAnswers, BoardCloses, vars, apiVars
    <2> QED
      BY <2>1, UAgentRegistryAssumption DEF TypeOK
  <1>5. last' \in [call : Call, code : Codes, served : 0 .. 4] \cup {NoCall}
    <2>1. CASE last' = last
      BY <2>1 DEF TypeOK
    <2>2. CASE \E call \in Call, code \in Codes, handled \in 0 .. 4 : Return(call, code, handled)
      BY <2>2 DEF Return
    <2>3. CASE SigSignalled \/ SigTimeout
      <3>1. PICK k \in 1 .. 4 : pc = Waits[k] /\ InWait
        BY <2>3, WaitIs DEF SigSignalled, SigTimeout
      <3>2. cur \in Call
        BY <1>1, <3>1 DEF InWait
      <3>3. PICK t \in Socks : t = cur.sock
        BY <3>1 DEF Accounts, CallKinds
      <3>4. PICK v \in Nat : v = served[t]
        BY DEF Accounts, StreamTypes
      <3>5. PICK c \in Nat : c = Cardinality(Due(requests[t]))
        <4>1. requests[t] \in Seq({"logon", "service", "command"})
          BY DEF Accounts, StreamTypes
        <4> QED
          BY <4>1, DueFacts
      <3>6. v + c <= 4
        BY <3>4, <3>5 DEF Bounds, Asked
      <3>7. served[cur.sock] \in 0 .. 4
        BY <3>3, <3>4, <3>6
      <3>8. \/ last' = last
            \/ Return(cur, TESTCASE_SUCCESS, served[cur.sock])
            \/ Return(cur, ECMD_CTRL_RSP_TIMEOUT_ERROR, served[cur.sock])
        BY <2>3 DEF SigSignalled, SigTimeout, Begin
      <3> QED
        BY <2>1, <2>2, <3>2, <3>7, <3>8 DEF Codes
    <2>4. CASE ConnectFails \/ EraseModel \/ CommandReturns \/ UnRegisterLocked
      <3>1. cur \in Call /\ 0 \in 0 .. 4
        BY <1>1, <2>4 DEF ConnectFails, EraseModel, CommandReturns, UnRegisterLocked
      <3>2. last' = last \/ \E code \in Codes : Return(cur, code, 0)
        BY <2>4 DEF ConnectFails, EraseModel, CommandReturns, UnRegisterLocked, CloseAndErase, Begin, Codes,
                    REGISTER_CONNECT_FAIL, TESTCASE_FAIL
      <3> QED
        BY <2>1, <2>2, <3>1, <3>2
    <2>5. CASE \E n \in Names, a \in Addrs : RegisterProc(n, a)
      <3>1. PICK n \in Names, a \in Addrs : RegisterProc(n, a)
        BY <2>5
      <3>2. NewCall("register", n, a) \in Call /\ 0 \in 0 .. 4
        BY <1>2 DEF Ops
      <3> QED
        BY <2>1, <2>2, <3>1, <3>2 DEF RegisterProc, Begin, Codes
    <2>6. last' = last \/ SigSignalled \/ SigTimeout \/ ConnectFails \/ EraseModel \/ CommandReturns
          \/ UnRegisterLocked \/ \E n \in Names, a \in Addrs : RegisterProc(n, a)
      BY DEF Next, CallStep, ReceiveStep, UnRegisterProc, Command, Connected, InsertAddr,
             InsertModel, Begin, Snapshot, SelectFails, SelectReady, EnterDealLoop, RecvAndFind, DealMsg,
             LeaveDealLoop, BoardAnswers, BoardCloses, vars, apiVars
    <2> QED
      BY <2>1, <2>3, <2>4, <2>5, <2>6
  <1>6. pc' \in APIStates
    <2>1. {"wait1", "wait2", "wait3", "wait4"} \subseteq APIStates
      BY WaitNumbers DEF APIStates
    <2>2. CASE SigSignalled
      BY <2>1, <2>2, NextWait DEF SigSignalled, Begin, Return, APIStates
    <2>3. pc' \in {pc, "idle", "connect", "insert", "model", "unreg", "eraseModel", "cmd", "wait1"} \/ SigSignalled
      BY DEF Next, CallStep, ReceiveStep, RegisterProc, UnRegisterProc, Command, ConnectFails, Connected, InsertAddr,
             InsertModel, SigTimeout, EraseModel, CommandReturns, UnRegisterLocked, CloseAndErase,
             Begin, Return, Snapshot, SelectFails, SelectReady, EnterDealLoop, RecvAndFind, DealMsg, LeaveDealLoop,
             BoardAnswers, BoardCloses, vars, apiVars
    <2> QED
      BY <2>1, <2>2, <2>3 DEF TypeOK, APIStates
  <1> QED
    BY <1>3, <1>4, <1>5, <1>6

(* So do the receive thread and what it is at. *)
LEMMA ReceiveTypes ==
    ASSUME IInv, TypeOK, [Next]_vars
    PROVE  /\ rcv' \in {"snapshot", "select", "lock", "deal", "dealing"}
           /\ readfds' \subseteq Socks \cup {NotASocket}
           /\ dealt' \in [name : Names, msg : {"sig", "data"}] \cup {NoMessage}
           /\ m_hSigRspEvent' \in BOOLEAN
  <1>1. CASE ReceiveStep
    <2>1. rcv' \in {"snapshot", "select", "lock", "deal", "dealing"}
      BY <1>1 DEF ReceiveStep, Snapshot, SelectFails, SelectReady, EnterDealLoop, RecvAndFind, DealMsg, LeaveDealLoop,
                  TypeOK
    <2>2. readfds' \subseteq Socks \cup {NotASocket}
      <3>1. CASE Snapshot
        <4>1. \A n \in Names : InMap(n) => m_NameAddrMap[n].sock \in Socks \cup {NotASocket}
          BY DEF InMap, TypeOK, Entry
        <4> QED
          BY <3>1, <4>1 DEF Snapshot
      <3>2. CASE readfds' \subseteq readfds
        BY <3>2 DEF TypeOK
      <3> QED
        BY <1>1, <3>1, <3>2 DEF ReceiveStep, SelectFails, SelectReady, EnterDealLoop, RecvAndFind, DealMsg,
                                LeaveDealLoop
    <2>3. dealt' \in [name : Names, msg : {"sig", "data"}] \cup {NoMessage}
      <3>1. ASSUME NEW n \in Names, RecvAndFind(n)
            PROVE  dealt' \in [name : Names, msg : {"sig", "data"}] \cup {NoMessage}
        <4>1. dealt' = dealt \/ \E s \in Socks : answers[s] # <<>> /\ dealt' = [name |-> n, msg |-> Head(answers[s])]
          BY <3>1 DEF RecvAndFind
        <4>2. \A s \in Socks : answers[s] # <<>> => Head(answers[s]) \in {"sig", "data"}
          <5>1. ASSUME NEW s \in Socks, answers[s] # <<>> PROVE Head(answers[s]) \in {"sig", "data"}
            <6>1. PICK q \in Seq({"sig", "data"}) : q = answers[s]
              BY DEF TypeOK
            <6> QED
              BY <5>1, <6>1, HeadTailProperties
          <5> QED
            BY <5>1
        <4> QED
          BY <4>1, <4>2 DEF TypeOK
      <3>2. CASE dealt' \in {dealt, NoMessage}
        BY <3>2 DEF TypeOK
      <3> QED
        BY <1>1, <3>1, <3>2 DEF ReceiveStep, Snapshot, SelectFails, SelectReady, EnterDealLoop, DealMsg, LeaveDealLoop
    <2>4. m_hSigRspEvent' \in BOOLEAN
      <3>1. CASE DealMsg
        BY <3>1 DEF DealMsg
      <3>2. CASE m_hSigRspEvent' = m_hSigRspEvent
        BY <3>2 DEF TypeOK
      <3> QED
        BY <1>1, <3>1, <3>2 DEF ReceiveStep, Snapshot, SelectFails, SelectReady, EnterDealLoop, RecvAndFind, LeaveDealLoop
    <2> QED
      BY <2>1, <2>2, <2>3, <2>4
  <1>2. CASE ~ReceiveStep
    <2>1. UNCHANGED <<rcv, readfds, dealt>> /\ m_hSigRspEvent' \in {m_hSigRspEvent, FALSE}
      BY <1>2 DEF Next, CallStep, RegisterProc, UnRegisterProc, Command, ConnectFails, Connected, InsertAddr,
                  InsertModel, SigSignalled, SigTimeout, EraseModel, CommandReturns, UnRegisterLocked,
                  BoardAnswers, BoardCloses, vars, rcvVars
    <2> QED
      BY <2>1 DEF TypeOK
  <1> QED
    BY <1>1, <1>2

(* And the sockets, of which none has more than four requests served. *)
LEMMA SocketTypes ==
    ASSUME IInv, Accounts', Bounds', TypeOK, [Next]_vars
    PROVE  /\ sockState' \in [Socks -> {"closed", "open", "eof"}]
           /\ peer' \in [Socks -> Addrs \cup {NoAddr}]
           /\ used' \subseteq Socks /\ outages' \in 0 .. MaxOutages
           /\ served' \in [Socks -> 0 .. 4]
  <1>1. served' \in [Socks -> 0 .. 4]
    <2>1. served' \in [Socks -> Nat]
      BY DEF Accounts, StreamTypes
    <2>2. ASSUME NEW s \in Socks PROVE served'[s] <= 4
      <3>1. PICK v \in Nat : v = served'[s]
        BY <2>1
      <3>2. PICK c \in Nat : c = Cardinality(Due(requests'[s]))
        <4>1. requests'[s] \in Seq({"logon", "service", "command"})
          BY DEF Accounts, StreamTypes
        <4> QED
          BY <4>1, DueFacts
      <3>3. v + c <= 4
        BY <3>1, <3>2 DEF Bounds, Asked
      <3> QED
        BY <3>1, <3>2, <3>3
    <2>3. \A s \in Socks : served'[s] \in 0 .. 4
      BY <2>1, <2>2
    <2> QED
      BY <2>1, <2>3
  <1>2. CASE \E s \in Socks : Connected(s)
    <2>1. PICK s \in Socks : Connected(s)
      BY <1>2
    <2>2. cur.addr \in Addrs
      BY <2>1 DEF Connected, IInv, Registering
    <2> QED
      BY <1>1, <2>1, <2>2 DEF Connected, TypeOK
  <1>3. CASE \E s : ClientClose(s) /\ UNCHANGED <<used, outages>>
    BY <1>1, <1>3 DEF ClientClose, TypeOK
  <1>4. CASE \E s \in Socks : BoardCloses(s)
    <2>1. outages' \in 0 .. MaxOutages
      BY <1>4, UAgentRegistryAssumption DEF BoardCloses, TypeOK
    <2> QED
      BY <1>1, <1>4, <2>1 DEF BoardCloses, TypeOK
  <1>5. CASE UNCHANGED links
    BY <1>1, <1>5 DEF links, TypeOK
  <1>6. CASE UnRegisterLocked
    <2>1. (\E s : ClientClose(s) /\ UNCHANGED <<used, outages>>) \/ UNCHANGED links
      BY <1>6 DEF UnRegisterLocked, CloseAndErase, links
    <2> QED
      BY <1>3, <1>5, <2>1
  <1>7. CASE ReceiveStep
    BY <1>5, <1>7 DEF ReceiveStep, Snapshot, SelectFails, SelectReady, EnterDealLoop, RecvAndFind, DealMsg,
                      LeaveDealLoop, sockVars
  <1>8. CASE CallStep
    BY <1>2, <1>5, <1>8 DEF CallStep, ConnectFails, InsertAddr, InsertModel, SigSignalled, SigTimeout, EraseModel,
                            CommandReturns, sockVars
  <1>9. CASE \E n \in Names : (\E a \in Addrs : RegisterProc(n, a) \/ UnRegisterProc(n, a)) \/ Command(n)
    BY <1>5, <1>9 DEF RegisterProc, UnRegisterProc, Command, sockVars
  <1>10. CASE \E s \in Socks : BoardAnswers(s)
    BY <1>5, <1>10 DEF BoardAnswers
  <1>11. CASE UNCHANGED vars
    BY <1>5, <1>11 DEF vars, sockVars
  <1> QED
    BY <1>4, <1>6, <1>7, <1>8, <1>9, <1>10, <1>11 DEF Next

(* Only a handle that the call connects is one handed out again. *)
LEMMA ReopenedTypes == ASSUME TypeOK, [Next]_vars PROVE reopened' \subseteq Socks
  <1>1. CASE \E s \in Socks : Connected(s)
    <2>1. PICK s \in Socks : reopened' \in {reopened \cup ({s} \cap readfds), reopened}
      BY <1>1 DEF Connected
    <2> QED
      BY <2>1 DEF TypeOK
  <1>2. CASE reopened' \in {reopened, {}}
    BY <1>2 DEF TypeOK
  <1>3. CASE ReceiveStep
    BY <1>2, <1>3 DEF ReceiveStep, Snapshot, SelectFails, SelectReady, EnterDealLoop, RecvAndFind, DealMsg, LeaveDealLoop
  <1>4. CASE CallStep \/ UnRegisterLocked
    BY <1>1, <1>2, <1>4 DEF CallStep, ConnectFails, InsertAddr, InsertModel, SigSignalled, SigTimeout, EraseModel,
                            CommandReturns, UnRegisterLocked, rcvVars
  <1>5. CASE \E n \in Names : (\E a \in Addrs : RegisterProc(n, a) \/ UnRegisterProc(n, a)) \/ Command(n)
    BY <1>2, <1>5 DEF RegisterProc, UnRegisterProc, Command, rcvVars
  <1>6. CASE \E s \in Socks : BoardAnswers(s) \/ BoardCloses(s)
    BY <1>2, <1>6 DEF BoardAnswers, BoardCloses, rcvVars
  <1>7. CASE UNCHANGED vars
    BY <1>2, <1>7 DEF vars, rcvVars
  <1> QED
    BY <1>3, <1>4, <1>5, <1>6, <1>7 DEF Next

(* The two threads, the maps and the sockets stay in range; in particular a *)
(* board serves at most the four requests of one registration on each       *)
(* connection, whatever times out or echoes (WorkManager.cpp:100-141).      *)
THEOREM TypeCorrect == Spec => []TypeOK
  <1>1. Init => Bounds /\ TypeOK
    <2> SUFFICES ASSUME Init PROVE Bounds /\ TypeOK
      OBVIOUS
    <2>1. \A s \in Socks : Asked(s) = 0
      BY NothingDue DEF Init, Asked
    <2>2. Bounds
      BY <2>1 DEF Init, Bounds, InWait
    <2>3. 0 \in 0 .. 4 /\ 0 \in 0 .. MaxCalls /\ 0 \in 0 .. MaxOutages
      BY UAgentRegistryAssumption
    <2>4. <<>> \in Seq({"logon", "service", "command"}) /\ <<>> \in Seq({"sig", "data"})
      OBVIOUS
    <2>5. NoMessage \in {NoMessage} /\ pc \in APIStates
      BY DEF Init, APIStates
    <2> QED
      BY <2>2, <2>3, <2>4, <2>5 DEF Init, TypeOK
  <1>2. ASSUME IInv, IInv', Accounts, Accounts', Bounds, TypeOK, [Next]_vars
        PROVE  Bounds' /\ TypeOK'
    <2>1. Bounds'
      BY <1>2, BoundsStep
    <2>2. /\ m_NameAddrMap' \in [Names -> Entry \cup {NoEntry}]
          /\ m_NameDataMap' \subseteq Names /\ todo' \subseteq Names
          /\ answers' \in [Socks -> Seq({"sig", "data"})] /\ clean' \in BOOLEAN
      BY <1>2 DEF IInv, Types
    <2>3. requests' \in [Socks -> Seq({"logon", "service", "command"})]
      BY <1>2 DEF Accounts, StreamTypes
    <2>4. reopened' \subseteq Socks
      BY <1>2, ReopenedTypes
    <2> QED
      BY <1>2, <2>1, <2>2, <2>3, <2>4, CallTypes, ReceiveTypes, SocketTypes DEF TypeOK
  <1> QED
    BY <1>1, <1>2, RegistryInductive, AccountsInvariant, PTL DEF Spec

=============================================================================
