------------------------ MODULE TestHostProofs ------------------------
(***************************************************************************)
(* Theorems about the three parts of the system that run beside the tests: *)
(* the sessions of the suites, the console client and the polling for      *)
(* logs, for every value of their constants.                               *)
(*                                                                         *)
(* Sessions: the inductive invariant ties the open session to the fields   *)
(* of the client and to its entry in the table, and says that a tidy run   *)
(* has no other entry.  Console client: it says which workers stop_session *)
(* has joined and that what begin_session works at is not closed.          *)
(* Polling: it says that each key no longer looked for has a file, and     *)
(* counts the keys of a name that are left against its listings.           *)
(***************************************************************************)
EXTENDS UAgentSession, TpfClient, LogUpload, SequenceTheorems, FiniteSetTheorems, TLAPS

SessionEntry ==
    session # NoSession =>
        /\ m_NameAddrMap[session.name] = [ip |-> session.ip, pid |-> SetPid(session.pid)]
        /\ client.name = session.name /\ client.ip = session.ip
        /\ IF session.byPid THEN client.pid = session.pid ELSE session.pid = -1

SessionAlone ==
    session # NoSession /\ session.pid >= -1 =>
        \A n \in CStrings \ {session.name} :
            m_NameAddrMap[n] # [ip |-> session.ip, pid |-> session.pid]

TidyEntries ==
    tidy => \A n \in CStrings :
        m_NameAddrMap[n] = NoEntry \/ (session # NoSession /\ n = session.name)

IInv == TypeOK /\ SessionEntry /\ SessionAlone /\ TidyEntries

(* What is stored is an entry, and no entry of a connection is a phantom or *)
(* no entry at all.                                                         *)
LEMMA EntryKinds ==
    ASSUME NEW ip \in IPs, NEW pid \in Pids \cup {-1}
    PROVE  /\ [ip |-> ip, pid |-> SetPid(pid)] \in Entry
           /\ SetPid(pid) \in Int /\ SetPid(pid) >= -1
           /\ (pid >= -1 => SetPid(pid) = pid) /\ (pid < 0 => SetPid(pid) = -1)
           /\ [ip |-> ip, pid |-> SetPid(pid)] \notin {NoEntry, Phantom}
           /\ Phantom # NoEntry
  <1>1. pid \in Int /\ ip # None
    BY UAgentSessionAssumption
  <1>2. SetPid(pid) \in {SetPid(p) : p \in Pids} \cup {-1}
    BY <1>1 DEF SetPid
  <1>3. -1 # None
    BY UAgentSessionAssumption
  <1> QED
    BY <1>1, <1>2, <1>3 DEF Entry, SetPid, NoEntry, Phantom

(* Initially there is no session and no entry. *)
LEMMA InitIInv == Init => IInv
  <1> SUFFICES ASSUME Init PROVE IInv
    OBVIOUS
  <1>1. TypeOK
    BY UAgentSessionAssumption DEF Init, TypeOK, CStrings, Addr, NoEntry
  <1>2. SessionEntry /\ SessionAlone /\ TidyEntries
    BY DEF Init, SessionEntry, SessionAlone, TidyEntries
  <1> QED
    BY <1>1, <1>2 DEF IInv

(* A registration that follows the client's fields keeps the invariant, and *)
(* is refused in a tidy run only if a session is open.                      *)
LEMMA ConnectStep ==
    ASSUME IInv, NEW n \in Names, NEW ip \in IPs, NEW pid \in Pids \cup {-1},
           NEW byPid \in BOOLEAN, NEW code \in -7 .. 0,
           RegisterProc(n, ip, pid, code), Connected(n, ip, pid, byPid, code),
           client'.name = n, client'.ip = ip,
           byPid => client'.pid = pid, byPid \/ pid = -1
    PROVE  /\ SessionEntry' /\ SessionAlone' /\ TidyEntries'
           /\ m_NameAddrMap' \in [CStrings -> Entry \cup {NoEntry}]
           /\ session' \in Session \cup {NoSession} /\ tidy' \in BOOLEAN
           /\ tidy' => code # REGISTER_INUSE_FAIL
  <1> DEFINE e == [ip |-> ip, pid |-> SetPid(pid)]
             opened == [name |-> n, ip |-> ip, pid |-> pid, byPid |-> byPid]
  <1>0. TypeOK /\ n \in CStrings /\ pid \in Int /\ n # None
    BY UAgentSessionAssumption DEF IInv, CStrings
  <1>1. opened \in Session /\ opened # NoSession
    BY <1>0 DEF Session, NoSession
  <1>2. m_NameAddrMap \in [CStrings -> Entry \cup {NoEntry}] /\ tidy \in BOOLEAN
    BY <1>0 DEF TypeOK
  <1>3. e \in Entry /\ e \notin {NoEntry, Phantom} /\ (pid >= -1 => SetPid(pid) = pid)
    BY EntryKinds
  <1>4. tidy' = (tidy /\ session = NoSession)
    BY DEF Connected
  <1>5. tidy' => \A m \in CStrings : m_NameAddrMap[m] = NoEntry
    BY <1>4 DEF IInv, TidyEntries
  <1>6. CASE InMap(n) \/ AddrAlreadyInUse(ip, pid)
    <2>1. code = REGISTER_INUSE_FAIL /\ m_NameAddrMap' = m_NameAddrMap
      BY <1>6 DEF RegisterProc
    <2>2. session' = NoSession
      BY <2>1 DEF Connected, REGISTER_INUSE_FAIL, TESTCASE_SUCCESS, ECMD_CTRL_RSP_TIMEOUT_ERROR
    <2>3. ~tidy'
      <3>1. SUFFICES ASSUME tidy', AddrAlreadyInUse(ip, pid) PROVE FALSE
        BY <1>0, <1>5, <1>6 DEF InMap
      <3>2. PICK m \in CStrings : m_NameAddrMap[m] = [ip |-> ip, pid |-> pid]
        BY <3>1 DEF AddrAlreadyInUse
      <3> QED
        BY <1>5, <3>1, <3>2, UAgentSessionAssumption DEF NoEntry
    <2> QED
      BY <1>2, <1>4, <2>1, <2>2, <2>3 DEF SessionEntry, SessionAlone, TidyEntries
  <1>7. CASE ~(InMap(n) \/ AddrAlreadyInUse(ip, pid)) /\ code = REGISTER_CONNECT_FAIL
    <2>1. m_NameAddrMap' = m_NameAddrMap /\ session' = NoSession
      BY <1>7 DEF RegisterProc, Connected, REGISTER_CONNECT_FAIL, TESTCASE_SUCCESS,
                  ECMD_CTRL_RSP_TIMEOUT_ERROR
    <2>2. code # REGISTER_INUSE_FAIL
      BY <1>7 DEF REGISTER_CONNECT_FAIL, REGISTER_INUSE_FAIL
    <2> QED
      BY <1>2, <1>4, <1>5, <2>1, <2>2 DEF SessionEntry, SessionAlone, TidyEntries
  <1>8. CASE ~(InMap(n) \/ AddrAlreadyInUse(ip, pid)) /\ code # REGISTER_CONNECT_FAIL
    <2>1. /\ m_NameAddrMap' = [m_NameAddrMap EXCEPT ![n] = e]
          /\ code \in {TESTCASE_SUCCESS, ECMD_CTRL_RSP_TIMEOUT_ERROR}
      BY <1>8 DEF RegisterProc
    <2>2. session' = opened /\ code # REGISTER_INUSE_FAIL
      BY <2>1 DEF Connected, REGISTER_INUSE_FAIL, TESTCASE_SUCCESS, ECMD_CTRL_RSP_TIMEOUT_ERROR
    <2>3. SessionEntry'
      BY <1>0, <1>2, <2>1, <2>2 DEF SessionEntry
    <2>4. SessionAlone'
      <3>1. \A m \in CStrings : m_NameAddrMap[m] # [ip |-> ip, pid |-> pid]
        BY <1>8 DEF AddrAlreadyInUse
      <3> QED
        BY <1>2, <2>1, <2>2, <3>1 DEF SessionAlone
    <2>5. TidyEntries'
      BY <1>1, <1>2, <1>5, <2>1, <2>2 DEF TidyEntries
    <2> QED
      BY <1>0, <1>1, <1>2, <1>3, <1>4, <2>1, <2>2, <2>3, <2>4, <2>5
  <1> QED
    BY <1>6, <1>7, <1>8

(* Both connect keywords. *)
LEMMA ConnectIInv ==
    ASSUME IInv, NEW n \in Names, NEW ip \in IPs,
           connect(n, ip) \/ \E pid \in Pids : connect_by_pid(n, ip, pid)
    PROVE  IInv' /\ TidySuitesAreNotRefused' /\ last'.op = "connect"
  <1>0. TypeOK
    BY DEF IInv
  <1>1. CASE connect(n, ip)
    <2>1. PICK code \in -7 .. 0 :
              /\ RegisterProc(n, ip, -1, code)
              /\ Report("connect", code, code = TESTCASE_SUCCESS, [ip |-> ip, pid |-> -1])
              /\ Connected(n, ip, -1, FALSE, code)
      BY <1>1 DEF connect
    <2>2. client' = [client EXCEPT !.name = n, !.ip = ip] /\ keywords' \in 0 .. MaxKeywords
      BY <1>0, <1>1, UAgentSessionAssumption DEF connect, Keyword, TypeOK
    <2>3. /\ client'.name = n /\ client'.ip = ip
          /\ client' \in [name : CStrings, ip : IPs \cup {None}, pid : Pids \cup {None}]
      BY <1>0, <2>2 DEF TypeOK, CStrings
    <2>4. /\ SessionEntry' /\ SessionAlone' /\ TidyEntries'
          /\ m_NameAddrMap' \in [CStrings -> Entry \cup {NoEntry}]
          /\ session' \in Session \cup {NoSession} /\ tidy' \in BOOLEAN
          /\ tidy' => code # REGISTER_INUSE_FAIL
      BY <2>1, <2>3, ConnectStep
    <2>5. /\ last' = [op |-> "connect", code |-> code, passed |-> (code = TESTCASE_SUCCESS),
                      to |-> [ip |-> ip, pid |-> -1]]
          /\ [ip |-> ip, pid |-> -1] \in Addr
      BY <2>1 DEF Report, Addr
    <2> QED
      BY <2>2, <2>3, <2>4, <2>5 DEF IInv, TypeOK, TidySuitesAreNotRefused
  <1>2. ASSUME NEW pid \in Pids, connect_by_pid(n, ip, pid)
        PROVE  IInv' /\ TidySuitesAreNotRefused' /\ last'.op = "connect"
    <2>1. PICK code \in -7 .. 0 :
              /\ RegisterProc(n, ip, pid, code)
              /\ Report("connect", code, UsePidPasses(code), [ip |-> ip, pid |-> pid])
              /\ Connected(n, ip, pid, TRUE, code)
      BY <1>2 DEF connect_by_pid
    <2>2. client' = [name |-> n, ip |-> ip, pid |-> pid] /\ keywords' \in 0 .. MaxKeywords
      BY <1>0, <1>2, UAgentSessionAssumption DEF connect_by_pid, Keyword, TypeOK
    <2>3. /\ client'.name = n /\ client'.ip = ip /\ client'.pid = pid
          /\ client' \in [name : CStrings, ip : IPs \cup {None}, pid : Pids \cup {None}]
      BY <2>2 DEF CStrings
    <2>4. /\ SessionEntry' /\ SessionAlone' /\ TidyEntries'
          /\ m_NameAddrMap' \in [CStrings -> Entry \cup {NoEntry}]
          /\ session' \in Session \cup {NoSession} /\ tidy' \in BOOLEAN
          /\ tidy' => code # REGISTER_INUSE_FAIL
      BY <2>1, <2>3, ConnectStep
    <2>5. /\ last' = [op |-> "connect", code |-> code, passed |-> UsePidPasses(code),
                      to |-> [ip |-> ip, pid |-> pid]]
          /\ [ip |-> ip, pid |-> pid] \in Addr
      BY <2>1, UAgentSessionAssumption DEF Report, Addr
    <2> QED
      BY <2>2, <2>3, <2>4, <2>5 DEF IInv, TypeOK, TidySuitesAreNotRefused, UsePidPasses
  <1> QED
    BY <1>1, <1>2

(* A command makes an entry only for a name that is not the session's.      *)
LEMMA ExecuteIInv ==
    ASSUME IInv, NEW expected, Execute(expected)
    PROVE  IInv' /\ CommandGoesToItsSession' /\ last'.op = "execute"
  <1> DEFINE n == Addressed(client.name)
  <1>0. /\ TypeOK /\ UNCHANGED <<client, session>> /\ n \in CStrings
        /\ keywords' \in 0 .. MaxKeywords
    BY UAgentSessionAssumption
    DEF IInv, TypeOK, Execute, Addressed, CStrings, Keyword
  <1>1. PICK code \in ExecuteErrors \cup {TESTCASE_SUCCESS} :
            last' = [op |-> "execute", code |-> code, passed |-> (code \in expected),
                     to |-> m_NameAddrMap[n]]
    BY DEF Execute, Report
  <1>2. /\ \/ m_NameAddrMap' = m_NameAddrMap
           \/ ~InMap(n) /\ m_NameAddrMap' = [m_NameAddrMap EXCEPT ![n] = Phantom]
        /\ tidy' = (tidy /\ session # NoSession /\ n = client.name)
    BY DEF Execute
  <1>3. /\ m_NameAddrMap \in [CStrings -> Entry \cup {NoEntry}]
        /\ session \in Session \cup {NoSession} /\ tidy \in BOOLEAN
    BY <1>0 DEF TypeOK
  <1>4. TypeOK'
    <2>1. Phantom \in Entry
      BY DEF Entry
    <2>2. m_NameAddrMap' \in [CStrings -> Entry \cup {NoEntry}]
      BY <1>0, <1>2, <1>3, <2>1
    <2>3. m_NameAddrMap[n] \in Addr
      <3>1. Phantom \in Addr /\ NoEntry \in Addr
        BY DEF Addr, Phantom, NoEntry
      <3>2. \A p \in Pids : SetPid(p) \in Int
        BY UAgentSessionAssumption DEF SetPid
      <3>3. Entry \cup {NoEntry} \subseteq Addr
        BY <3>1, <3>2 DEF Addr, Entry
      <3> QED
        BY <1>0, <1>3, <3>3
    <2>4. last' \in [op : {"none", "connect", "execute", "disconnect"}, code : -9 .. 0,
                     passed : BOOLEAN, to : Addr]
      BY <1>1, <2>3 DEF ExecuteErrors, Rejections, EXECUTECMD_PARA_TOOMANY, TESTCASE_FAIL, ECMD_RSP1_TIMEOUT_ERROR,
                        ECMD_RSP2_TIMEOUT_ERROR, TESTCASE_SUCCESS
    <2> QED
      BY <1>0, <1>2, <1>3, <2>2, <2>4 DEF TypeOK
  <1>5. CASE session = NoSession
    <2>1. session' = NoSession /\ ~tidy'
      BY <1>0, <1>2, <1>3, <1>5
    <2>2. SessionEntry' /\ SessionAlone' /\ TidyEntries' /\ CommandGoesToItsSession'
      BY <2>1 DEF SessionEntry, SessionAlone, TidyEntries, CommandGoesToItsSession
    <2> QED
      BY <1>1, <1>4, <2>2 DEF IInv
  <1>6. CASE session # NoSession
    <2> DEFINE e == [ip |-> session.ip, pid |-> SetPid(session.pid)]
    <2>1. /\ session.ip \in IPs /\ session.pid \in Pids \cup {-1} /\ session.name \in CStrings
      BY <1>3, <1>6 DEF Session, CStrings
    <2>2. e # NoEntry /\ e # Phantom
      BY <2>1, EntryKinds
    <2>3. m_NameAddrMap[session.name] = e /\ client.name = session.name
      BY <1>6 DEF IInv, SessionEntry
    <2>4. m_NameAddrMap'[session.name] = e
      BY <1>2, <1>3, <2>1, <2>2, <2>3 DEF InMap
    <2>5. SessionEntry'
      BY <1>0, <1>6, <2>4 DEF IInv, SessionEntry
    <2>6. SessionAlone'
      <3>1. Phantom # [ip |-> session.ip, pid |-> session.pid]
        BY <2>1, UAgentSessionAssumption DEF Phantom
      <3> QED
        BY <1>0, <1>2, <1>3, <1>6, <3>1 DEF IInv, SessionAlone
    <2>7. TidyEntries'
      BY <1>0, <1>2, <1>3, <2>2, <2>3 DEF IInv, TidyEntries, InMap
    <2>8. CommandGoesToItsSession'
      BY <1>0, <1>1, <2>3 DEF CommandGoesToItsSession, Addressed
    <2> QED
      BY <1>1, <1>4, <2>5, <2>6, <2>7, <2>8 DEF IInv
  <1> QED
    BY <1>1, <1>4, <1>5, <1>6 DEF IInv

(* A disconnect erases the entry of the client's name, if any.              *)
LEMMA DisconnectIInv ==
    ASSUME IInv, NEW pid \in Int, NEW ends \in BOOLEAN, Disconnect(pid, ends),
           session # NoSession /\ ends => pid = SetPid(session.pid)
    PROVE  IInv' /\ last'.op = "disconnect" /\ EndedSessionStep
  <1>0. /\ TypeOK /\ UNCHANGED <<client, tidy>> /\ client.name \in CStrings
        /\ client.ip \in IPs \cup {None} /\ keywords' \in 0 .. MaxKeywords
    BY UAgentSessionAssumption DEF IInv, TypeOK, Disconnect, Keyword
  <1>1. PICK code \in {TESTCASE_SUCCESS, TESTCASE_FAIL} :
            /\ UnRegisterProc(client.name, client.ip, pid, code)
            /\ last' = [op |-> "disconnect", code |-> code, passed |-> TRUE,
                        to |-> [ip |-> client.ip, pid |-> pid]]
    BY DEF Disconnect, Report
  <1>2. session' = IF session # NoSession /\ (ends \/ m_NameAddrMap'[session.name] = NoEntry)
                   THEN NoSession ELSE session
    BY DEF Disconnect
  <1>3. /\ m_NameAddrMap \in [CStrings -> Entry \cup {NoEntry}]
        /\ session \in Session \cup {NoSession}
    BY <1>0 DEF TypeOK
  <1>4. \/ m_NameAddrMap' = m_NameAddrMap
        \/ m_NameAddrMap' = [m_NameAddrMap EXCEPT ![client.name] = NoEntry]
    BY <1>1 DEF UnRegisterProc
  <1>5. TypeOK'
    <2>1. m_NameAddrMap' \in [CStrings -> Entry \cup {NoEntry}]
      BY <1>0, <1>3, <1>4
    <2>2. last' \in [op : {"none", "connect", "execute", "disconnect"}, code : -9 .. 0,
                     passed : BOOLEAN, to : Addr]
      BY <1>0, <1>1 DEF Addr, TESTCASE_SUCCESS, TESTCASE_FAIL
    <2> QED
      BY <1>0, <1>2, <1>3, <2>1, <2>2 DEF TypeOK
  <1>6. CASE session = NoSession
    <2>1. session' = NoSession
      BY <1>2, <1>6
    <2>2. SessionEntry' /\ SessionAlone'
      BY <2>1 DEF SessionEntry, SessionAlone
    <2>3. TidyEntries'
      BY <1>0, <1>3, <1>4, <1>6, <2>1 DEF IInv, TidyEntries
    <2> QED
      BY <1>1, <1>5, <1>6, <2>2, <2>3 DEF IInv, EndedSessionStep
  <1>7. CASE session # NoSession
    <2> DEFINE e == [ip |-> session.ip, pid |-> SetPid(session.pid)]
    <2>1. /\ session.ip \in IPs /\ session.pid \in Pids \cup {-1} /\ session.name \in CStrings
      BY <1>3, <1>7 DEF Session, CStrings
    <2>2. e # NoEntry /\ e # Phantom
      BY <2>1, EntryKinds
    <2>3. m_NameAddrMap[session.name] = e /\ client.name = session.name /\ client.ip = session.ip
      BY <1>7 DEF IInv, SessionEntry
    <2>4. ends => code = TESTCASE_SUCCESS /\ m_NameAddrMap'[session.name] = NoEntry
      BY <1>0, <1>1, <1>3, <1>7, <2>2, <2>3 DEF UnRegisterProc, IsReal, InMap
    <2>5. CASE session' = NoSession
      <3>1. m_NameAddrMap'[session.name] = NoEntry
        BY <1>2, <1>7, <2>4, <2>5
      <3>2. SessionEntry' /\ SessionAlone'
        BY <2>5 DEF SessionEntry, SessionAlone
      <3>3. TidyEntries'
        BY <1>0, <1>3, <1>4, <1>7, <2>3, <2>5, <3>1 DEF IInv, TidyEntries
      <3>4. code = TESTCASE_SUCCESS
        BY <1>1, <2>2, <2>3, <3>1 DEF UnRegisterProc, IsReal, InMap
      <3>5. \A n \in CStrings : session.pid >= -1
                => m_NameAddrMap'[n] # [ip |-> session.ip, pid |-> session.pid]
        <4> SUFFICES ASSUME NEW n \in CStrings, session.pid >= -1
                     PROVE  m_NameAddrMap'[n] # [ip |-> session.ip, pid |-> session.pid]
          OBVIOUS
        <4>1. NoEntry # [ip |-> session.ip, pid |-> session.pid]
          BY <2>1, UAgentSessionAssumption DEF NoEntry
        <4>2. n # session.name => m_NameAddrMap'[n] = m_NameAddrMap[n]
          BY <1>0, <1>3, <1>4, <2>3
        <4> QED
          BY <1>7, <3>1, <4>1, <4>2 DEF IInv, SessionAlone
      <3> QED
        BY <1>1, <1>5, <3>1, <3>2, <3>3, <3>4, <3>5 DEF IInv, EndedSessionStep
    <2>6. CASE session' # NoSession
      <3>1. session' = session /\ m_NameAddrMap' = m_NameAddrMap
        BY <1>0, <1>2, <1>3, <1>4, <1>7, <2>1, <2>3, <2>6
      <3>2. SessionEntry' /\ SessionAlone' /\ TidyEntries'
        BY <1>0, <3>1 DEF IInv, SessionEntry, SessionAlone, TidyEntries
      <3> QED
        BY <1>1, <1>5, <2>6, <3>2 DEF IInv, EndedSessionStep
    <2> QED
      BY <2>5, <2>6
  <1> QED
    BY <1>6, <1>7

(* The two disconnect keywords. *)
LEMMA DisconnectsIInv ==
    ASSUME IInv, disconnect \/ disconnect_by_pid
    PROVE  IInv' /\ last'.op = "disconnect" /\ EndedSessionStep
  <1>1. client.pid \in Pids \cup {None}
    BY DEF IInv, TypeOK
  <1>2. session # NoSession => session.pid \in Int
    <2>1. session # NoSession => session.pid \in Pids \cup {-1}
      BY DEF IInv, TypeOK, Session
    <2>2. \A p \in Pids \cup {-1} : p \in Int
      BY UAgentSessionAssumption
    <2> QED
      BY <2>1, <2>2
  <1>3. PICK pid \in Int : pid = IF client.pid = None THEN 0 ELSE client.pid
    <2>1. CASE client.pid = None
      BY <2>1
    <2>2. CASE client.pid # None
      BY <1>1, <2>2, UAgentSessionAssumption
    <2> QED
      BY <2>1, <2>2
  <1>4. CASE disconnect
    <2>1. CASE session # NoSession /\ session.pid < 0
      <3>1. Disconnect(-1, TRUE)
        BY <1>4, <2>1 DEF disconnect, Disconnect
      <3>2. -1 = SetPid(session.pid)
        BY <2>1 DEF SetPid
      <3>3. -1 \in Int /\ TRUE \in BOOLEAN
        OBVIOUS
      <3> QED
        BY ONLY IInv, <2>1, <3>1, <3>2, <3>3, DisconnectIInv
    <2>2. CASE ~(session # NoSession /\ session.pid < 0)
      <3>1. Disconnect(-1, FALSE)
        BY <1>4, <2>2 DEF disconnect, Disconnect
      <3>2. -1 \in Int /\ FALSE \in BOOLEAN
        OBVIOUS
      <3> QED
        BY ONLY IInv, <3>1, <3>2, DisconnectIInv
    <2> QED
      BY <2>1, <2>2
  <1>5. CASE disconnect_by_pid
    <2>1. CASE session # NoSession /\ session.byPid /\ session.pid >= -1
      <3>1. Disconnect(pid, TRUE)
        BY <1>3, <1>5, <2>1 DEF disconnect_by_pid, Disconnect
      <3>2. client.pid = session.pid /\ session.pid \in Int
        <4>1. client.pid = session.pid
          BY <2>1 DEF IInv, SessionEntry
        <4> QED
          BY <1>2, <2>1, <4>1
      <3>3. pid = SetPid(session.pid)
        BY <1>3, <2>1, <3>2, UAgentSessionAssumption DEF SetPid
      <3> QED
        BY <3>1, <3>3, DisconnectIInv
    <2>2. CASE ~(session # NoSession /\ session.byPid /\ session.pid >= -1)
      <3>1. Disconnect(pid, FALSE)
        BY <1>3, <1>5, <2>2 DEF disconnect_by_pid, Disconnect
      <3> QED
        BY <3>1, DisconnectIInv
    <2> QED
      BY <2>1, <2>2
  <1> QED
    BY <1>4, <1>5

(* Every step keeps the invariant and has the three properties.             *)
LEMMA NextIInv ==
    ASSUME IInv, TidySuitesAreNotRefused, CommandGoesToItsSession, [Next]_vars
    PROVE  /\ IInv' /\ TidySuitesAreNotRefused' /\ CommandGoesToItsSession'
           /\ [EndedSessionStep]_vars
  <1>1. CASE UNCHANGED vars
    BY <1>1 DEF vars, IInv, TypeOK, SessionEntry, SessionAlone, TidyEntries,
                TidySuitesAreNotRefused, CommandGoesToItsSession
  <1>2. ASSUME NEW n \in Names, NEW ip \in IPs,
               connect(n, ip) \/ \E pid \in Pids : connect_by_pid(n, ip, pid)
        PROVE  /\ IInv' /\ TidySuitesAreNotRefused' /\ CommandGoesToItsSession'
               /\ EndedSessionStep
    <2>1. IInv' /\ TidySuitesAreNotRefused' /\ last'.op = "connect"
      BY <1>2, ConnectIInv
    <2> QED
      BY <2>1 DEF CommandGoesToItsSession, EndedSessionStep
  <1>3. CASE execute_command \/ execute_command_with_disconnect_after_command
    <2>1. IInv' /\ CommandGoesToItsSession' /\ last'.op = "execute"
      BY <1>3, ExecuteIInv DEF execute_command, execute_command_with_disconnect_after_command
    <2> QED
      BY <2>1 DEF TidySuitesAreNotRefused, EndedSessionStep
  <1>4. CASE disconnect \/ disconnect_by_pid
    <2>1. IInv' /\ last'.op = "disconnect" /\ EndedSessionStep
      BY <1>4, DisconnectsIInv
    <2> QED
      BY <2>1 DEF TidySuitesAreNotRefused, CommandGoesToItsSession
  <1> QED
    BY <1>1, <1>2, <1>3, <1>4 DEF Next

(* In every run the invariant holds: the object's fields and the table are  *)
(* in range, and the open session is the one of the client's fields.        *)
THEOREM SessionInvariant ==
    Spec => [](IInv /\ TidySuitesAreNotRefused /\ CommandGoesToItsSession)
  <1>1. Init => IInv /\ TidySuitesAreNotRefused /\ CommandGoesToItsSession
    BY InitIInv DEF Init, TidySuitesAreNotRefused, CommandGoesToItsSession
  <1>2. IInv /\ TidySuitesAreNotRefused /\ CommandGoesToItsSession /\ [Next]_vars
            => (IInv /\ TidySuitesAreNotRefused /\ CommandGoesToItsSession)'
    BY NextIInv
  <1> QED
    BY <1>1, <1>2, PTL DEF Spec

(* Suites that end each session before the next, and send commands only in  *)
(* one, are never told that a name or address is in use.                    *)
THEOREM TidySuites == Spec => []TidySuitesAreNotRefused
  BY SessionInvariant, PTL

(* In a session a command goes to the board that its connect named.         *)
THEOREM CommandReachesItsSession == Spec => []CommandGoesToItsSession
  BY SessionInvariant, PTL

(* The disconnect of the connect that opened a session frees its name and   *)
(* its address.                                                             *)
THEOREM EndedSessions == Spec => EndedSessionIsReleased
  <1>1. /\ IInv /\ TidySuitesAreNotRefused /\ CommandGoesToItsSession /\ [Next]_vars
        => [EndedSessionStep]_vars
    BY NextIInv
  <1> QED
    BY <1>1, SessionInvariant, PTL DEF Spec, EndedSessionIsReleased
-----------------------------------------------------------------------------
(* The console client *)

(* begin_session works at a connection that is not closed, and its console  *)
(* worker is the last one as soon as it has returned.                       *)
Beginning ==
    /\ main = "beginAlive" => workers # <<>> /\ connections[workers[Len(workers)].conn] # "closed"
    /\ main \in {"beginAlive", "beginConsole"} => began = "raised"
    /\ began = "ok" => console = Len(workers)

(* stop_session has joined the workers before the one it is at. *)
Stopping ==
    /\ main \in {"setStop", "join"} => /\ k \in DOMAIN workers
                                       /\ \A i \in 1 .. k - 1 : thread[i] = "ended"
    /\ main = "close" => \A i \in DOMAIN workers : thread[i] = "ended"
    /\ stopped => main = "idle"
    /\ main # "idle" => command = "none"

TpfIInv ==
    /\ TpfTypeOK /\ Beginning /\ Stopping
    /\ StopLeavesNothing /\ NoUseAfterClose
    /\ CommandGoesToTheSession

(* A function on the places of a sequence is a sequence, and what Append    *)
(* makes of it.                                                             *)
LEMMA Appended ==
    ASSUME NEW n \in Nat, NEW S, NEW s \in [1 .. n -> S], NEW x \in S, NEW t, t = Append(s, x)
    PROVE  t \in [1 .. n + 1 -> S] /\ t[n + 1] = x /\ \A i \in 1 .. n : t[i] = s[i]
  <1>1. s \in Seq(S)
    BY SeqDef
  <1>2. Len(s) = n
    BY <1>1, LenProperties
  <1>3. t \in Seq(S) /\ Len(t) = n + 1 /\ t[n + 1] = x /\ \A i \in 1 .. n : t[i] = s[i]
    BY <1>1, <1>2, AppendProperties
  <1>4. t \in [1 .. n + 1 -> S]
    BY <1>3, LenProperties
  <1> QED
    BY <1>3, <1>4

(* A worker that is started is the last, checks its flag first, and leaves  *)
(* the others as they were.                                                 *)
LEMMA Started ==
    ASSUME TpfTypeOK, NEW type \in Types, NEW conn \in DOMAIN connections',
           connections' \in Seq(ConnStates), Len(connections) <= Len(connections'),
           start_worker(type, conn)
    PROVE  /\ workers' \in Seq([type : Types, conn : Nat])
           /\ DOMAIN workers' = 1 .. Len(workers) + 1 /\ Len(workers') = Len(workers) + 1
           /\ \A i \in DOMAIN workers' : workers'[i].conn \in DOMAIN connections'
           /\ thread' \in [DOMAIN workers' -> ThreadStates]
           /\ isStop' \in [DOMAIN workers' -> BOOLEAN]
           /\ LET new == Len(workers) + 1
              IN  workers'[new].conn = conn /\ thread'[new] = "check"
           /\ \A i \in DOMAIN workers : /\ i \in DOMAIN workers' /\ workers'[i] = workers[i]
                                        /\ thread'[i] = thread[i]
  <1> DEFINE n == Len(workers)
  <1>1. n \in Nat /\ DOMAIN workers = 1 .. n /\ workers \in Seq([type : Types, conn : Nat])
    BY LenProperties DEF TpfTypeOK
  <1>2. conn \in Nat /\ DOMAIN connections' = 1 .. Len(connections')
    BY LenProperties
  <1>3. DOMAIN connections \subseteq DOMAIN connections'
    BY LenProperties DEF TpfTypeOK
  <1>4. /\ workers' \in Seq([type : Types, conn : Nat]) /\ Len(workers') = n + 1
        /\ DOMAIN workers' = 1 .. n + 1
        /\ workers'[n + 1] = [type |-> type, conn |-> conn]
        /\ \A i \in 1 .. n : workers'[i] = workers[i]
    BY <1>1, <1>2, AppendProperties DEF start_worker
  <1>5. /\ thread' \in [1 .. n + 1 -> ThreadStates]
        /\ thread'[n + 1] = "check"
        /\ \A i \in 1 .. n : thread'[i] = thread[i]
    <2>1. thread \in [1 .. n -> ThreadStates] /\ "check" \in ThreadStates
      BY <1>1 DEF TpfTypeOK, ThreadStates
    <2>2. thread' = Append(thread, "check")
      BY DEF start_worker
    <2>3. thread' \in [1 .. n + 1 -> ThreadStates]
      BY <1>1, <2>1, <2>2, Appended
    <2>4. \A i \in 1 .. n : thread'[i] = thread[i]
      BY <1>1, <2>1, <2>2, Appended
    <2>5. thread'[n + 1] = "check"
      BY <1>1, <2>1, <2>2, Appended
    <2> QED
      BY <2>3, <2>4, <2>5
  <1>6. isStop' \in [1 .. n + 1 -> BOOLEAN]
    <2>1. isStop \in [1 .. n -> BOOLEAN] /\ FALSE \in BOOLEAN
      BY <1>1 DEF TpfTypeOK
    <2> QED
      BY <1>1, <2>1, Appended DEF start_worker
  <1>8. \A i \in 1 .. n : workers[i].conn \in DOMAIN connections
    BY <1>1 DEF TpfTypeOK
  <1>9. \A i \in 1 .. n + 1 : workers'[i].conn \in DOMAIN connections'
    <2> SUFFICES ASSUME NEW i \in 1 .. n + 1 PROVE workers'[i].conn \in DOMAIN connections'
      OBVIOUS
    <2>1. CASE i = n + 1
      BY <1>4, <2>1
    <2>2. CASE i # n + 1
      <3>1. i \in 1 .. n
        BY <1>1, <2>2
      <3> QED
        BY <1>3, <1>4, <1>8, <3>1
    <2> QED
      BY <2>1, <2>2
  <1> QED
    BY <1>1, <1>4, <1>5, <1>6, <1>9

(* A worker started at a connection that is not closed uses no closed one.  *)
LEMMA StartKeeps ==
    ASSUME TpfIInv, NEW type \in Types, NEW conn \in DOMAIN connections',
           connections' \in Seq(ConnStates), Len(connections) <= Len(connections'),
           \A c \in DOMAIN connections : connections'[c] = connections[c],
           connections'[conn] # "closed", start_worker(type, conn)
    PROVE  NoUseAfterClose'
  <1> DEFINE new == Len(workers) + 1
  <1>1. /\ DOMAIN workers' = 1 .. new /\ workers'[new].conn = conn /\ thread'[new] = "check"
        /\ \A i \in DOMAIN workers : /\ workers'[i] = workers[i]
                                     /\ thread'[i] = thread[i]
    BY Started DEF TpfIInv
  <1>2. \A i \in 1 .. new : i = new \/ i \in DOMAIN workers
    BY LenProperties DEF TpfIInv, TpfTypeOK
  <1>3. \A i \in DOMAIN workers : connections'[workers[i].conn] = connections[workers[i].conn]
    BY DEF TpfIInv, TpfTypeOK
  <1> HIDE DEF new
  <1>4. NoUseAfterClose'
    BY <1>1, <1>2, <1>3 DEF TpfIInv, NoUseAfterClose
  <1> QED
    BY <1>4

(* A worker with a connection of its own. *)
LEMMA StartedWithConnection ==
    ASSUME TpfIInv, NEW type \in Types, start_connection_worker(type)
    PROVE  /\ connections' \in Seq(ConnStates)
           /\ Len(connections) + 1 \in DOMAIN connections'
           /\ connections'[Len(connections) + 1] = "open"
           /\ Len(connections) <= Len(connections')
           /\ \A c \in DOMAIN connections : connections'[c] = connections[c]
           /\ start_worker(type, Len(connections) + 1)
           /\ NoUseAfterClose'
  <1> DEFINE new == Len(connections) + 1
  <1>1. connections \in Seq(ConnStates) /\ "open" \in ConnStates
    BY DEF TpfIInv, TpfTypeOK, ConnStates
  <1>2. connections' = Append(connections, "open") /\ start_worker(type, new)
    BY DEF start_connection_worker
  <1>3. /\ connections' \in Seq(ConnStates) /\ Len(connections') = new
        /\ connections'[new] = "open"
    BY <1>1, <1>2, AppendProperties
  <1>4. \A c \in DOMAIN connections : connections'[c] = connections[c]
    BY <1>1, <1>2, AppendProperties
  <1>5. new \in DOMAIN connections' /\ Len(connections) <= Len(connections')
    BY <1>1, <1>3, LenProperties
  <1> HIDE DEF new
  <1>6. NoUseAfterClose'
    BY <1>2, <1>3, <1>4, <1>5, StartKeeps
  <1> QED
    BY <1>2, <1>3, <1>4, <1>5, <1>6 DEF new

(* begin_session *)
LEMMA TpfBegins ==
    ASSUME TpfIInv, BeginControl \/ BeginAlive \/ BeginConsole
    PROVE  TpfIInv'
  <1>1. CASE BeginControl
    <2>0. /\ main = "idle" /\ calls' \in 0 .. MaxCalls /\ stopped' = FALSE /\ command' = "none" /\ began' = "raised"
          /\ k' = k /\ console' = console /\ faults' = faults
      BY <1>1, TpfClientAssumption DEF BeginControl, Call, TpfIInv, TpfTypeOK
    <2>1. CASE UNCHANGED <<main, threads, connections>>
      <3>1. TpfTypeOK'
        BY <2>0, <2>1 DEF TpfIInv, TpfTypeOK, threads
      <3>2. Beginning' /\ Stopping'
        BY <2>0, <2>1 DEF TpfIInv, Beginning, Stopping, threads
      <3> QED
        BY <2>0, <2>1, <3>1, <3>2
           DEF TpfIInv, threads, StopLeavesNothing, NoUseAfterClose,
               CommandGoesToTheSession
    <2>2. CASE start_connection_worker("control") /\ main' = "beginAlive"
      <3>1. "control" \in Types
        BY DEF Types
      <3> DEFINE conn == Len(connections) + 1
      <3>2. /\ connections' \in Seq(ConnStates) /\ conn \in DOMAIN connections'
            /\ connections'[conn] = "open" /\ Len(connections) <= Len(connections')
            /\ start_worker("control", conn)
            /\ NoUseAfterClose'
        BY <2>2, <3>1, StartedWithConnection
      <3> HIDE DEF conn
      <3>3. /\ workers' \in Seq([type : Types, conn : Nat]) /\ Len(workers') = Len(workers) + 1
            /\ workers'[Len(workers')].conn = conn
            /\ \A i \in DOMAIN workers' : workers'[i].conn \in DOMAIN connections'
            /\ thread' \in [DOMAIN workers' -> ThreadStates]
            /\ isStop' \in [DOMAIN workers' -> BOOLEAN]
        BY <3>1, <3>2, Started DEF TpfIInv
      <3>4. Len(workers) \in Nat /\ workers' # <<>> /\ console' \in 0 .. Len(workers')
        BY <2>0, <3>3, LenProperties DEF TpfIInv, TpfTypeOK
      <3>5. TpfTypeOK'
        BY <2>0, <2>2, <3>2, <3>3, <3>4 DEF TpfIInv, TpfTypeOK, MainStates
      <3>6. Beginning' /\ Stopping'
        BY <2>0, <2>2, <3>2, <3>3, <3>4 DEF Beginning, Stopping
      <3> QED
        BY <2>0, <3>2, <3>5, <3>6
           DEF TpfIInv, StopLeavesNothing, CommandGoesToTheSession
    <2> QED
      BY <1>1, <2>1, <2>2 DEF BeginControl
  <1>2. CASE BeginAlive
    <2> DEFINE conn == workers[Len(workers)].conn
    <2>0. /\ main = "beginAlive" /\ main' = "beginConsole" /\ start_worker("alive", conn)
          /\ UNCHANGED <<k, calls, stopped, connections, faults, console, began, command>>
      BY <1>2 DEF BeginAlive, begun
    <2>1. "alive" \in Types /\ connections \in Seq(ConnStates)
      BY DEF Types, TpfIInv, TpfTypeOK
    <2>2. Len(workers) \in DOMAIN workers /\ Len(workers) \in Nat
      BY <2>0, LenProperties, EmptySeq DEF TpfIInv, TpfTypeOK, Beginning
    <2>3. conn \in DOMAIN connections /\ connections[conn] # "closed"
      BY <2>0, <2>2 DEF TpfIInv, TpfTypeOK, Beginning
    <2>4. Len(connections) <= Len(connections')
      BY <2>0, <2>1, LenProperties
    <2> HIDE DEF conn
    <2>5. NoUseAfterClose'
      BY <2>0, <2>1, <2>3, <2>4, StartKeeps
    <2>6. /\ workers' \in Seq([type : Types, conn : Nat]) /\ Len(workers') = Len(workers) + 1
          /\ \A i \in DOMAIN workers' : workers'[i].conn \in DOMAIN connections'
          /\ thread' \in [DOMAIN workers' -> ThreadStates]
          /\ isStop' \in [DOMAIN workers' -> BOOLEAN]
      BY <2>0, <2>1, <2>3, <2>4, Started DEF TpfIInv
    <2>7. TpfTypeOK'
      BY <2>0, <2>2, <2>6 DEF TpfIInv, TpfTypeOK, MainStates
    <2>8. Beginning' /\ Stopping'
      BY <2>0 DEF TpfIInv, Beginning, Stopping
    <2> QED
      BY <2>0, <2>5, <2>7, <2>8
         DEF TpfIInv, Stopping, StopLeavesNothing, CommandGoesToTheSession
  <1>3. CASE BeginConsole
    <2>0. main = "beginConsole" /\ main' = "idle" /\ UNCHANGED <<k, calls, stopped, command, faults>>
          /\ ~stopped /\ command = "none"
      BY <1>3 DEF BeginConsole, TpfIInv, Stopping
    <2>1. CASE UNCHANGED <<threads, connections, console, began>>
      <3>1. TpfTypeOK'
        BY <2>0, <2>1 DEF TpfIInv, TpfTypeOK, MainStates, threads
      <3>2. Beginning' /\ Stopping'
        BY <2>0, <2>1 DEF TpfIInv, Beginning, Stopping, threads
      <3> QED
        BY <2>0, <2>1, <3>1, <3>2
           DEF TpfIInv, threads, StopLeavesNothing, NoUseAfterClose,
               CommandGoesToTheSession
    <2>2. CASE /\ start_connection_worker("console") /\ began' = "ok"
               /\ console' = Len(workers) + 1
      <3>1. "console" \in Types
        BY DEF Types
      <3> DEFINE conn == Len(connections) + 1
      <3>2. /\ connections' \in Seq(ConnStates) /\ conn \in DOMAIN connections'
            /\ Len(connections) <= Len(connections') /\ start_worker("console", conn)
            /\ NoUseAfterClose'
        BY <2>2, <3>1, StartedWithConnection
      <3> HIDE DEF conn
      <3>3. /\ workers' \in Seq([type : Types, conn : Nat]) /\ Len(workers') = Len(workers) + 1
            /\ \A i \in DOMAIN workers' : workers'[i].conn \in DOMAIN connections'
            /\ thread' \in [DOMAIN workers' -> ThreadStates]
            /\ isStop' \in [DOMAIN workers' -> BOOLEAN]
        BY <3>1, <3>2, Started DEF TpfIInv
      <3>4. Len(workers) \in Nat
        BY LenProperties DEF TpfIInv, TpfTypeOK
      <3>5. TpfTypeOK'
        BY <2>0, <2>2, <3>2, <3>3, <3>4 DEF TpfIInv, TpfTypeOK, MainStates
      <3>6. Beginning' /\ Stopping'
        BY <2>0, <2>2, <3>3 DEF Beginning, Stopping
      <3> QED
        BY <2>0, <3>2, <3>5, <3>6
           DEF TpfIInv, StopLeavesNothing, CommandGoesToTheSession
    <2> QED
      BY <1>3, <2>1, <2>2 DEF BeginConsole
  <1> QED
    BY <1>1, <1>2, <1>3

(* The calling thread: a command, and stop_session. *)
LEMMA TpfCalls ==
    ASSUME TpfIInv,
           ExecuteCommand \/ StopSession \/ SetStop \/ Join \/ CloseAll
    PROVE  TpfIInv'
  <1> USE DEF TpfIInv
  <1>0. Len(workers) \in Nat /\ DOMAIN workers = 1 .. Len(workers)
    BY LenProperties DEF TpfTypeOK
  <1>1. CASE ExecuteCommand
    <2>0. /\ main = "idle" /\ console # 0 /\ calls' \in 0 .. MaxCalls
          /\ UNCHANGED <<main, k, stopped, workers, thread, isStop, connections, console, began, faults>>
          /\ \/ connections[workers[console].conn] \in {"open", "eof"} /\ command' = "sent"
             \/ command' = "raised"
      BY <1>1, TpfClientAssumption DEF ExecuteCommand, Call, threads, TpfTypeOK
    <2>1. TpfTypeOK' /\ Beginning' /\ Stopping'
      BY <2>0 DEF TpfTypeOK, Beginning, Stopping
    <2>2. workers[console].conn \in DOMAIN connections
      BY <1>0, <2>0 DEF TpfTypeOK
    <2>3. CommandGoesToTheSession'
      BY <2>0, <2>2 DEF CommandGoesToTheSession, StopLeavesNothing, Beginning
    <2> QED
      BY <2>0, <2>1, <2>3 DEF StopLeavesNothing, NoUseAfterClose
  <1>2. CASE StopSession
    <2>0. /\ calls' \in 0 .. MaxCalls /\ stopped' = FALSE /\ command' = "none"
          /\ k' = 1 /\ main' = (IF workers = <<>> THEN "close" ELSE "setStop")
          /\ UNCHANGED <<workers, thread, isStop, connections, console, began, faults>>
      BY <1>2, TpfClientAssumption DEF StopSession, Call, threads, TpfTypeOK
    <2>1. workers # <<>> => 1 \in DOMAIN workers
      BY <1>0, EmptySeq DEF TpfTypeOK
    <2>2. workers = <<>> => DOMAIN workers = {}
      BY <1>0
    <2>3. TpfTypeOK'
      BY <2>0 DEF TpfTypeOK, MainStates
    <2>4. Beginning' /\ Stopping'
      BY <2>0, <2>1, <2>2 DEF Beginning, Stopping
    <2> QED
      BY <2>0, <2>3, <2>4
         DEF StopLeavesNothing, NoUseAfterClose, CommandGoesToTheSession
  <1>3. CASE SetStop
    <2>0. /\ main = "setStop" /\ main' = "join" /\ isStop' = [isStop EXCEPT ![k] = TRUE]
          /\ UNCHANGED <<k, calls, stopped, workers, thread, connections, faults, console, began, command>>
      BY <1>3 DEF SetStop, begun
    <2>1. TpfTypeOK'
      BY <2>0 DEF TpfTypeOK, MainStates
    <2>2. Beginning' /\ Stopping'
      BY <2>0 DEF Beginning, Stopping
    <2> QED
      BY <2>0, <2>1, <2>2
         DEF StopLeavesNothing, NoUseAfterClose, CommandGoesToTheSession
  <1>4. CASE Join
    <2>0. /\ main = "join" /\ thread[k] = "ended" /\ k' = k + 1
          /\ main' = (IF k = Len(workers) THEN "close" ELSE "setStop")
          /\ UNCHANGED <<calls, stopped, workers, thread, isStop, connections, faults, console, began, command>>
      BY <1>4 DEF Join, begun, threads
    <2>1. k \in 1 .. Len(workers) /\ \A i \in 1 .. k : thread[i] = "ended"
      BY <1>0, <2>0 DEF Stopping
    <2>2. TpfTypeOK'
      BY <2>0 DEF TpfTypeOK, MainStates
    <2>3. Beginning'
      BY <2>0 DEF Beginning
    <2>4. k' - 1 = k /\ (k # Len(workers) => k' \in DOMAIN workers)
      <3>1. \A l \in Nat : \A j \in 1 .. l : j + 1 - 1 = j /\ (j # l => j + 1 \in 1 .. l)
        OBVIOUS
      <3>2. k \in 1 .. Len(workers) /\ k' = k + 1
        BY <2>0, <2>1
      <3>3. k + 1 - 1 = k /\ (k # Len(workers) => k + 1 \in DOMAIN workers)
        BY <1>0, <3>1, <3>2, Zenon
      <3>4. k' - 1 = k
        BY <1>0, <3>2
      <3>5. k # Len(workers) => k' \in DOMAIN workers
        BY <3>2, <3>3, Zenon
      <3> QED
        BY <3>4, <3>5
    <2>5. Stopping'
      BY <1>0, <2>0, <2>1, <2>4 DEF Stopping
    <2> QED
      BY <2>0, <2>2, <2>3, <2>5
         DEF StopLeavesNothing, NoUseAfterClose, CommandGoesToTheSession
  <1>5. CASE CloseAll
    <2>0. /\ main = "close" /\ main' = "idle" /\ stopped' = TRUE
          /\ connections' = [c \in DOMAIN connections |-> "closed"]
          /\ UNCHANGED <<k, calls, workers, thread, isStop, faults, console, began, command>>
      BY <1>5 DEF CloseAll, begun, threads
    <2>1. connections' \in Seq(ConnStates) /\ DOMAIN connections' = DOMAIN connections
      <3>1. connections' \in [1 .. Len(connections) -> ConnStates] /\ Len(connections) \in Nat
        BY <2>0, LenProperties DEF TpfTypeOK, ConnStates
      <3> QED
        BY <2>0, <3>1, SeqDef
    <2>2. \A i \in DOMAIN workers : thread[i] = "ended"
      BY <2>0 DEF Stopping
    <2>3. TpfTypeOK'
      BY <2>0, <2>1 DEF TpfTypeOK, MainStates
    <2>4. Beginning' /\ Stopping'
      BY <2>0, <2>2 DEF Beginning, Stopping
    <2>5. StopLeavesNothing' /\ NoUseAfterClose'
      BY <2>0, <2>1, <2>2 DEF StopLeavesNothing, NoUseAfterClose
    <2>7. CommandGoesToTheSession'
      BY <2>0 DEF CommandGoesToTheSession, Stopping
    <2> QED
      BY <2>3, <2>4, <2>5, <2>7
  <1> QED
    BY <1>1, <1>2, <1>3, <1>4, <1>5

(* The threads of the workers, the board and the network. *)
LEMMA TpfWorks ==
    ASSUME TpfIInv,
           \/ \E i \in DOMAIN workers : WorkerStep(i) \/ DecodeFails(i)
           \/ \E c \in DOMAIN connections : ConnectionFails(c)
    PROVE  TpfIInv'
  <1> USE DEF TpfIInv
  <1>1. ASSUME NEW i \in DOMAIN workers, WorkerStep(i) \/ DecodeFails(i)
        PROVE  TpfIInv'
    <2>0. /\ UNCHANGED <<main, k, calls, stopped, workers, connections, console, began, command>>
          /\ faults' \in 0 .. MaxFaults
          /\ isStop' = isStop \/ isStop' = [isStop EXCEPT ![i] = TRUE]
          /\ thread[i] \in {"check", "working"}
          /\ \E s \in ThreadStates : thread' = [thread EXCEPT ![i] = s]
      <3>1. faults' \in 0 .. MaxFaults /\ MaxFaults \in Nat
        BY <1>1, TpfClientAssumption DEF WorkerStep, CheckStop, WorkingReturns, WorkingRaisesOSError,
                    DecodeFails, Fault, TpfTypeOK
      <3>2. CASE CheckStop(i)
        BY <3>1, <3>2 DEF CheckStop, ThreadStates, begun
      <3>3. CASE WorkingReturns(i)
        BY <3>1, <3>3 DEF WorkingReturns, ThreadStates, begun
      <3>4. CASE WorkingRaisesOSError(i)
        BY <3>1, <3>4 DEF WorkingRaisesOSError, ThreadStates, begun
      <3>5. CASE DecodeFails(i)
        BY <3>1, <3>5 DEF DecodeFails, ThreadStates, begun
      <3> QED
        BY <1>1, <3>2, <3>3, <3>4, <3>5 DEF WorkerStep
    <2>1. thread \in [DOMAIN workers -> ThreadStates]
      BY DEF TpfTypeOK
    <2>2. \A j \in DOMAIN workers \ {i} : thread'[j] = thread[j]
      BY <2>0, <2>1
    <2>3. /\ thread' \in [DOMAIN workers -> ThreadStates]
          /\ isStop' \in [DOMAIN workers -> BOOLEAN]
      <3>1. thread' \in [DOMAIN workers -> ThreadStates]
        BY <2>0, <2>1
      <3>3. isStop' \in [DOMAIN workers -> BOOLEAN]
        BY <2>0 DEF TpfTypeOK
      <3> QED
        BY <3>1, <3>3
    <2>4. \A j \in DOMAIN workers : thread[j] = "ended" => thread'[j] = "ended" /\ j # i
      BY <2>0, <2>2
    <2>6. TpfTypeOK'
      BY <2>0, <2>3 DEF TpfTypeOK
    <2>7. Beginning'
      BY <2>0 DEF Beginning
    <2>8. Stopping'
      <3>1. \A j \in 1 .. k - 1 : k \in DOMAIN workers => j \in DOMAIN workers
        BY LenProperties DEF TpfTypeOK
      <3> QED
        BY <2>0, <2>4, <3>1 DEF Stopping
    <2>9. StopLeavesNothing' /\ NoUseAfterClose'
      BY <2>0, <2>4 DEF StopLeavesNothing, NoUseAfterClose
    <2>11. CommandGoesToTheSession'
      BY <2>0 DEF CommandGoesToTheSession
    <2> QED
      BY <2>6, <2>7, <2>8, <2>9, <2>11
  <1>2. ASSUME NEW c \in DOMAIN connections, ConnectionFails(c)
        PROVE  TpfIInv'
    <2>0. /\ UNCHANGED <<main, k, calls, stopped, workers, thread, isStop, console, began, command>>
          /\ faults' \in 0 .. MaxFaults
          /\ connections[c] \in {"open", "eof"}
          /\ \E s \in {"eof", "broken"} : connections' = [connections EXCEPT ![c] = s]
      <3>1. faults' \in 0 .. MaxFaults
        <4>1. faults < MaxFaults /\ faults' = faults + 1
          BY <1>2 DEF ConnectionFails, Fault
        <4>2. faults \in 0 .. MaxFaults
          BY DEF TpfTypeOK
        <4>3. MaxFaults \in Nat
          BY TpfClientAssumption
        <4> QED
          BY <4>1, <4>2, <4>3
      <3>2. \E s \in {"eof", "broken"} : connections' = [connections EXCEPT ![c] = s]
        BY <1>2 DEF ConnectionFails
      <3> QED
        BY <1>2, <3>1, <3>2 DEF ConnectionFails, threads, begun
    <2>1. connections' \in Seq(ConnStates) /\ DOMAIN connections' = DOMAIN connections
      <3>1. connections \in [1 .. Len(connections) -> ConnStates] /\ Len(connections) \in Nat
        BY LenProperties DEF TpfTypeOK
      <3>2. connections' \in [1 .. Len(connections) -> ConnStates]
        BY <2>0, <3>1 DEF ConnStates
      <3> QED
        BY <3>1, <3>2, SeqDef
    <2>2. /\ \A d \in DOMAIN connections \ {c} : connections'[d] = connections[d]
          /\ connections'[c] \in {"eof", "broken"}
      BY <2>0 DEF TpfTypeOK
    <2>3. \A i \in DOMAIN workers : workers[i].conn \in DOMAIN connections
      BY DEF TpfTypeOK
    <2>4. TpfTypeOK'
      BY <2>0, <2>1 DEF TpfTypeOK
    <2>5. Stopping'
      BY <2>0 DEF Stopping
    <2>6. Beginning'
      <3>1. main = "beginAlive" => Len(workers) \in DOMAIN workers
        BY LenProperties, EmptySeq DEF TpfTypeOK, Beginning
      <3> QED
        BY <2>0, <2>2, <2>3, <3>1 DEF Beginning
    <2>7. ~stopped
      BY <2>0 DEF StopLeavesNothing
    <2>8. StopLeavesNothing' /\ CommandGoesToTheSession'
      BY <2>0, <2>7 DEF StopLeavesNothing, CommandGoesToTheSession
    <2>9. NoUseAfterClose'
      BY <2>0, <2>2, <2>3 DEF NoUseAfterClose
    <2> QED
      BY <2>4, <2>5, <2>6, <2>8, <2>9
  <1> QED
    BY <1>1, <1>2

(* The invariant of the console client. *)
LEMMA TpfInvariant == TpfSpec => []TpfIInv
  <1>1. TpfInit => TpfIInv
    <2> SUFFICES ASSUME TpfInit PROVE TpfIInv
      OBVIOUS
    <2>0. /\ main = "idle" /\ k = 0 /\ calls = 0 /\ stopped = FALSE
          /\ workers = <<>> /\ thread = <<>> /\ isStop = <<>>
          /\ connections = <<>> /\ faults = 0 /\ console = 0 /\ began = "none" /\ command = "none"
      BY DEF TpfInit
    <2>1. \A S : <<>> \in Seq(S) /\ Len(<<>>) = 0 /\ DOMAIN <<>> = {} /\ <<>> \in [DOMAIN <<>> -> S]
      <3>1. \A S : <<>> \in Seq(S) /\ Len(<<>>) = 0
        BY EmptySeq
      <3>2. DOMAIN <<>> = 1 .. 0
        BY <3>1, LenProperties
      <3>3. DOMAIN <<>> = {}
        BY <3>2
      <3>4. \A S : <<>> \in [1 .. Len(<<>>) -> S]
        BY <3>1, LenProperties
      <3> QED
        BY <3>1, <3>2, <3>3, <3>4
    <2>2. TpfTypeOK
      <3>1. calls \in 0 .. MaxCalls /\ faults \in 0 .. MaxFaults /\ k \in Nat /\ console \in 0 .. Len(workers)
        BY <2>0, <2>1, TpfClientAssumption
      <3>2. /\ workers \in Seq([type : Types, conn : Nat]) /\ connections \in Seq(ConnStates)
            /\ \A i \in DOMAIN workers : workers[i].conn \in DOMAIN connections
            /\ thread \in [DOMAIN workers -> ThreadStates]
            /\ isStop \in [DOMAIN workers -> BOOLEAN]
        BY <2>0, <2>1, Zenon
      <3> QED
        BY <2>0, <3>1, <3>2 DEF TpfTypeOK, MainStates
    <2>3. Beginning /\ Stopping
      BY <2>0 DEF Beginning, Stopping
    <2> QED
      BY <2>0, <2>1, <2>2, <2>3
         DEF TpfIInv, StopLeavesNothing, NoUseAfterClose, CommandGoesToTheSession
  <1>2. TpfIInv /\ [TpfNext]_tpfVars => TpfIInv'
    <2> SUFFICES ASSUME TpfIInv, [TpfNext]_tpfVars PROVE TpfIInv'
      OBVIOUS
    <2>1. CASE UNCHANGED tpfVars
      BY <2>1 DEF tpfVars, threads, begun, TpfIInv, TpfTypeOK, Beginning, Stopping,
                  StopLeavesNothing, NoUseAfterClose, CommandGoesToTheSession
    <2>2. CASE TpfNext
      BY <2>2, TpfBegins, TpfCalls, TpfWorks DEF TpfNext, MainStep
    <2> QED
      BY <2>1, <2>2
  <1> QED
    BY <1>1, <1>2, PTL DEF TpfSpec

(* The client's state has its types. *)
THEOREM TpfTypeCorrect == TpfSpec => []TpfTypeOK
  <1>1. TpfIInv => TpfTypeOK
    BY DEF TpfIInv
  <1> QED
    BY <1>1, TpfInvariant, PTL

(* When stop_session has returned, no thread of any session is left and     *)
(* every connection is closed (Tpfclient.py:135-147).                       *)
THEOREM NothingIsLeft == TpfSpec => []StopLeavesNothing
  <1>1. TpfIInv => StopLeavesNothing
    BY DEF TpfIInv
  <1> QED
    BY <1>1, TpfInvariant, PTL

(* No thread uses a connection that the client has closed, in whatever      *)
(* order the threads run (Tpfclient.py:140-147).                            *)
THEOREM ClosedIsUnused == TpfSpec => []NoUseAfterClose
  <1>1. TpfIInv => NoUseAfterClose
    BY DEF TpfIInv
  <1> QED
    BY <1>1, TpfInvariant, PTL

(* A command that is taken goes to the console of the session begun last,   *)
(* if that has come about, and to none after stop_session, although the     *)
(* worker of the last console is never forgotten (Tpfclient.py:149-152).    *)
THEOREM CommandReachesTheConsole == TpfSpec => []CommandGoesToTheSession
  <1>1. TpfIInv => CommandGoesToTheSession
    BY DEF TpfIInv
  <1> QED
    BY <1>1, TpfInvariant, PTL

-----------------------------------------------------------------------------
(* The polling for logs *)

(* The keys of a name that are still looked for; and that each listing but  *)
(* some has taken one of them out of the list, if any is left.              *)
Left(file) == KeysOf[file] \cap ToSet(file_keyname_list)
Within(file, some) ==
    Left(file) # {} => Cardinality(Left(file)) + listed[file] <= Cardinality(KeysOf[file]) + some

Polling ==
    /\ keyword = "Board" => pc \in {"command", "sleep", "list", "files", "keys", "done"}
    /\ keyword = "Log" => pc \in {"index", "get", "del", "set", "look", "done"}
    /\ ret # "none" <=> pc = "done"
    /\ keyword = "Log" /\ pc # "done" => index < Looks
    /\ keyword = "Log" /\ pc # "done" =>
         \A file \in Files : Head(KeyList) \in KeysOf[file] => listed[file] = 0
    /\ ~dirExists => dir = {}

(* What is listed is there, and so is a file for each key no longer looked  *)
(* for.                                                                     *)
Found ==
    /\ Len(file_keyname_list) <= Len(KeyList) /\ IsInjective(file_keyname_list)
    /\ IsInjective(listing)
    /\ pc = "keys" => listing # <<>>
    /\ \A file \in ToSet(listing) : file \in dir \/ file \in CwdFiles
    /\ \A key \in Keys \ ToSet(file_keyname_list) : \E file \in dir : key \in KeysOf[file]

(* Every listing a file was in has cost it a key, if it has any left, but   *)
(* for the one that is not yet gone through; and there a key has been taken *)
(* out or none was met so far.                                              *)
Rounds ==
    /\ pc \in {"command", "sleep", "list"} => listing = <<>>
    /\ keyword = "Board" /\ wait_seconds <= Limit =>
        /\ \A file \in Files : Within(file, 1) /\ (file \in ToSet(listing) \/ Within(file, 0))
        /\ pc = "keys" =>
            \/ Within(Head(listing), 0)
            \/ \A j \in DOMAIN file_keyname_list :
                 j < at => file_keyname_list[j] \notin KeysOf[Head(listing)]

LogIInv ==
    /\ LogTypeOK /\ Polling /\ Found /\ Rounds
    /\ TrueMeansThere /\ FalseMeansMissing

(* What a sequence holds is its head and what its tail holds. *)
LEMMA HeadAndTail ==
    ASSUME NEW S, NEW s \in Seq(S), s # <<>>
    PROVE  /\ Head(s) \in ToSet(s) /\ ToSet(Tail(s)) \subseteq ToSet(s) /\ Tail(s) \in Seq(S)
           /\ \A x \in ToSet(s) : x = Head(s) \/ x \in ToSet(Tail(s))
           /\ IsInjective(s) => IsInjective(Tail(s)) /\ Head(s) \notin ToSet(Tail(s))
  <1> DEFINE n == Len(s)
             t == Tail(s)
  <1>1. /\ DOMAIN s = 1 .. n /\ n \in Nat /\ n # 0 /\ Head(s) = s[1]
        /\ t \in Seq(S) /\ DOMAIN t = 1 .. n - 1 /\ \A i \in 1 .. n - 1 : t[i] = s[i + 1]
    BY HeadTailProperties, LenProperties, EmptySeq
  <1> HIDE DEF n, t
  <1>2. Head(s) \in ToSet(s)
    BY <1>1 DEF ToSet
  <1>3. ToSet(t) \subseteq ToSet(s)
    BY <1>1 DEF ToSet
  <1>4. ASSUME NEW x \in ToSet(s) PROVE x = Head(s) \/ x \in ToSet(t)
    <2>1. PICK i \in 1 .. n : x = s[i]
      BY <1>1 DEF ToSet
    <2>2. CASE i = 1
      BY <1>1, <2>1, <2>2
    <2>3. CASE i # 1
      <3>1. i - 1 \in 1 .. n - 1 /\ (i - 1) + 1 = i
        BY <1>1, <2>3
      <3>2. t[i - 1] = x
        BY <1>1, <2>1, <3>1
      <3> QED
        BY <1>1, <3>1, <3>2 DEF ToSet
    <2> QED
      BY <2>2, <2>3
  <1>5. ASSUME IsInjective(s) PROVE IsInjective(t) /\ Head(s) \notin ToSet(t)
    <2>1. \A i, j \in 1 .. n : s[i] = s[j] => i = j
      BY <1>1, <1>5 DEF IsInjective
    <2>2. \A i \in 1 .. n - 1 : i + 1 \in 1 .. n /\ i + 1 # 1 /\ 1 \in 1 .. n
      BY <1>1
    <2>3. \A i, j \in 1 .. n - 1 : i + 1 = j + 1 => i = j
      OBVIOUS
    <2>4. IsInjective(t)
      BY <1>1, <2>1, <2>2, <2>3 DEF IsInjective
    <2>5. ASSUME NEW i \in 1 .. n - 1, t[i] = s[1] PROVE FALSE
      <3>1. s[i + 1] = s[1] /\ i + 1 \in 1 .. n /\ 1 \in 1 .. n /\ i + 1 # 1
        BY <1>1, <2>2, <2>5
      <3> QED
        BY <2>1, <3>1
    <2> QED
      BY <1>1, <2>4, <2>5 DEF ToSet
  <1> QED
    BY <1>1, <1>2, <1>3, <1>4, <1>5 DEF t

(* RemoveAt moves what is behind the place up by one. *)
LEMMA RemovedAt ==
    ASSUME NEW S, NEW s \in Seq(S), NEW i \in 1 .. Len(s), NEW t, t = RemoveAt(s, i)
    PROVE  /\ t \in Seq(S) /\ Len(t) = Len(s) - 1
           /\ \A j \in 1 .. Len(t) : t[j] = (IF j < i THEN s[j] ELSE s[j + 1])
  <1> DEFINE n == Len(s)
             a == SubSeq(s, 1, i - 1)
             b == SubSeq(s, i + 1, n)
  <1>1. n \in Nat /\ i \in 1 .. n /\ \A j \in 1 .. n : s[j] \in S
    BY LenProperties, ElementOfSeq
  <1> HIDE DEF n
  <1>2. a \in Seq(S) /\ Len(a) = i - 1 /\ \A j \in 1 .. i - 1 : a[j] = s[j]
    <2>1. 1 \in Int /\ i - 1 \in Int /\ \A j \in 1 .. i - 1 : s[j] \in S
      BY <1>1
    <2>2. a \in Seq(S) /\ Len(a) = (IF 1 <= i - 1 THEN (i - 1) - 1 + 1 ELSE 0)
      BY <2>1, SubSeqProperties
    <2>3. \A j \in 1 .. (i - 1) - 1 + 1 : a[j] = s[1 + j - 1]
      BY <2>1, SubSeqProperties
    <2>4. Len(a) = i - 1
      BY <1>1, <2>2
    <2>5. \A j \in 1 .. i - 1 : j \in 1 .. (i - 1) - 1 + 1 /\ 1 + j - 1 = j
      BY <1>1
    <2> HIDE DEF a
    <2>6. \A j \in 1 .. i - 1 : a[j] = s[j]
      BY <2>3, <2>5
    <2> QED
      BY <2>2, <2>4, <2>6
  <1>3. b \in Seq(S) /\ Len(b) = n - i /\ \A j \in 1 .. n - i : b[j] = s[i + j]
    <2>1. n \in Int /\ i + 1 \in Int /\ \A j \in i + 1 .. n : s[j] \in S
      BY <1>1
    <2>2. b \in Seq(S) /\ Len(b) = (IF i + 1 <= n THEN n - (i + 1) + 1 ELSE 0)
      BY <2>1, SubSeqProperties
    <2>3. \A j \in 1 .. n - (i + 1) + 1 : b[j] = s[(i + 1) + j - 1]
      BY <2>1, SubSeqProperties
    <2>4. Len(b) = n - i
      BY <1>1, <2>2
    <2>5. \A j \in 1 .. n - i : j \in 1 .. n - (i + 1) + 1 /\ (i + 1) + j - 1 = i + j
      BY <1>1
    <2> HIDE DEF b
    <2>6. \A j \in 1 .. n - i : b[j] = s[i + j]
      BY <2>3, <2>5
    <2> QED
      BY <2>2, <2>4, <2>6
  <1>4. t = a \o b
    BY DEF RemoveAt, n
  <1> HIDE DEF a, b
  <1>5. /\ t \in Seq(S) /\ Len(t) = (i - 1) + (n - i)
        /\ \A j \in 1 .. (i - 1) + (n - i) : t[j] = IF j <= i - 1 THEN a[j] ELSE b[j - (i - 1)]
    BY <1>2, <1>3, <1>4, ConcatProperties
  <1>6. (i - 1) + (n - i) = n - 1
    BY <1>1
  <1>7. ASSUME NEW j \in 1 .. n - 1 PROVE t[j] = IF j < i THEN s[j] ELSE s[j + 1]
    <2>1. CASE j < i
      <3>1. j \in 1 .. i - 1 /\ j <= i - 1
        BY <1>1, <2>1
      <3> QED
        BY <1>2, <1>5, <1>6, <2>1, <3>1
    <2>2. CASE ~(j < i)
      <3>1. ~(j <= i - 1) /\ j - (i - 1) \in 1 .. n - i /\ i + (j - (i - 1)) = j + 1
        BY <1>1, <2>2
      <3>2. t[j] = b[j - (i - 1)]
        BY <1>5, <1>6, <3>1
      <3>3. b[j - (i - 1)] = s[j + 1]
        BY <1>3, <3>1
      <3> QED
        BY <2>2, <3>2, <3>3
    <2> QED
      BY <2>1, <2>2
  <1> QED
    BY <1>5, <1>6, <1>7 DEF n

(* The listings of a finite directory hold what is in it. *)
LEMMA Listings ==
    ASSUME NEW T, NEW S \in SUBSET T, IsFiniteSet(S), NEW s \in SetToSeqs(S)
    PROVE  s \in Seq(T) /\ ToSet(s) = S /\ IsInjective(s)
  <1> DEFINE n == Cardinality(S)
  <1>1. n \in Nat
    BY FS_CardinalityType
  <1>2. s \in [1 .. n -> S] /\ \A i, j \in 1 .. n : i # j => s[i] # s[j]
    BY DEF SetToSeqs
  <1>3. IsFiniteSet(1 .. n) /\ Cardinality(1 .. n) = n
    BY <1>1, FS_Interval
  <1>4. s \in Injection(1 .. n, S)
    BY <1>2 DEF Injection, IsInjective
  <1>5. s \in Surjection(1 .. n, S)
    BY <1>3, <1>4, FS_Injection
  <1> HIDE DEF n
  <1>6. ToSet(s) = S
    BY <1>2, <1>5 DEF ToSet, Surjection
  <1>7. s \in [1 .. n -> T]
    BY <1>2
  <1>8. s \in Seq(T)
    BY <1>1, <1>7, SeqDef
  <1>9. IsInjective(s)
    BY <1>2 DEF IsInjective
  <1> QED
    BY <1>6, <1>8, <1>9

(* Without one of its elements a list without repetitions holds the others. *)
LEMMA RemovedFrom ==
    ASSUME NEW S, NEW s \in Seq(S), IsInjective(s), NEW i \in 1 .. Len(s), NEW t, t = RemoveAt(s, i)
    PROVE  /\ t \in Seq(S) /\ Len(t) = Len(s) - 1 /\ IsInjective(t)
           /\ ToSet(t) \subseteq ToSet(s) /\ s[i] \notin ToSet(t)
           /\ \A x \in ToSet(s) : x = s[i] \/ x \in ToSet(t)
           /\ \A j \in DOMAIN t : j < i => j \in DOMAIN s /\ t[j] = s[j]
  <1> DEFINE n == Len(s)
             old(j) == IF j < i THEN j ELSE j + 1
  <1>1. n \in Nat /\ i \in 1 .. n /\ DOMAIN s = 1 .. n
    BY LenProperties
  <1>2. t \in Seq(S) /\ Len(t) = n - 1 /\ \A j \in 1 .. Len(t) : t[j] = (IF j < i THEN s[j] ELSE s[j + 1])
    BY RemovedAt
  <1> HIDE DEF n
  <1>3. DOMAIN t = 1 .. n - 1
    BY <1>2, LenProperties
  <1>4. \A j \in 1 .. n - 1 : old(j) \in 1 .. n /\ old(j) # i /\ t[j] = s[old(j)]
    BY <1>1, <1>2
  <1>5. \A j, l \in 1 .. n - 1 : old(j) = old(l) => j = l
    BY <1>1
  <1>6. \A j \in 1 .. n : j # i => \E l \in 1 .. n - 1 : old(l) = j
    <2> SUFFICES ASSUME NEW j \in 1 .. n, j # i PROVE \E l \in 1 .. n - 1 : old(l) = j
      OBVIOUS
    <2>1. CASE j < i
      <3>1. j \in 1 .. n - 1 /\ old(j) = j
        BY <1>1, <2>1
      <3> QED
        BY <3>1
    <2>2. CASE j > i
      <3>1. j - 1 \in 1 .. n - 1 /\ old(j - 1) = j
        BY <1>1, <2>2
      <3> QED
        BY <3>1
    <2> QED
      BY <1>1, <2>1, <2>2
  <1>7. \A j \in 1 .. n - 1 : j < i => j \in 1 .. n /\ t[j] = s[j]
    BY <1>1, <1>4
  <1> HIDE DEF old
  <1>8. IsInjective(t)
    <2> SUFFICES ASSUME NEW j \in 1 .. n - 1, NEW l \in 1 .. n - 1, t[j] = t[l] PROVE j = l
      BY <1>3 DEF IsInjective
    <2>1. s[old(j)] = s[old(l)] /\ old(j) \in DOMAIN s /\ old(l) \in DOMAIN s
      BY <1>1, <1>4
    <2>2. old(j) = old(l)
      BY <2>1 DEF IsInjective
    <2> QED
      BY <1>5, <2>2
  <1>9. ToSet(t) \subseteq ToSet(s)
    BY <1>1, <1>3, <1>4 DEF ToSet
  <1>10. s[i] \notin ToSet(t)
    <2>1. ASSUME NEW j \in 1 .. n - 1, t[j] = s[i] PROVE FALSE
      <3>1. s[old(j)] = s[i] /\ old(j) \in DOMAIN s /\ i \in DOMAIN s /\ old(j) # i
        BY <1>1, <1>4, <2>1
      <3> QED
        BY <3>1 DEF IsInjective
    <2> QED
      BY <1>3, <2>1 DEF ToSet
  <1>11. \A x \in ToSet(s) : x = s[i] \/ x \in ToSet(t)
    <2> SUFFICES ASSUME NEW j \in 1 .. n, j # i PROVE s[j] \in ToSet(t)
      BY <1>1 DEF ToSet
    <2>1. PICK l \in 1 .. n - 1 : old(l) = j
      BY <1>6
    <2>2. t[l] = s[j] /\ l \in DOMAIN t
      BY <1>3, <1>4, <2>1
    <2> QED
      BY <2>2 DEF ToSet
  <1> QED
    BY <1>1, <1>2, <1>3, <1>7, <1>8, <1>9, <1>10, <1>11 DEF n

(* How many of the keys of a name there are. *)
LEMMA KeysCounted ==
    ASSUME NEW file \in Files, NEW S \in SUBSET KeysOf[file]
    PROVE  /\ Cardinality(S) \in Nat /\ Cardinality(KeysOf[file]) \in Nat
           /\ S # {} => Cardinality(S) >= 1
           /\ \A key \in S : Cardinality(S \ {key}) = Cardinality(S) - 1
  <1>1. IsFiniteSet(Keys)
    <2>1. KeyList \in Seq(Keys)
      BY LogUploadAssumption
    <2>2. IsFiniteSet(1 .. Len(KeyList)) /\ DOMAIN KeyList = 1 .. Len(KeyList)
      BY <2>1, LenProperties, FS_Interval
    <2>3. KeyList \in Surjection(1 .. Len(KeyList), Keys)
      BY <2>1, <2>2, LenProperties DEF Surjection, Keys, ToSet
    <2> QED
      BY <2>2, <2>3, FS_Surjection
  <1>2. IsFiniteSet(KeysOf[file])
    BY <1>1, FS_Subset, LogUploadAssumption
  <1>3. IsFiniteSet(S)
    BY <1>2, FS_Subset
  <1>4. Cardinality(S) \in Nat /\ Cardinality(KeysOf[file]) \in Nat
    BY <1>2, <1>3, FS_CardinalityType
  <1>5. S # {} => Cardinality(S) # 0
    BY <1>3, FS_EmptySet
  <1>6. \A key \in S : Cardinality(S \ {key}) = Cardinality(S) - 1
    BY <1>3, FS_RemoveElement
  <1> QED
    BY <1>4, <1>5, <1>6

(* What counts a name's keys does not depend on the rest of the state. *)
LEMMA SameCount ==
    ASSUME UNCHANGED <<file_keyname_list, listed>>, NEW file, NEW some
    PROVE  Within(file, some)' <=> Within(file, some)
  BY DEF Within, Left

(* A step of a keyword that has not answered and does not answer. *)
LEMMA NoAnswer ==
    ASSUME LogIInv, pc # "done", ret' = ret
    PROVE  ret = "none" /\ TrueMeansThere' /\ FalseMeansMissing'
  BY DEF LogIInv, Polling, TrueMeansThere, FalseMeansMissing

(* The row of Log File Upload, and what another manager does to it. *)
LEMMA RowSteps ==
    ASSUME LogIInv, GetIndex \/ DelLineGet \/ DelLine \/ SetRow \/ OtherRow
    PROVE  LogIInv'
  <1> USE DEF LogIInv
  <1>1. /\ UNCHANGED <<keyword, dirExists, dir, uploaded, index, wait_seconds, listing, file_keyname_list, at, listed>>
        /\ pc # "done" /\ ret = "none"
        /\ keyword = "Log"
        /\ pc' \in {"index", "get", "del", "set", "look", "done"}
        /\ row' \in {"none", "old", "ours", "other"}
        /\ ret' = "none" \/ (ret' = "Error" /\ pc' = "done")
        /\ pc' = "done" <=> ret' # "none"
    BY DEF GetIndex, DelLineGet, DelLine, SetRow, OtherRow, Goes, Raises, kept, loop, board, keywordVars,
           LogTypeOK, Polling
  <1>2. LogTypeOK'
    BY <1>1 DEF LogTypeOK
  <1>3. Polling'
    BY <1>1 DEF Polling
  <1>4. Found'
    BY <1>1 DEF Found
  <1>5. Rounds'
    BY <1>1 DEF Rounds
  <1>6. TrueMeansThere' /\ FalseMeansMissing'
    BY <1>1 DEF TrueMeansThere, FalseMeansMissing
  <1> QED
    BY <1>2, <1>3, <1>4, <1>5, <1>6

(* A look of Log File Upload. *)
LEMMA LookStep == ASSUME LogIInv, Look PROVE LogIInv'
  <1> USE DEF LogIInv
  <1>1. /\ UNCHANGED <<keyword, dirExists, dir, uploaded, row, wait_seconds, listing, file_keyname_list, at>>
        /\ pc = "look" /\ Seen(dir) /\ ret = "none" /\ keyword = "Log"
    BY DEF Look, loop, board, LogTypeOK, Polling
  <1>2. Look /\ index \in 0 .. Looks /\ index < Looks /\ Looks \in Nat
    BY <1>1, LogUploadAssumption DEF LogTypeOK, Polling
  <1>3. /\ index' \in 0 .. Looks
        /\ \/ pc' = "look" /\ ret' = "none" /\ index' < Looks /\ \A f \in dir : Head(KeyList) \notin KeysOf[f]
           \/ pc' = "done" /\ ret' = "Error"
           \/ pc' = "done" /\ ret' = "True" /\ \E file \in dir : Head(KeyList) \in KeysOf[file]
           \/ pc' = "done" /\ ret' = "False" /\ \A f \in dir : Head(KeyList) \notin KeysOf[f]
    <2>1. CASE ~dirExists /\ Raises /\ UNCHANGED index
      BY <1>2, <2>1 DEF Raises
    <2>2. CASE dirExists /\ (\E f \in dir : Head(KeyList) \in KeysOf[f])
               /\ ret' = "True" /\ pc' = "done" /\ UNCHANGED index
      BY <1>2, <2>2
    <2>3. CASE /\ dirExists /\ \A f \in dir : Head(KeyList) \notin KeysOf[f]
               /\ index' = index + 1
               /\ IF index' = Looks THEN ret' = "False" /\ pc' = "done" ELSE UNCHANGED <<ret, pc>>
      BY <1>1, <1>2, <2>3
    <2> QED
      BY <1>2, <2>1, <2>2, <2>3 DEF Look
  <1>4. /\ listed' \in [Files -> Nat]
        /\ \A f \in Files : f \in dir \/ listed'[f] = listed[f]
    BY <1>1 DEF Seen, LogTypeOK
  <1>5. \/ ret' \in {"True", "Error"}
        \/ \A f \in Files : Head(KeyList) \in KeysOf[f] => listed'[f] = 0
    <2> SUFFICES ASSUME \A f \in dir : Head(KeyList) \notin KeysOf[f]
                 PROVE  \A f \in Files : Head(KeyList) \in KeysOf[f] => listed'[f] = 0
      BY <1>3
    <2> QED
      BY <1>1, <1>4 DEF Polling
  <1>6. LogTypeOK'
    BY <1>1, <1>3, <1>4 DEF LogTypeOK
  <1>7. Polling'
    BY <1>1, <1>3, <1>5 DEF Polling
  <1>8. Found'
    BY <1>1, <1>3 DEF Found
  <1>9. Rounds'
    BY <1>1, <1>3 DEF Rounds
  <1>10. TrueMeansThere' /\ FalseMeansMissing'
    <2>1. TrueMeansThere'
      BY <1>1, <1>3 DEF TrueMeansThere, Missing, Sought
    <2>2. ret' = "False" => \A f \in Files : Head(KeyList) \in KeysOf[f] => listed'[f] <= 0
      BY <1>5
    <2>3. FalseMeansMissing'
      BY <1>1, <2>2 DEF FalseMeansMissing, Sought
    <2> QED
      BY <2>1, <2>3
  <1> QED
    BY <1>6, <1>7, <1>8, <1>9, <1>10

(* The board writes a log. *)
LEMMA UploadStep ==
    ASSUME LogIInv, NEW file \in Files, UploadFile(file)
    PROVE  LogIInv'
  <1> USE DEF LogIInv
  <1>1. /\ UNCHANGED <<dirExists, row, keyword, index, pc, wait_seconds, listing, file_keyname_list, at, ret, listed>>
        /\ pc # "done" /\ dirExists
        /\ dir' = dir \cup {file} /\ uploaded' = uploaded \cup {file}
    BY DEF UploadFile, keywordVars
  <1>2. LogTypeOK'
    BY <1>1 DEF LogTypeOK
  <1>3. Polling'
    BY <1>1 DEF Polling
  <1>4. Found'
    BY <1>1 DEF Found
  <1>5. Rounds'
    BY <1>1, SameCount DEF Rounds
  <1> QED
    BY <1>1, <1>2, <1>3, <1>4, <1>5, NoAnswer

(* The request for a list of logs is sent, or fails. *)
LEMMA CommandStep == ASSUME LogIInv, Command PROVE LogIInv'
  <1> USE DEF LogIInv
  <1>1. /\ UNCHANGED <<keyword, dirExists, dir, uploaded, row, index, wait_seconds, listing, file_keyname_list, at, listed>>
        /\ pc = "command" /\ keyword = "Board" /\ ret = "none"
        /\ \/ pc' = "sleep" /\ ret' = "none"
           \/ pc' = "done" /\ ret' = "Error"
    BY DEF Command, Goes, Raises, kept, loop, board, LogTypeOK, Polling
  <1>2. LogTypeOK'
    BY <1>1 DEF LogTypeOK
  <1>3. Polling'
    BY <1>1 DEF Polling
  <1>4. Found'
    BY <1>1 DEF Found
  <1>5. Rounds'
    BY <1>1, SameCount DEF Rounds
  <1>6. TrueMeansThere' /\ FalseMeansMissing'
    BY <1>1 DEF TrueMeansThere, FalseMeansMissing
  <1> QED
    BY <1>2, <1>3, <1>4, <1>5, <1>6

(* The loop over the seconds and the files, between two listings. *)
LEMMA LoopSteps ==
    ASSUME LogIInv, Sleep \/ NextFile \/ FileDone
    PROVE  LogIInv'
  <1> USE DEF LogIInv
  <1>1. /\ UNCHANGED <<keyword, dirExists, dir, uploaded, row, index, file_keyname_list, ret, listed>>
        /\ pc # "done" /\ keyword = "Board" /\ pc' \in {"sleep", "list", "files", "keys"}
    BY DEF Sleep, NextFile, FileDone, KeysChecked, kept, board, LogTypeOK, Polling
  <1>2. listing \in Seq(Files) /\ IsInjective(listing) /\ (pc = "keys" => listing # <<>>)
    BY DEF LogTypeOK, Found
  <1>3. CASE Sleep
    <2>1. UNCHANGED <<listing, at>> /\ pc' = "list" /\ pc = "sleep"
      BY <1>3 DEF Sleep
    <2>2. wait_seconds' \in 0 .. Limit + 1 /\ (wait_seconds' <= Limit => wait_seconds <= Limit)
      BY <1>3, LogUploadAssumption DEF Sleep, LogTypeOK
    <2>3. LogTypeOK'
      BY <1>1, <2>1, <2>2 DEF LogTypeOK
    <2>4. Polling'
      BY <1>1, <2>1 DEF Polling
    <2>5. Found'
      BY <1>1, <2>1 DEF Found
    <2>6. Rounds'
      BY <1>1, <2>1, <2>2, SameCount DEF Rounds
    <2> QED
      BY <1>1, <2>3, <2>4, <2>5, <2>6, NoAnswer
  <1>4. CASE NextFile
    <2>1. /\ UNCHANGED <<listing, wait_seconds>> /\ pc = "files" /\ at' = 1
          /\ pc' = (IF listing = <<>> THEN "sleep" ELSE "keys")
      BY <1>4 DEF NextFile
    <2>2. Len(KeyList) \in Nat
      BY LogUploadAssumption, LenProperties
    <2>3. LogTypeOK'
      BY <1>1, <2>1, <2>2 DEF LogTypeOK
    <2>4. Polling'
      BY <1>1, <2>1 DEF Polling
    <2>5. Found'
      BY <1>1, <2>1 DEF Found
    <2>6. \A j \in DOMAIN file_keyname_list : ~(j < 1)
      BY LenProperties DEF LogTypeOK
    <2>7. Rounds'
      BY <1>1, <2>1, <2>6, SameCount DEF Rounds
    <2> QED
      BY <1>1, <2>3, <2>4, <2>5, <2>7, NoAnswer
  <1>5. CASE FileDone
    <2> DEFINE file == Head(listing)
    <2>1. /\ UNCHANGED <<at, wait_seconds>> /\ pc = "keys" /\ at > Len(file_keyname_list)
          /\ listing' = Tail(listing) /\ pc' = "files"
      BY <1>5 DEF FileDone, KeysChecked
    <2>2. /\ Tail(listing) \in Seq(Files) /\ IsInjective(Tail(listing))
          /\ ToSet(Tail(listing)) \subseteq ToSet(listing)
          /\ \A f \in ToSet(listing) : f = file \/ f \in ToSet(Tail(listing))
      BY <1>2, <2>1, HeadAndTail
    <2> HIDE DEF file
    <2>3. wait_seconds <= Limit => Within(file, 0)
      <3>1. at \in Int /\ \A j \in DOMAIN file_keyname_list : j \in Int /\ j <= Len(file_keyname_list)
                       /\ Len(file_keyname_list) \in Nat
        BY LenProperties, LogUploadAssumption DEF LogTypeOK
      <3>2. \A j \in DOMAIN file_keyname_list : j < at
        BY <2>1, <3>1
      <3>3. (\A j \in DOMAIN file_keyname_list : file_keyname_list[j] \notin KeysOf[file]) => Left(file) = {}
        BY DEF Left, ToSet
      <3> QED
        BY <1>1, <2>1, <3>2, <3>3 DEF Rounds, Within, file
    <2>4. LogTypeOK'
      BY <1>1, <2>1, <2>2 DEF LogTypeOK
    <2>5. Polling'
      BY <1>1, <2>1 DEF Polling
    <2>6. Found'
      BY <1>1, <2>1, <2>2 DEF Found
    <2>7. Rounds'
      BY <1>1, <2>1, <2>2, <2>3, SameCount DEF Rounds
    <2> QED
      BY <1>1, <2>4, <2>5, <2>6, <2>7, NoAnswer
  <1> QED
    BY <1>3, <1>4, <1>5

(* os.listdir, with or without the directory. *)
LEMMA ListSteps ==
    ASSUME LogIInv, Listdir \/ ListdirMakedirs
    PROVE  LogIInv'
  <1> USE DEF LogIInv
  <1>1. /\ UNCHANGED <<keyword, dir, uploaded, row, index, wait_seconds, file_keyname_list, at, ret>>
        /\ pc = "list" /\ pc' = "files" /\ keyword = "Board"
        /\ Seen(dir) /\ (dirExists' = dirExists \/ dirExists')
        /\ dirExists' \in BOOLEAN
    BY DEF Listdir, ListdirMakedirs, kept, board, LogTypeOK, Polling
  <1>2. IsFiniteSet(dir) /\ IsFiniteSet(CwdFiles) /\ dir \subseteq Files /\ CwdFiles \subseteq Files
    BY LogUploadAssumption, FS_Subset DEF LogTypeOK
  <1>3. /\ listing' \in Seq(Files) /\ IsInjective(listing')
        /\ \A f \in ToSet(listing') : f \in dir \/ f \in CwdFiles
        /\ \A f \in dir : f \in ToSet(listing')
    <2>1. CASE Listdir
      <3>1. listing' \in Seq(Files) /\ ToSet(listing') = dir /\ IsInjective(listing')
        BY <1>2, <2>1, Listings DEF Listdir
      <3> QED
        BY <3>1
    <2>2. CASE ListdirMakedirs
      <3>1. listing' \in Seq(Files) /\ ToSet(listing') = CwdFiles /\ IsInjective(listing') /\ dir = {}
        BY <1>2, <2>2, Listings DEF ListdirMakedirs, Polling
      <3> QED
        BY <3>1
    <2> QED
      BY <2>1, <2>2
  <1>4. /\ listed' \in [Files -> Nat] /\ listed \in [Files -> Nat]
        /\ \A f \in Files : listed'[f] \in Nat /\ listed[f] \in Nat
        /\ \A f \in Files : listed'[f] <= listed[f] + 1
        /\ \A f \in Files \ dir : listed'[f] = listed[f]
    BY <1>1 DEF Seen, LogTypeOK
  <1>5. ASSUME wait_seconds <= Limit, NEW f \in Files
        PROVE  Within(f, 1)' /\ (f \in ToSet(listing') \/ Within(f, 0)')
    <2>1. Within(f, 0)
      <3>1. listing = <<>> /\ ToSet(<<>>) = {}
        BY <1>1, EmptySeq, LenProperties DEF Rounds, ToSet
      <3> QED
        BY <1>1, <1>5, <3>1 DEF Rounds
    <2>2. Cardinality(Left(f)) \in Nat /\ Cardinality(KeysOf[f]) \in Nat /\ Left(f)' = Left(f)
      BY <1>1, KeysCounted DEF Left
    <2>3. listed'[f] <= listed[f] + 1 /\ listed'[f] \in Nat /\ listed[f] \in Nat
      BY <1>4
    <2>4. Within(f, 1)'
      BY <2>1, <2>2, <2>3 DEF Within
    <2>5. f \in dir \/ listed'[f] = listed[f]
      BY <1>4
    <2> QED
      BY <1>3, <2>1, <2>2, <2>4, <2>5 DEF Within
  <1>6. LogTypeOK'
    BY <1>1, <1>3, <1>4 DEF LogTypeOK
  <1>7. Polling'
    BY <1>1 DEF Polling
  <1>8. Found'
    BY <1>1, <1>3 DEF Found
  <1>9. Rounds'
    BY <1>1, <1>5 DEF Rounds
  <1> QED
    BY <1>1, <1>6, <1>7, <1>8, <1>9, NoAnswer

(* A key is compared with a file: one that is taken out of the list makes   *)
(* up for the listing, whatever key is passed over then.                    *)
LEMMA KeyStep == ASSUME LogIInv, CheckKey PROVE LogIInv'
  <1> USE DEF LogIInv
  <1> DEFINE list == file_keyname_list
             file == Head(listing)
  <1>1. /\ UNCHANGED <<keyword, dirExists, dir, uploaded, row, index, pc, wait_seconds, listing, ret, listed>>
        /\ pc = "keys" /\ keyword = "Board" /\ at <= Len(list) /\ at' = at + 1
    BY DEF CheckKey, kept, board, LogTypeOK, Polling
  <1>2. /\ list \in Seq(Keys) /\ IsInjective(list) /\ Len(list) \in Nat /\ DOMAIN list = 1 .. Len(list)
        /\ Len(list) <= Len(KeyList) /\ Len(KeyList) \in Nat /\ at \in 1 .. Len(list)
    BY <1>1, LenProperties, LogUploadAssumption DEF LogTypeOK, Found
  <1>3. file \in ToSet(listing) /\ file \in Files
    BY <1>1, HeadAndTail, HeadTailProperties DEF LogTypeOK, Found
  <1>4. at' \in 1 .. Len(KeyList) + 1
    BY <1>1, <1>2
  <1> HIDE DEF file
  <1>5. CASE list[at] \notin KeysOf[file] /\ list' = list
    <2>1. \A j \in DOMAIN list : j < at + 1 => j < at \/ j = at
      BY <1>2
    <2>2. LogTypeOK'
      BY <1>1, <1>4, <1>5 DEF LogTypeOK
    <2>3. Polling'
      BY <1>1 DEF Polling
    <2>4. Found'
      BY <1>1, <1>5 DEF Found
    <2>5. Rounds'
      BY <1>1, <1>5, <2>1, SameCount DEF Rounds, file
    <2> QED
      BY <1>1, <2>2, <2>3, <2>4, <2>5, NoAnswer
  <1>6. CASE list[at] \in KeysOf[file] /\ list' = RemoveAt(list, at)
    <2>1. /\ list' \in Seq(Keys) /\ Len(list') = Len(list) - 1 /\ IsInjective(list')
          /\ ToSet(list') \subseteq ToSet(list) /\ list[at] \notin ToSet(list')
          /\ \A key \in ToSet(list) : key = list[at] \/ key \in ToSet(list')
      BY <1>2, <1>6, RemovedFrom
    <2>2. file \in dir
      BY <1>3, <1>6, LogUploadAssumption DEF Found
    <2>3. list[at] \in ToSet(list)
      BY <1>2 DEF ToSet
    <2>4. \A f \in Files : Left(f)' = Left(f) \ {list[at]}
      BY <2>1 DEF Left
    <2>5. ASSUME NEW f \in Files, NEW some \in Nat, Within(f, some) PROVE Within(f, some)'
      <3>1. /\ Cardinality(Left(f)) \in Nat /\ Cardinality(KeysOf[f]) \in Nat
            /\ \A key \in Left(f) : Cardinality(Left(f) \ {key}) = Cardinality(Left(f)) - 1
        BY KeysCounted DEF Left
      <3>2. Cardinality(Left(f)') \in Nat /\ Cardinality(Left(f)') <= Cardinality(Left(f))
        <4>1. CASE list[at] \in Left(f)
          <5>1. Left(f)' \in SUBSET KeysOf[f]
            BY <2>4 DEF Left
          <5> QED
            BY <2>4, <3>1, <4>1, <5>1, KeysCounted
        <4>2. CASE list[at] \notin Left(f)
          <5>1. Left(f)' = Left(f)
            BY <2>4, <4>2
          <5> QED
            BY <3>1, <5>1
        <4> QED
          BY <4>1, <4>2
      <3>3. listed'[f] = listed[f] /\ listed[f] \in Nat
        BY <1>1 DEF LogTypeOK
      <3>4. Left(f)' # {} => Left(f) # {}
        BY <2>4
      <3> QED
        BY <2>5, <3>1, <3>2, <3>3, <3>4 DEF Within
    <2>6. wait_seconds <= Limit => Within(file, 0)'
      <3>1. /\ Cardinality(Left(file)) \in Nat /\ Cardinality(KeysOf[file]) \in Nat
            /\ \A key \in Left(file) : Cardinality(Left(file) \ {key}) = Cardinality(Left(file)) - 1
        BY <1>3, KeysCounted DEF Left
      <3>2. list[at] \in Left(file)
        BY <1>6, <2>3 DEF Left
      <3>3. Cardinality((Left(file))') = Cardinality(Left(file)) - 1
        <4>1. Left(file)' = Left(file) \ {list[at]}
          BY <1>1, <2>1 DEF Left, file
        <4> QED
          BY <3>1, <3>2, <4>1
      <3>4. listed'[file] = listed[file] /\ listed[file] \in Nat /\ file' = file
        BY <1>1, <1>3 DEF LogTypeOK, file
      <3>5. wait_seconds <= Limit => Within(file, 1)
        BY <1>1, <1>3 DEF Rounds
      <3> QED
        BY <3>1, <3>2, <3>3, <3>4, <3>5 DEF Within
    <2>7. LogTypeOK'
      BY <1>1, <1>4, <2>1 DEF LogTypeOK
    <2>8. Polling'
      BY <1>1 DEF Polling
    <2>9. Found'
      <3>1. Len(list') <= Len(KeyList)
        BY <1>2, <2>1
      <3>2. \A key \in Keys \ ToSet(list') : \E f \in dir : key \in KeysOf[f]
        <4> SUFFICES ASSUME NEW key \in Keys \ ToSet(list') PROVE \E f \in dir : key \in KeysOf[f]
          OBVIOUS
        <4>1. CASE key = list[at]
          BY <1>6, <2>2, <4>1
        <4>2. CASE key # list[at]
          <5>1. key \notin ToSet(list)
            BY <2>1, <4>2
          <5> QED
            BY <5>1 DEF Found
        <4> QED
          BY <4>1, <4>2
      <3> QED
        BY <1>1, <2>1, <3>1, <3>2 DEF Found
    <2>10. Rounds'
      BY <1>1, <2>5, <2>6 DEF Rounds, file
    <2> QED
      BY <1>1, <2>7, <2>8, <2>9, <2>10, NoAnswer
  <1> QED
    BY <1>5, <1>6 DEF CheckKey, file

(* The two answers of the loop. *)
LEMMA ReturnSteps ==
    ASSUME LogIInv, ReturnTrue \/ ReturnFalse
    PROVE  LogIInv'
  <1> USE DEF LogIInv
  <1>1. /\ UNCHANGED <<keyword, dirExists, dir, uploaded, row, index, wait_seconds, listing, file_keyname_list, at, listed>>
        /\ pc = "keys" /\ pc' = "done" /\ keyword = "Board"
        /\ \/ ret' = "True" /\ file_keyname_list = <<>>
           \/ ret' = "False" /\ file_keyname_list # <<>> /\ wait_seconds = Limit
    BY DEF ReturnTrue, ReturnFalse, KeysChecked, kept, board, LogTypeOK, Polling
  <1>2. file_keyname_list = <<>> => ToSet(file_keyname_list) = {}
    BY EmptySeq, LenProperties DEF ToSet, LogTypeOK
  <1>3. file_keyname_list # <<>> => 1 \in DOMAIN file_keyname_list /\ file_keyname_list[1] \in Keys
    BY EmptySeq, LenProperties, ElementOfSeq DEF LogTypeOK
  <1>4. LogTypeOK'
    BY <1>1 DEF LogTypeOK
  <1>5. Polling'
    BY <1>1 DEF Polling
  <1>6. Found'
    BY <1>1 DEF Found
  <1>7. Rounds'
    BY <1>1, SameCount DEF Rounds
  <1>8. TrueMeansThere'
    BY <1>1, <1>2 DEF TrueMeansThere, Missing, Sought, Found
  <1>9. FalseMeansMissing'
    <2> SUFFICES ASSUME ret' = "False" PROVE FalseMeansMissing'
      BY DEF FalseMeansMissing
    <2> DEFINE key == file_keyname_list[1]
    <2>1. key \in Keys /\ wait_seconds <= Limit /\ key \in ToSet(file_keyname_list)
      BY <1>1, <1>3, LogUploadAssumption DEF ToSet
    <2> HIDE DEF key
    <2>2. ASSUME NEW f \in Files, key \in KeysOf[f] PROVE listed[f] <= Cardinality(KeysOf[f])
      <3>1. Left(f) # {} /\ Within(f, 1)
        BY <1>1, <2>1, <2>2 DEF Left, Rounds
      <3>2. Cardinality(Left(f)) \in Nat /\ Cardinality(KeysOf[f]) \in Nat /\ Cardinality(Left(f)) >= 1
        BY <3>1, KeysCounted DEF Left
      <3>3. listed[f] \in Nat
        BY DEF LogTypeOK
      <3> QED
        BY <3>1, <3>2, <3>3 DEF Within
    <2> QED
      BY <1>1, <2>1, <2>2 DEF FalseMeansMissing, Sought
  <1> QED
    BY <1>4, <1>5, <1>6, <1>7, <1>8, <1>9

(* The invariant of the polling. *)
LEMMA LogInvariant == LogSpec => []LogIInv
  <1>1. LogInit => LogIInv
    <2> SUFFICES ASSUME LogInit PROVE LogIInv
      OBVIOUS
    <2>1. KeyList \in Seq(Keys) /\ IsInjective(KeyList) /\ Limit \in Nat /\ Looks \in Nat \ {0}
          /\ OldFiles \subseteq Files /\ Len(KeyList) \in Nat
      BY LogUploadAssumption, LenProperties
    <2>2. <<>> \in Seq(Files) /\ ToSet(<<>>) = {} /\ IsInjective(<<>>)
      <3>1. <<>> \in Seq(Files) /\ DOMAIN <<>> = {}
        BY EmptySeq, LenProperties
      <3> QED
        BY <3>1 DEF ToSet, IsInjective
    <2>3. LogTypeOK
      <3>1. wait_seconds \in 0 .. Limit + 1 /\ index \in 0 .. Looks /\ at \in 1 .. Len(KeyList) + 1
        BY <2>1 DEF LogInit
      <3>2. dir \subseteq Files /\ uploaded \subseteq dir /\ listed \in [Files -> Nat]
        BY <2>1 DEF LogInit
      <3>3. listing \in Seq(Files) /\ file_keyname_list \in Seq(Keys)
        BY <2>1, <2>2 DEF LogInit
      <3> QED
        BY <3>1, <3>2, <3>3 DEF LogInit, LogTypeOK
    <2>4. Polling
      BY <2>1 DEF LogInit, Polling
    <2>5. Found
      BY <2>1, <2>2 DEF LogInit, Found, Keys
    <2>6. Rounds
      <3>1. ASSUME NEW f \in Files PROVE Within(f, 0) /\ Within(f, 1)
        <4>1. Left(f) = KeysOf[f]
          BY <2>1, LogUploadAssumption DEF Left, LogInit, Keys
        <4>2. Cardinality(KeysOf[f]) \in Nat /\ listed[f] = 0
          BY KeysCounted DEF LogInit
        <4> QED
          BY <4>1, <4>2 DEF Within
      <3> QED
        BY <3>1 DEF LogInit, Rounds
    <2>7. TrueMeansThere /\ FalseMeansMissing
      BY DEF LogInit, TrueMeansThere, FalseMeansMissing
    <2> QED
      BY <2>3, <2>4, <2>5, <2>6, <2>7 DEF LogIInv
  <1>2. LogIInv /\ [LogNext]_logVars => LogIInv'
    <2> SUFFICES ASSUME LogIInv, [LogNext]_logVars PROVE LogIInv'
      OBVIOUS
    <2>1. CASE UNCHANGED logVars
      <3>1. UNCHANGED <<dirExists, dir, uploaded, row, keyword, index, pc, wait_seconds, listing, file_keyname_list, at, ret, listed>>
        BY <2>1 DEF logVars, board, keywordVars
      <3>2. Rounds'
        BY <3>1, SameCount DEF LogIInv, Rounds
      <3> QED
        BY <3>1, <3>2 DEF LogIInv, LogTypeOK, Polling, Found, TrueMeansThere, FalseMeansMissing, Missing, Sought
    <2>2. CASE LogNext
      <3>1. CASE GetIndex \/ DelLineGet \/ DelLine \/ SetRow \/ OtherRow
        BY <3>1, RowSteps
      <3>2. CASE Look
        BY <3>2, LookStep
      <3>3. ASSUME NEW file \in Files, UploadFile(file) PROVE LogIInv'
        BY <3>3, UploadStep
      <3>4. CASE Command
        BY <3>4, CommandStep
      <3>5. CASE Sleep \/ NextFile \/ FileDone
        BY <3>5, LoopSteps
      <3>6. CASE Listdir \/ ListdirMakedirs
        BY <3>6, ListSteps
      <3>7. CASE CheckKey
        BY <3>7, KeyStep
      <3>8. CASE ReturnTrue \/ ReturnFalse
        BY <3>8, ReturnSteps
      <3> QED
        BY <2>2, <3>1, <3>2, <3>3, <3>4, <3>5, <3>6, <3>7, <3>8 DEF LogNext, Poll
    <2> QED
      BY <2>1, <2>2
  <1> QED
    BY <1>1, <1>2, PTL DEF LogSpec

(* The keywords' state has its types. *)
THEOREM LogTypeCorrect == LogSpec => []LogTypeOK
  <1>1. LogIInv => LogTypeOK
    BY DEF LogIInv
  <1> QED
    BY <1>1, LogInvariant, PTL

(* True is returned only if the directory holds a file for every key that   *)
(* was looked for, although keys are taken out of the list while it is      *)
(* iterated (CiUtils.py:357-364).                                           *)
THEOREM TrueIsTrue == LogSpec => []TrueMeansThere
  <1>1. LogIInv => TrueMeansThere
    BY DEF LogIInv
  <1> QED
    BY <1>1, LogInvariant, PTL

(* False is returned only if some log was in no more listings than its name *)
(* has keys, or in none of Log File Upload's looks: no round loses all keys *)
(* of a name (CiUtils.py:357-366).                                          *)
THEOREM FalseIsTrue == LogSpec => []FalseMeansMissing
  <1>1. LogIInv => FalseMeansMissing
    BY DEF LogIInv
  <1> QED
    BY <1>1, LogInvariant, PTL

=============================================================================
