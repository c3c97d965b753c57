--------------------------- MODULE UAgentSession ---------------------------
(***************************************************************************)
(* Sessions of the test suites: the keywords of UAgentWrapper.robot, the   *)
(* one TestCaseClient object they share for a whole run (its scope is      *)
(* GLOBAL), and the table of registered names in TestCaseLib.              *)
(*                                                                         *)
(* A keyword is one step; what happens inside TestCaseLib during it is the *)
(* subject of UAgentRegistry, UAgentConnect and UAgentCommand.  Suites call *)
(* the keywords in any order: a test that fails leaves out the rest.       *)
(***************************************************************************)
EXTENDS Integers

CONSTANTS
    Names,          \* host names the suites use
    IPs,            \* host addresses
    Pids,           \* process numbers the suites pass, -1 for none
    Trim,           \* CString::Trim on names: some name without its blanks
    None,           \* Python's None; as a char* the empty string, as a number 0
    MaxKeywords     \* bound: keywords in a behaviour

ASSUME UAgentSessionAssumption ==
    /\ Names # {} /\ IPs # {} /\ Pids \subseteq Int /\ MaxKeywords \in Nat
    /\ None \notin Names \cup IPs \cup Int
    /\ Trim \in [Names -> Names] /\ \A n \in Names : Trim[Trim[n]] = Trim[n]

TESTCASE_SUCCESS            == 0
REGISTER_CONNECT_FAIL       == -1
TESTCASE_FAIL               == -1
REGISTER_INUSE_FAIL         == -2
EXECUTECMD_PARA_TOOMANY     == -2
ECMD_RSP1_TIMEOUT_ERROR     == -3
ECMD_RSP2_TIMEOUT_ERROR     == -6
ECMD_CTRL_RSP_TIMEOUT_ERROR == -7
Rejections    == {TESTCASE_FAIL, EXECUTECMD_PARA_TOOMANY}
ExecuteErrors == Rejections \cup {ECMD_RSP1_TIMEOUT_ERROR, -4, ECMD_RSP2_TIMEOUT_ERROR, -9}

CStrings == Names \cup {None}
(* What a registered name stands for: CSockInfo.  Phantom is what           *)
(* m_NameAddrMap[name] makes of a name that has no entry.                   *)
SetPid(p) == IF p < 0 THEN -1 ELSE p
Phantom == [ip |-> None, pid |-> -1]
NoEntry == [ip |-> None, pid |-> None]
Entry   == [ip : IPs, pid : {SetPid(p) : p \in Pids} \cup {-1}] \cup {Phantom}

VARIABLES
    client,         \* _hostName, _hostAddr, _pId of the TestCaseClient
    m_NameAddrMap,  \* name -> CSockInfo
    last,           \* history: the keyword that ran last, and whether it passed
    session,        \* history: what the last connect opened and no disconnect
                    \* has ended
    tidy,           \* history: no session was opened over another, no command
                    \* was sent outside one
    keywords        \* bound counter
vars == <<client, m_NameAddrMap, last, session, tidy, keywords>>

Addr    == [ip : IPs \cup {None}, pid : Int \cup {None}]
Session == [name : Names, ip : IPs, pid : Pids \cup {-1}, byPid : BOOLEAN]
NoSession == [name |-> None, ip |-> None, pid |-> None, byPid |-> FALSE]

(* The object's fields and the table are in range.                          *)
TypeOK ==
    /\ client \in [name : CStrings, ip : IPs \cup {None}, pid : Pids \cup {None}]
    /\ m_NameAddrMap \in [CStrings -> Entry \cup {NoEntry}]
    /\ last \in [op : {"none", "connect", "execute", "disconnect"}, code : -9 .. 0,
                passed : BOOLEAN, to : Addr]
    /\ session \in Session \cup {NoSession}
    /\ tidy \in BOOLEAN /\ keywords \in 0 .. MaxKeywords

Init ==
    /\ client = [name |-> None, ip |-> None, pid |-> None]
    /\ m_NameAddrMap = [n \in CStrings |-> NoEntry]
    /\ last = [op |-> "none", code |-> 0, passed |-> TRUE, to |-> NoEntry]
    /\ session = NoSession /\ tidy = TRUE /\ keywords = 0

InMap(n)  == m_NameAddrMap[n] # NoEntry
IsReal(n) == InMap(n) /\ m_NameAddrMap[n] # Phantom
AddrAlreadyInUse(ip, pid) == \E n \in CStrings : m_NameAddrMap[n] = [ip |-> ip, pid |-> pid]

Keyword == keywords < MaxKeywords /\ keywords' = keywords + 1
Report(op, code, passed, to) == last' = [op |-> op, code |-> code, passed |-> passed, to |-> to]

-----------------------------------------------------------------------------
(* TestCaseLib as the client sees it *)

(* Faulty variant: the name is entered before the connection is made. *)
BugEnterFirst(n, ip, pid, code) ==
    IF InMap(n) \/ AddrAlreadyInUse(ip, pid)
    THEN code = REGISTER_INUSE_FAIL /\ UNCHANGED m_NameAddrMap
    ELSE /\ code \in {TESTCASE_SUCCESS, REGISTER_CONNECT_FAIL, ECMD_CTRL_RSP_TIMEOUT_ERROR}
         /\ m_NameAddrMap' = [m_NameAddrMap EXCEPT ![n] = [ip |-> ip, pid |-> SetPid(pid)]]

(* TestCaseLibRegisterProc: a timeout of the control answers leaves the     *)
(* name registered.  AddrAlreadyInUse is asked for the pid as it is passed. *)
RegisterProc(n, ip, pid, code) ==
    IF InMap(n) \/ AddrAlreadyInUse(ip, pid)
    THEN code = REGISTER_INUSE_FAIL /\ UNCHANGED m_NameAddrMap
    ELSE /\ code \in {TESTCASE_SUCCESS, REGISTER_CONNECT_FAIL, ECMD_CTRL_RSP_TIMEOUT_ERROR}
         /\ m_NameAddrMap' = IF code = REGISTER_CONNECT_FAIL THEN m_NameAddrMap
                             ELSE [m_NameAddrMap EXCEPT ![n] = [ip |-> ip, pid |-> SetPid(pid)]]

(* TestCaseLibUnRegisterProc.  A phantom has no packet model, so erasing it *)
(* fails after the fact.                                                    *)
UnRegisterProc(n, ip, pid, code) ==
    IF m_NameAddrMap[n] = [ip |-> ip, pid |-> pid]
    THEN /\ m_NameAddrMap' = [m_NameAddrMap EXCEPT ![n] = NoEntry]
         /\ code = IF IsReal(n) THEN TESTCASE_SUCCESS ELSE TESTCASE_FAIL
    ELSE /\ UNCHANGED m_NameAddrMap
         /\ code = IF InMap(n) THEN TESTCASE_FAIL ELSE TESTCASE_SUCCESS

(* The name ExcuteCmd addresses, unlike RegisterProc and UnRegisterProc.    *)
Addressed(n) == IF n = None THEN None ELSE Trim[n]

-----------------------------------------------------------------------------
(* The keywords *)

(* What every connect does to the history. *)
Connected(n, ip, pid, byPid, code) ==
    /\ session' = IF code \in {TESTCASE_SUCCESS, ECMD_CTRL_RSP_TIMEOUT_ERROR}
                  THEN [name |-> n, ip |-> ip, pid |-> pid, byPid |-> byPid] ELSE NoSession
    /\ tidy' = (tidy /\ session = NoSession)

(* Connect Device by UAgent: any code but 0 raises. The _pId of an earlier  *)
(* connect_by_pid stays.                                                    *)
connect(n, ip) ==
    /\ Keyword
    /\ client' = [client EXCEPT !.name = n, !.ip = ip]
    /\ \E code \in -7 .. 0 :
           /\ RegisterProc(n, ip, -1, code)
           /\ Report("connect", code, code = TESTCASE_SUCCESS, [ip |-> ip, pid |-> -1])
           /\ Connected(n, ip, -1, FALSE, code)

(* The codes the keyword Connect Device by UAgent Use Pid passes on. *)
UsePidPasses(code) == code \notin {REGISTER_CONNECT_FAIL, REGISTER_INUSE_FAIL}

(* Faulty variants: a field of the object is not stored. *)
BugPidNotKept(n, ip, pid) ==
    /\ Keyword
    /\ client' = [client EXCEPT !.name = n, !.ip = ip]
    /\ \E code \in -7 .. 0 :
           /\ RegisterProc(n, ip, pid, code)
           /\ Report("connect", code, UsePidPasses(code), [ip |-> ip, pid |-> pid])
           /\ Connected(n, ip, pid, TRUE, code)
BugNameNotKept(n, ip, pid) ==
    /\ Keyword
    /\ client' = [client EXCEPT !.ip = ip, !.pid = pid, !.name = IF @ = None THEN n ELSE @]
    /\ \E code \in -7 .. 0 :
           /\ RegisterProc(n, ip, pid, code)
           /\ Report("connect", code, UsePidPasses(code), [ip |-> ip, pid |-> pid])
           /\ Connected(n, ip, pid, TRUE, code)

(* Connect Device by UAgent Use Pid. *)
connect_by_pid(n, ip, pid) ==
    /\ Keyword
    /\ client' = [name |-> n, ip |-> ip, pid |-> pid]
    /\ \E code \in -7 .. 0 :
           /\ RegisterProc(n, ip, pid, code)
           /\ Report("connect", code, UsePidPasses(code), [ip |-> ip, pid |-> pid])
           /\ Connected(n, ip, pid, TRUE, code)

(* A command: any code that the method does not expect raises.  SendMsg     *)
(* makes an entry for a name that has none, unless the command is rejected  *)
(* before it gets there.                                                    *)
Execute(expected) ==
    /\ Keyword
    /\ LET n == Addressed(client.name)
       IN  /\ \E code \in ExecuteErrors \cup {TESTCASE_SUCCESS} :
                 /\ ~IsReal(n) => code \in Rejections \cup {ECMD_RSP1_TIMEOUT_ERROR}
                 /\ Report("execute", code, code \in expected, m_NameAddrMap[n])
                 /\ \/ (InMap(n) \/ code \in Rejections) /\ UNCHANGED m_NameAddrMap
                    \/ /\ ~InMap(n) /\ code # EXECUTECMD_PARA_TOOMANY
                       /\ m_NameAddrMap' = [m_NameAddrMap EXCEPT ![n] = Phantom]
           /\ tidy' = (tidy /\ session # NoSession /\ n = client.name)
    /\ UNCHANGED <<client, session>>

(* execute_command and execute_command_with_out_datas; a command that       *)
(* resets its board may lose its second answer.                             *)
execute_command == Execute({TESTCASE_SUCCESS})
execute_command_with_disconnect_after_command ==
    Execute({TESTCASE_SUCCESS, ECMD_RSP2_TIMEOUT_ERROR})

(* A disconnect of either kind.  The keywords ignore what it returns; None  *)
(* as a process number is 0.  In "ends" the session is one that this kind   *)
(* of disconnect is to end: disconnect for those without a process,         *)
(* disconnect_by_pid for those of connect_by_pid (a pid below -1 is stored  *)
(* as -1, but compared as it is passed).                                    *)
Disconnect(pid, ends) ==
    /\ Keyword
    /\ \E code \in {TESTCASE_SUCCESS, TESTCASE_FAIL} :
           /\ UnRegisterProc(client.name, client.ip, pid, code)
           /\ Report("disconnect", code, TRUE, [ip |-> client.ip, pid |-> pid])
    /\ session' = IF session # NoSession /\ (ends \/ m_NameAddrMap'[session.name] = NoEntry) THEN NoSession ELSE session
    /\ UNCHANGED <<client, tidy>>
disconnect == Disconnect(-1, session.pid < 0)
disconnect_by_pid ==
    Disconnect(IF client.pid = None THEN 0 ELSE client.pid, session.byPid /\ session.pid >= -1)

Next ==
    \/ \E n \in Names, ip \in IPs :
           connect(n, ip) \/ \E pid \in Pids : connect_by_pid(n, ip, pid)
    \/ execute_command \/ execute_command_with_disconnect_after_command
    \/ disconnect \/ disconnect_by_pid

Spec == Init /\ [][Next]_vars

-----------------------------------------------------------------------------
(* Properties *)

(* A session that is ended by the disconnect of the connect that opened it  *)
(* is over: its name and its address can be used again.  (disconnect uses   *)
(* the fields that the connect has stored in the object.  For a pid below   *)
(* -1 AddrAlreadyInUse does not see that the address is taken.)             *)
EndedSessionStep ==
    session # NoSession /\ session' = NoSession /\ last'.op = "disconnect"
        => /\ last'.code = TESTCASE_SUCCESS
           /\ m_NameAddrMap'[session.name] = NoEntry
           /\ \A n \in CStrings : session.pid >= -1
                  => m_NameAddrMap'[n] # [ip |-> session.ip, pid |-> session.pid]
EndedSessionIsReleased == [][EndedSessionStep]_vars

(* Suites that never open a session over another and send commands only     *)
(* inside one are never told that a name or an address is in use, however   *)
(* often connections fail or time out.                                      *)
TidySuitesAreNotRefused == tidy /\ last.op = "connect" => last.code # REGISTER_INUSE_FAIL

(* In a session a command goes to the board the last connect named, not to  *)
(* an earlier one: names with blanks around them excepted, which ExcuteCmd  *)
(* trims and RegisterProc does not.                                         *)
CommandGoesToItsSession ==
    last.op = "execute" /\ session # NoSession /\ Addressed(session.name) = session.name
        => last.to = [ip |-> session.ip, pid |-> SetPid(session.pid)]

(* TestCaseClient.py:38: connect reports a failure as "connection failed!". *)
(* So a connect that fails, for another reason than a name in use, leaves   *)
(* no connection behind.                                                    *)
FailedConnectIsNotConnected ==
    last.op = "connect" /\ ~last.passed /\ last.code # REGISTER_INUSE_FAIL
        => ~InMap(client.name)

=============================================================================
