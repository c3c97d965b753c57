# Specifications of the base-station test client

This directory holds TLA+ specifications of the software with which the tests
of this repository talk to base-station boards: the C++ library TestCaseLib
(`src/device_agent/lib/TestCaseLib_src/CyTestCaseLib`), its Python client, the
console client `Tpfclient.py`, the packet tests of `ScpLibrary` and the polling
for uploaded logs. TLC checks them on small instances; of each TLAPS proves the
safety properties for every instance.

Line numbers without a file are those of `WorkManager.cpp`, which is GBK
encoded (`iconv -f gbk -t utf8` makes its comments readable).

## The system

Robot Framework suites (`src/testsuites`, `src/OM`, `src/DD`) call keywords
(`src/resources`). The keywords of `UAgentWrapper.robot` go to one
`TestCaseClient` object, that is shared by a whole run, and through `ctypes` to
TestCaseLib. TestCaseLib holds a TCP connection to an agent on each registered
processor, sends one request at a time and waits for the answer, which a
receive thread takes off the sockets of all processors. Other keywords reach
the board over SNMP or open its console ports.

    suites - keywords - TestCaseClient - TestCaseLib: test thread    ==TCP==>  UAgent
                |              |                      receive thread <==TCP==  on boards
                |              +-- ParameterHelper
                |-- Tpfclient: three threads, two sockets  ==TCP==  board's console
                |-- SNMP, then polling a directory          ==FTP==  board's logs
                +-- ScpLibrary: packets sent and sniffed on two interfaces

| Component | State it keeps | Operations | What is hard | What makes it correct |
|---|---|---|---|---|
| Command execution (198-333, 970-1161, 1391-1618) | three auto-reset events shared by all processors, maps of the last RSP1 and RSP2 per name | `ExcuteCmd`, `SetTaskPrio`, `RestartExecuteTask`; `DealMsg` on the receive thread | two threads; answers carry no number that pairs them with requests; late answers after a timeout; boards that go down | a command returns the value computed for it, or says that it does not |
| Parameters of a command (198-272, 1391-1557) | the request's data area, the stored RSP2, the caller's buffers | cutting the function text, layout, sending, storing the RSP2, write-back | offsets that depend on all lengths before; the limit of the area; answers that are short, missing or late | every buffer goes out whole and gets back its own bytes |
| Registration and receive thread (78-185, 970-1015, 1163-1298) | `m_NameAddrMap`, `m_NameDataMap`, the control event, sockets | `RegisterProc`, `UnRegisterProc`, `RecvMsg`, `DealRecvBuff` | the maps are written by one thread and iterated by the other, partly without `m_cs`; handles are handed out again | no data dropped, no iterator invalidated, no connection without a name |
| Framing (`RecvPacketModel.cpp`, 1238-1298) | `m_Buffer`, `m_nBuffLen`, `m_nMsgLen`, `m_IsNothing` of each connection | `SetRecvBuffer`, `ResetModel`, `IsIntegrityMsg` | TCP cuts the stream anywhere | messages dispatched whole, once, in order, all of them |
| File transfer (335-519, 1620-1677) | transfer id, one temporary file, the file event and map | `DownloadFile`, `UploadFile`, `DelTempFile` | all transfers share the file and the event; a late board still writes the file | success means this file was transferred |
| Connecting (591-941, 1711-1737) | sockets and the local ports they are bound to | `ClientConnect`, `ClientClose`, `AddrAlreadyInUse` | retries, two ports, two address families, ports that stay bound | a board that is there is connected to, and refused only for a reason |
| Sessions (`TestCaseClient.py`, `UAgentWrapper.robot`) | `_hostName`, `_hostAddr`, `_pId` and the names registered | connect, execute, disconnect, each with name or address | failed tests leave sessions open; the fields are overwritten by a failed connect | a command goes to the board of the session, a session ended is over |
| Console client (`Tpfclient.py`) | `_workers`, `_connections`, `_isStop` of three threads | `begin_session`, `stop_session`, the workers | partial failures of `begin_session`; stopping threads that read and send | nothing is left when `stop_session` returns, and it returns |
| Log upload (`LogHelper.robot`, `CiUtils.py:212-366`) | the directory, the keys not yet seen, the board's table of transfers | command over SNMP, polling once a second; `Log File Upload` with a row of its own | a list shortened while it is iterated; a limit tested in the inner loop; old files; a row index read free and used later | True means the logs are there, False that one was hardly there; the keyword ends |
| Text to ctypes (`ParameterHelper.py`, `CTypesHelper.py`, `TestCaseCommandParameter.py`) | none | building numbers, arrays, strings and structs | items written over others, over the end or with another size than declared; no zero behind a string | each value stands in the request where the script put it |
| Packet tests (`ScpLibrary`) | a result cell and a pcap file | `forward_*`: send, sniff, check, twice | sniffer and sender are not synchronised; the file outlives a capture that failed; late packets of the round before | True means forwarded, False has a cause, the test ends |
| Logging, file helpers, exported functions, SNMP library, robot suites | - | - | - | not modelled, see below |

## The modules

| Module | Models | Extends or instantiates |
|---|---|---|
| `UAgentCommand` | the test thread in a command, a priority change or a restart, the receive thread's `DealMsg`, the boards | instantiates `CommandService` |
| `CommandService` | what the command path promises: calls one at a time, answers from the board addressed, in order, each once | - |
| `UAgentCommandProofs` | theorems about `UAgentCommand` | `UAgentCommand`, TLAPS |
| `ParameterMarshalling` | the parameters of one command on their way to the board and back | - |
| `ParameterHelper` | what a script's texts become: functions on bytes, no state | - |
| `ParameterCall` | `execute_command` with a list of texts, on its way through the library | extends `ParameterMarshalling` and `ParameterHelper` |
| `ParameterCallProofs` | theorems about `ParameterMarshalling`; `ParameterCall` implements it; what a script's texts are on the board | `ParameterCall`, TLAPS |
| `UAgentRegistry` | registering, unregistering and addressing names against the receive thread | - |
| `UAgentRegistryProofs` | theorems about it | `UAgentRegistry`, TLAPS |
| `PacketFraming` | the reader of one connection | instantiates `MessageStream` |
| `MessageStream` | what the reader promises: sent messages are delivered in order, each eventually, until a head is cut; after that none twice or out of order | - |
| `PacketFramingProofs` | theorems about `PacketFraming` | `PacketFraming`, TLAPS |
| `UAgentFileTransfer` | downloads and uploads against the receive thread and the boards' FTP | - |
| `UAgentFileTransferProofs` | theorems about it | `UAgentFileTransfer`, TLAPS |
| `UAgentConnect` | the rounds of `ClientConnect`, the local ports of the process | - |
| `UAgentConnectProofs` | theorems about it | `UAgentConnect`, TLAPS |
| `UAgentSession` | the client object and the names registered, a keyword per step | - |
| `TpfClient` | begin, `execute_command` and stop of console sessions with their threads and connections | - |
| `LogUpload` | the polling loop of `isBoardLogFileExists` (`isRRULogFileExists` is its case of one key) and `Log File Upload` with its row in the board's table | - |
| `TestHostProofs` | theorems about `UAgentSession`, `TpfClient` and `LogUpload` | these three, TLAPS |
| `PacketTest` | the two rounds of a `forward_*` keyword, its threads, the capture files and the board between the cards | - |
| `PacketTestProofs` | theorems about it | `PacketTest`, TLAPS |
| `MC...` | constants of the runs | the module, or its proofs, whose assumptions TLC then evaluates too |

The modules are cut where the code is. `UAgentSession` takes a keyword as one
step and a set of possible return codes; what happens inside is
`UAgentConnect` (reaching the board), `UAgentRegistry` (names, sockets and
threads) and `UAgentCommand` (one request and its answers), whose parameters
are `ParameterMarshalling`'s and whose messages `PacketFraming` makes of the
bytes received. `ParameterCall` composes what Python does to the parameters
with what the library does: the texts of a script are converted, sent, filled in
by the board and written back in one behaviour. `TestHostProofs` puts the three
parts side by side that run beside the tests and share no state; `Init`, `Next`
and the like of `TpfClient` and `LogUpload` therefore have names of their own
(`TpfInit`, `LogInit`). `PROJECT.json` maps every definition to its lines.

### State and actions

- Variables have the names of the code's members and locals where there is
  one. `pc` (`main`, `at`, `rcv`) says where a thread is. Variables marked
  *history* exist for the properties and are read by no guard.
- A step is what happens between two points at which another thread, or the
  network, can be observed: a wait, a system call, the release of a lock, an
  access to a shared map or event. What runs under `m_cs` is one step. In
  `DealMsg` storing an answer and setting the event are two steps, and so are
  taking an event and erasing the entry of the map.
- Boards are external. They answer in the order they were asked, late, with any
  result, or not at all, and their connections break. Streams are FIFO, as TCP
  is.
- In `UAgentRegistry` a socket handle left unset by `CSockInfo`'s constructor
  is any handle value.
- In `UAgentConnect` a socket that is bound and not closed keeps its port, so
  that a second bind is refused; ports of the two address families are apart.
  That is how Windows treats sockets without `SO_REUSEADDR`.
- In `ParameterMarshalling` a byte is known by who wrote it, for which
  parameter and at which place, so that a byte that ends up anywhere else
  shows. `ParameterCall` keeps this and gives each such byte the value that the
  conversion gave it. Function texts have at most `CMD_MAX_PARA_NUM` pieces:
  the code's array has no place for more.
- In `ParameterHelper` a byte has `Base` values (256). How a text is split at
  commas and brackets, and how digits are read, is left out: a parameter is a
  record of what was read.
- In `PacketFraming` a place in the stream is a message and an offset; what the
  reader takes for lengths after a head was cut is any value
  (`ContinueGarbage`). What a message longer than the buffer overwrites behind
  it is anything: `Overrun` ends the behaviour there. `headCut` (history) says
  that a head was cut; either makes `broken` of `MessageStream` true.
- In `PacketTest` a frame is the round that sent it, its flow, its piece and
  what the board made of it. The protocols differ in the bytes only, which scapy
  composes and compares; so each flow stands for one of them. The board lets
  frames out in any order, loses and spoils them, and holds them for as long as
  it likes, also into a later round or keyword. The check may raise
  (`CheckRaises`), which ends the keyword without an answer. Before the first
  keyword the capture files hold a frame that would pass, as an earlier session
  may have left them.
- In `LogUpload` the SNMP layer is kept as far as the row of the transfer
  table: another manager may take the index between the reading and the
  writing, and any request may raise (SnmpLibrary/library.py:313-316, 396-405,
  495-498), whether the board has done what it asked or not. A name may have
  several keys: the list of types ends with ";" (CiUtils.py:385-386), so the
  last type is empty and its key is in the name of every log.

## The runs

Passing runs, with what bounds them and why that is enough:

| Run | Question | Bounds |
|---|---|---|
| `UAgentCommand` | which answers may a command return, before and after a timeout; do events, maps and threads implement `CommandService` | two boards, one per word size; three calls, so that a late answer can meet a call to the same or the other board and a third the leftover of both; one outage |
| `ParameterCall` | is each buffer sent whole and given back its own bytes, and does what a script writes stand in the request | an area of 17 bytes and at most three parameters (17 and 3 for 102400 and 32); bytes of four values; function names of one and four bytes; every kind of text alone (fitting or not, items over one another and over the end), most in pairs, three, and four, which is too many; lists of other callers, with buffers of 0 to 9 bytes that are aligned, need alignment, or do not fit; one late RSP2 |
| `UAgentRegistry` | are the maps, the sockets and the two threads consistent, when does `recv` block | two names, two boards (one echoes LOGON), two handles that are used again, three calls: register, unregister and register again while the receive thread is anywhere; symmetry in names and handles, which no definition tells apart |
| `UAgentRegistryLive` | do calls return, is data received | one board and handle, both names, no symmetry |
| `PacketFraming` | are messages made right wherever the stream is cut, and what still holds once a head was cut | three messages of four lengths: head only, head and one byte, as long as the buffer, one byte longer; all cuts |
| `PacketFramingSplitHead` | is a message lost if its head is cut (it is: the run ends in a violation) | two messages |
| `UAgentFileTransfer` | what does a success mean, what stays on the disk | two boards, three transfers, an id of 2 bits, so that the second and the third transfer have the id 0, as all from the 32nd on have in the code; symmetry in the boards |
| `UAgentConnect` | who is refused, and from which port is who connected | both address families, with and without a port, two slots, three registrations of three rounds (10 in the code: later rounds repeat the second) |
| `UAgentSession` | which board does a command reach, what does a disconnect free | three names, one being another with a blank, two addresses, five keywords |
| `TpfClient` | what is left of sessions, where does a command go, does `stop_session` return | three calls, one fault |
| `LogUpload` | what do True and False mean, when does the call return | two logs and the key of the empty type, which is in both names; five files, a limit of four seconds (200 in the code: the seconds before the last are alike), three looks of `Log File Upload` (10 in the code, alike too) |
| `PacketTest` | what do True and False mean, does the suite end | one flow, two keywords in the same or in opposite directions, so that a frame of a round can stray into the next round, the next keyword and the other card; two fragments; a board that holds two frames, so that it may be full |

Deadlock checking is off where the system may stop: the bounded number of
calls has been made, or the call has returned.

### Where the code differs from what it says

`PacketFramingSplitHead` is a recorded run: TLC finds a chunk that ends inside
a head, after which the message is lost, where a comment (1296) says that it
waits for the next chunk. The properties of `PacketFraming` and its theorems
say what holds until then, and what even after it (`ImplementsStream`).
 These configurations are kept beside the runs. Each checks one claim of a
comment or header, or the plain reading of a call, and TLC refutes it; run them
with `tlc -config <name>.cfg <module>`. Where a row names a property too, it
takes the place of the one in the file, which names it in a comment. For each
the passing runs state what does hold.

| Configuration | Module | What the counterexample shows | What holds |
|---|---|---|---|
| `UAgentCommandUnLogic` | `MCUAgentCommand` | after a timeout the "UnLogic" branch is reached, which a comment takes for impossible (WorkManager.h:86) | `EventHasEntryWhileSettled`, `ImplementsService` |
| `ParameterCallLate` | `MCParameterCall` | a late RSP2 is read with the offsets of the next request (1548) | `OwnBytesFromOwnAnswer` |
| `ParameterCallClaims` | `MCParameterCall` | a string of a struct longer than its declared size is written over what stood behind it (ParameterHelper.py:108, 119-121) | `FieldsArrive`: items apart by what they really fill |
| `ParameterCallClaims`, `EveryStringEnds` | `MCParameterCall` | a string whose length is a multiple of four has no zero behind it (ParameterHelper.py:157-159) | `StringsEnd` |
| `ParameterCallClaims`, `NumbersAreExact` | `MCParameterCall` | a number too large for four bytes is cut without an error (ParameterHelper.py:149, 170) | `NumbersArrive` |
| `UAgentRegistryRecvBlocks` | `MCUAgentRegistry` | a handle used again between `select` and the loop makes `recv` block under `m_cs` (1226) | `RecvBlocksOnlyOnReopened`: on no other handle |
| `UAgentRegistryUnknownName` | `MCUAgentRegistry` | addressing an unknown name makes an entry that cannot be unregistered (972), which a comment says is allowed (155) | `DataReceivedUnlessPhantom` |
| `PacketFramingBuffer` | `MCPacketFraming` | with the real sizes an answer may be longer than the buffer (RecvPacketModel.h:5) | `BufferIsEnough`: nothing but such a message overruns it |
| `UAgentFileTransferWrap` | `MCUAgentFileTransfer` | doubling makes the id 0, which every answer of that time matches (397, 439); with an id of 2 bits instead of 32 | `SuccessOnOwnAnswer`: not before an id has been given out for every bit |
| `UAgentFileTransferLate` | `MCUAgentFileTransfer` | a late upload overwrites the file of a download (373) | `OwnFileWhileNoTimeout` |
| `UAgentConnectRetries` | `MCUAgentConnect` | the socket of the first round refuses the second (653, MessageFormat.h:330) | `RefusedOnlyByOwnPort` |
| `UAgentSessionFailed` | `MCUAgentSession` | a connect that raised "connection failed!" may be connected (TestCaseClient.py:37) | `TidySuitesAreNotRefused` |
| `LogUploadEmpty` | `MCLogUpload` | an empty directory is polled for ever (CiUtils.py:234, 365) | `ReturnsOnceAnyFile` |
| `LogUploadClaims` | `MCLogUpload` | a file of an earlier upload counts (CiUtils.py:359) | `TrueMeansThere` |
| `LogUploadClaims`, `OthersRowIsKept` | `MCLogUpload` | a manager that takes the index after it was read loses its row, which `Log File Upload` deletes and makes its own (LogHelper.robot:29-32) | - |
| `TpfClientOther` | `MCTpfClient` | after a `begin_session` that raised, a command still goes to the console of the session before (Tpfclient.py:133, 149-152) | `CommandGoesToTheSession` |
| `PacketTestEarly` | `MCPacketTest` | the packet is back before the capture is open, and a board that forwards is answered False (scptool.py:47-48) | `FalseHasACause` |

Some more were met while reading and are visible in the actions named:
`RestartExecuteTask` compares the size sent with the size of another message
and so fails at once (321; the guard is in the action `RestartExecuteTask`); a
symbol that cannot be executed is reported as one not found (1508;
`EraseRsp1`); the answer to LOGON is waited for although a comment says it is
not (118, 120; `SigTimeout` of `UAgentRegistry`); no code returns
`ECMD_NOT_REGISTERED_ERROR`; a board registered without a process number and
with 0 is registered twice on the same port (1717; `AddrAlreadyInUse` of
`UAgentConnect`); the result in an RSP2 is not looked at (1533); the port bound
is 30000 + slot * 64 + processor + 1024, so that a processor numbered 64 or more
has the port of another slot (`srcPort`; `ProcIdsFit` of `UAgentConnectProofs`
excludes it).

### Fairness

Fairness is assumed of the program's own threads only, never of a board and
never of the suites.

- `UAgentCommand` states none: its properties are about which answers come
  back. Each wait has a time (`WaitForSingleObject`), so in a call the test
  thread always has a step that leads on, its event or its timeout.
- `UAgentRegistry`: a thread that can step does (weak fairness). Entering
  `m_cs` needs strong fairness: the receive thread leaves it between two rounds
  and takes it again, so it is free over and over but never for good; the queue
  of a Windows critical section serves who waits.
- `PacketFraming`: the receive thread steps while there is something to read.
- `TpfClient`: the calling thread and each worker step; sockets have a timeout
  of a second, so `recv` and `sendall` come back.
- `LogUpload`: the polling goes on.
- `PacketTest`: the test and its two threads step, and a capture ends by its
  timeout of five seconds (SniffPacket.py:13). No exception is counted on, and
  nothing of the board.

## The proofs

Each proof module holds the inductive invariant, one lemma per action and the
theorems. The constants are arbitrary but for the assumptions named in the
modules, which TLC evaluates in the runs.

- **`UAgentCommandProofs`**, assuming `UAgentCommandAssumption`. `TypeCorrect`:
  type correctness. `OwnAnswer`, `EventHasEntry`: as long as every call so far
  has settled (its code says that no answer can be outstanding), a successful
  command returns its own value and an event is never taken without its entry.
  Nothing on the wire or in the maps makes that so; it rests on there being one
  request at a time. The invariant therefore says, for each place of the test
  thread, where the one request or its answers are (`CallProgress`: in the
  stream to the board, with the board's task, in the stream back, stored, the
  event set or about to be) and that all else is empty (`Quiet`). Without the
  premise it is false, as the counterexample of `UAgentCommandUnLogic` shows.
  `ImplementsTheService` needs no premise: the command path implements
  `CommandService` (`ImplementsService`) through every timeout. What a call may
  be given is older than what is to come. So the invariant `InOrder` orders, for
  each board, the calls by where their answers are: those already handed out,
  the one taken, the one stored, those in the stream back, the one that is
  executed, those in the stream to the board, each before the next (`Lane`,
  `Chain`). Each step moves an answer one place on, or drops it, and handing it
  out is a step that the service allows (`FinishAllowed`). A board's restart or
  outage empties places and so keeps the order.
- **`PacketFramingProofs`**, assuming `PacketFramingAssumption`, for any cuts.
  `TypeCorrect`; `DispatchedInOrder`, `NothingIsLost` and
  `OnlyLongMessagesOverrun` (the buffer is overrun by the bytes of a message
  that is longer than it, and by nothing else) until a chunk ends inside a head;
  and `ImplementsStreamSafely`: the reader implements the safety part of
  `MessageStream`, before and after that. The invariant ties the model's four
  members to the place in the stream the reader has come to (`Reading`,
  `Complete`), and once a head was cut says that what the reader holds lies
  ahead of all it has dispatched (`BrokenInv`).
- **`ParameterCallProofs`**, assuming `SizesAssumption`. Of the library:
  `TypeCorrect`, `LayoutIsSound`, `WholeRequests`, `BuffersGetTheirOwn`,
  `BoardsWorkArrives`, `FailuresAreClean`, for every area size, name and list of
  parameters. The invariant says that buffers lie behind one another and apart
  (`BuffersApart`, with `Between` for the induction), that what was copied in is
  still there (`Held`), that no byte of the board is in a request (`PcOnly`),
  and what an answer holds at the place of each buffer (`Answer`).
  Of the scripts, assuming `CallsAssumption`, `TextsAssumption` and
  `BaseAssumption` too:
  `ScriptsCallTheLibrary`, that `ParameterCall` implements
  `ParameterMarshalling`, whichever lists scripts write and whatever they
  convert to. With it the theorems above carry over: `ScriptsRequestsAreWhole`,
  `ScriptsGetTheirOwnBytes`, `ScriptsGetTheBoardsWork`. While a call runs, the
  parameters are those of its texts (`TextsHeld`), from which follow
  `StringsEndOnTheBoard` (behind a string whose length is no multiple of four
  lies a byte of the gap before the next buffer, and such a byte is zero),
  `NumbersReachTheBoard` (a `c_int` differs from the number by a multiple of its
  range) and `ConvertedBuffersArrive`: what a text was converted to is what the
  board reads at its place.
  `FieldsReachTheBoard` adds what `ParameterHelper` makes of a text of any
  length (`ItemConverted`), and with that states `FieldsArrive`; for arrays and
  strings its condition always holds (`ArraysAndStringsArrive`). Four lemmas
  about operators carry it: `from_bytes` is the inverse of `to_bytes` on what
  fits (`BytesFacts`, digit by digit), an array's numbers lie in steps of their
  size (`FlattenFacts`), a slice put into a buffer changes its own bytes only
  (`SliceFacts`), so an item that nothing later reaches into stays as it was
  put (`ItemStays`). These are inductions over data. The library's induction
  theorems have an operator as a parameter, which the provers cannot
  instantiate; `Induction` has the set of the numbers for which something holds
  instead, and follows from `LeastNatural`. A recursive function is a `CHOOSE`
  to the provers: `FoldExists` and `RecursionExists` show that there is one to
  choose. Facts about functions of functions are passed between lemmas under a
  name (`IsFold`, `IsValue`, `Stands`), for the provers match them only so.
- **`UAgentFileTransferProofs`**, assuming `UAgentFileTransferAssumption`.
  `TypeCorrect`, `OwnFileDelivered` (while nothing timed out, whatever the ids
  do), `SuccessIsOwn` and `NoFileComesBack`, for any number of transfers and any
  width of the id. Two invariants carry them. `IInv` keeps the answers of each
  board in the order of the calls (`InOrder`) and says that, while nothing timed
  out, the call that waits is alone: its request, its answer or its event is at
  one of four places and all else is empty (`Alone`). `IdsInv` holds after
  timeouts too: each id under way is one that was given out, not before its own
  call (`Fresh`), a message with the id waited for is the call's own or as late
  as the ids that are all 0 (`Mine`), and no request is left that could bring
  back the file of a call that is done (`Gone`). That the ids 3, 6, 12, ...
  differ modulo a power of two, until they have all become 0 (`RepeatedId`,
  `WrappedId`), is proved from the definition of `TwoTo`, a recursive function
  that stands for powers of two because the provers know nothing of exponents.
  What happens to the answers after that is in the theorem and not excluded:
  `UAgentFileTransferWrap` shows that it occurs.
- **`TestHostProofs`**, of three parts.
  *Sessions*, assuming `UAgentSessionAssumption`: `TidySuites`,
  `CommandReachesItsSession`, `EndedSessions`. The invariant ties the open
  session to the object's fields and to its entry (`SessionEntry`), says that no
  other name has its address (`SessionAlone`) and that a tidy run has no other
  entry (`TidyEntries`). The module also proves its invariant, and with it type
  correctness, as `SessionInvariant`.
  *Console client*, assuming `TpfClientAssumption`: `TpfTypeCorrect`,
  `NothingIsLeft`, `ClosedIsUnused`, `CommandReachesTheConsole`, for any number
  of calls and faults. The invariant says that the connection that
  `begin_session` works at is open and that the console of a session begun is
  the last worker (`Beginning`), and that `stop_session` has ended each worker
  before the one it is at, and all of them before it closes a connection
  (`Stopping`).
  *Log upload*, assuming `LogUploadAssumption`: `LogTypeCorrect`, `TrueIsTrue`,
  `FalseIsTrue`, for any keys, names, files and limits. The list is shortened
  while it is iterated, so a round passes over the key behind a hit, and a name
  may have both. So False does not mean that a log was not there a second
  before; it means that some log was in no more listings than its name has keys
  (`FalseMeansMissing`). `Found` says that a key taken off the list has a file
  in the directory. `Rounds` counts: each listing a file was in has taken a key
  of its name off the list, if one was left, but for the listing that is being
  gone through, where the keys before the place of the loop are none of the
  file's or one has been taken off already.
- **`UAgentRegistryProofs`**, assuming `UAgentRegistryAssumption` and
  `UAgentRegistryValues`, with handles that are handed out again.
  `ConnectionsHaveTheirNames`, `NothingIsDropped`, `IteratorsStayValid` and
  `RecvDoesNotBlock`. None of them follows from what one thread does: the maps
  are written outside `m_cs`. The invariant says what each thread may rely on at
  each place of the other: that a registered name has its model, or is about to
  get it (`Models`); that nothing was asked of a board before its model is
  there, so no answer can come too early (`Registering`); that the receive
  thread neither is at a name whose model is about to go nor comes to it
  (`Unregistering`); and that an open socket is held by one name (`Sockets`,
  `Entries`). `Selected` adds that what `select` found ready stays so until
  `recv`, through whatever is closed, erased and connected in between, unless
  the very handle was closed and handed out again (`reopened`): that is when
  `recv` blocks, and `RecvDoesNotBlock` says that it is the only time.
  `RegistrationsAreServed` counts: a board sends one signal for each request it
  has served (one more if it echoes), so at wait k the signals that are still in
  the stream, with the receive thread or in the event, and k, are together at
  most the requests served and one (`Counted`); and between registrations there
  are none at all while no earlier one has timed out or echoed
  (`NothingOutstanding`). `TypeCorrect` needs a count too: on a connection no
  more registration requests are asked and served than the wait the call is at
  (`Bounds`), four at most.
- **`UAgentConnectProofs`**, assuming `UAgentConnectAssumption`. `TypeCorrect`,
  with the number of sockets a registration may make (`Numbers`),
  `ConnectionsHaveTheirPort`, `PortsAreFreeAfterClose`, and, with `ProcIdsFit`
  (processors are numbered below 64), `RefusalsAreOwn`. The invariant says that
  no two sockets share a port (`Apart`), that each registration keeps the socket
  of its own (`Connections`), and whose a port that is taken is: a
  registration's, the call's under way, or that of a call with a failed round
  behind it (`Owned`). `RefusalsAreOwn` needs that different slots and
  processors have different ports, which is where the number 64 comes in.
- **`PacketTestProofs`**, assuming `PacketTestAssumption`. `TypeCorrect`,
  `TruthIsForwarded`, `FalsehoodHasACause`, for any number of keywords,
  fragments and frames held. The invariant follows a frame: what is in the board
  was sent (`Sending`), what is captured or in the file of the capture was let
  out by the board while it was open (`Capture`, `Source`), a frame asked for is
  in the board, captured, or among the causes (`Asked`), and what the answers
  already given rest on stays (`Answers`, `Settled`).
 What is proved for every instance is not run again where it only repeats the
proof: `DispatchedAsSent` of `PacketFraming`, and `BuffersApart` and
`FailureLeavesBuffers` of `ParameterMarshalling` are theorems and in no run.
Type invariants (`TypeOK`, `TpfTypeOK`, `LogTypeOK`) are in no run: that of each
component is proved. They can be added to a configuration, as the inductive
invariants (`IInv`) can where the module of the run extends its proofs.

Of what the runs check, this is beyond the provers' reach and left to TLC:

- liveness under fairness: `EveryCallReturns`, `DataReceivedUnlessPhantom`,
  `StopReturns`, `ReturnsOnceAnyFile`, `EveryRoundEnds`, and the part of
  `ImplementsStream` that says that each message is delivered eventually
  (`ImplementsStreamSafely` is the rest of it).

Every other property of a passing run is stated by a theorem.

## What is not modelled

- `Log`, `LogReset`, `FindUseDisk`: a text file with a lock of its own.
- `FunctionWork.cpp`, `CyTestCaseLib.cpp`: one call each to the work manager.
- `FileHandler.py`, the PCAP reading and the rest of `CiUtils.py`: sequential
  helpers on files and digits, that keep no state and are not called from the
  components modelled. (`member_decode_to_integer_negative`, CiUtils.py:437-444,
  masks the magnitude with 16 bits after testing bit 31.)
- `CTypesHelper.py` and `TestCaseLib.py`: one text buffer and the loading of the
  DLL. The bytes of the console client's messages and of packets.
- Other managers on the board's SNMP table are modelled only by the row they
  take. The suites are the environment.
- The SNMP library is a vendored pysnmp with its dependencies, among them Robot
  Framework, ply and pycryptodomex, and generated MIB files: nearly all of the
  Python lines of the repository, none of them this program's own logic, used
  by the keywords as they are.
- That the console thread ends, with nobody told, on half a character
  (Tpfclient.py:104) or a broken connection is in the model (`DecodeFails`,
  `WorkingRaisesOSError`); no property denies it, for the code does it.
- Why `Log File Upload` ends with an error: SnmpLibrary raises for any reason,
  so there is nothing to say of it.
- The wait of Windows after the closing of a connection (TIME_WAIT), in which
  its port stays taken: `closesocket` frees it at once.
- `m_b64Bit` (1123, 1136) is written and never read.
- A struct with a negative index, which Python counts from the end of the
  buffer: the texts of the suites have none (npSetTest.robot:388,
  TestSSD.robot:78), and `TextsAssumption` says so.

## Plan

Done, in this order: the command path with its abstract service; registration
and the receive thread; framing with its abstract stream; file transfer;
connecting; sessions; the console client with its commands; parameters in the
library and from the scripts' texts; log upload with the transfer table; packet
tests; the proofs of command, framing, sessions, parameters, connecting, packet
tests and the registry; then that the command path implements its service, and
the proofs of file transfer, the console client, log upload and the scripts'
texts, last of what the conversion of a text of any length computes.

Left:

1. An abstract registry (a set of connected names) that `UAgentRegistry`
   implements as long as no unknown name is addressed, and the proof of it.
2. An abstract transfer service (requests and the file each delivers) for
   `UAgentFileTransfer`, for which `IdsInv` is the invariant needed.
