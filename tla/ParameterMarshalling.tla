------------------------ MODULE ParameterMarshalling ------------------------
(***************************************************************************)
(* The parameters of one command on their way to the board and back:       *)
(* TestCaseLibExcuteCmd takes them from the caller or cuts them out of the *)
(* function text, SendMsg_ExecuteCmd lays the buffers out in the request's *)
(* data area after the function name, the board works on them in place,    *)
(* DealMsg stores the RSP2 and SendMsg_ExecuteCmd copies each buffer back. *)
(*                                                                         *)
(* A byte is a tuple <<whose, index, place>>: the place-th byte of what    *)
(* the caller ("pc") or the board ("board") put into parameter index; the  *)
(* function name is "name" and cleared memory is Zero.  The waiting and    *)
(* the answer codes are UAgentCommand's.  Here a call that is not answered *)
(* by an RSP2 just fails, and the RSP2 of one that timed out may still be  *)
(* on its way when a later call waits for its own.                         *)
(***************************************************************************)
EXTENDS Integers, Sequences

CONSTANTS CMD_MAX_PARA_NUM,  \* 32 in the code
          AreaSize,          \* size of u8DataArea, 102400 in the code
          NameLengths,       \* lengths of the function names
          Parameters,        \* the parameter lists a caller may state
          Pieces             \* the lists of what stands between the commas of a function text

\* Every name fits the data area, every buffer has a length, and a function
\* text holds a few numbers and gaps.
ASSUME SizesAssumption ==
  /\ CMD_MAX_PARA_NUM \in Nat /\ AreaSize \in Nat
  /\ \A n \in NameLengths : n \in Nat /\ n + 1 <= AreaSize
  /\ \A ps \in Parameters : /\ ps \in Seq([s32ParaType : Nat, s32ParaVal : Int])
                            /\ \A j \in DOMAIN ps : ps[j].s32ParaType = 2 => ps[j].s32ParaVal \in Nat
  /\ \A ps \in Pieces : ps \in Seq(Int) /\ ps # <<>>

NUMBER == 1
BUFFER == 2
TESTCASE_SUCCESS == 0
TESTCASE_FAIL == -1
ECMD_RSP1_TIMEOUT_ERROR == -3
ECMD_RSP2_TIMEOUT_ERROR == -6
Timeouts == {ECMD_RSP1_TIMEOUT_ERROR, ECMD_RSP2_TIMEOUT_ERROR}
ECMD_INVALID_ERROR == -1
EXECUTECMD_PARA_TOOMANY == -2
NoResult == 1

Empty == -1  \* a piece with nothing in it; any other piece is its number

VARIABLES pc,              \* idle, filling, sent, answered or returned
          pieces,          \* the pieces the parameters were cut out of, if any
          nameLen,         \* length of the function name
          pstruParas,      \* the parameters as the caller holds them
          pParaBuf,        \* the caller's buffers
          struCmdPara,     \* the parameters filled into the request so far
          u32DataAreaLen,  \* how much of the data area is used
          u8DataArea,      \* the data area of the request
          rsp2,            \* the data area of the stored RSP2
          own,             \* that RSP2 answers the request it is read for
          owed,            \* the RSP2s of calls that timed out, at most one
          result           \* what the call returned

call == <<pieces, nameLen, pstruParas>>
request == <<struCmdPara, u32DataAreaLen, u8DataArea>>
answer == <<rsp2, own, owed>>
vars == <<pc, call, pParaBuf, request, answer, result>>

Zero == <<"none", 0, 0>>
Cleared == [at \in 0 .. AreaSize - 1 |-> Zero]

\* The bytes of buffer j as its writer left them.
Content(writer, j, len) == [k \in 1 .. len |-> <<writer, j, k>>]

IsBuffer(ps, j) == j \in DOMAIN ps /\ ps[j].s32ParaType = BUFFER

\* area with the bytes s copied in at offset at (memcpy).
Copied(area, at, s) ==
  [x \in DOMAIN area |-> IF x - at + 1 \in DOMAIN s THEN s[x - at + 1] ELSE area[x]]

\* Mutant: down to four bytes.
BugDown(len) == (len \div 4) * 4

\* Mutant: no adjustment.
BugNone(len) == len

\* u32DataAreaLen after the adjustment to four bytes.
Aligned(len) == IF len % 4 # 0 THEN (len \div 4 + 1) * 4 ELSE len

-----------------------------------------------------------------------------
(* The loop of TestCaseLibExcuteCmd goes on while a comma stands at a      *)
(* position > 0, so an empty piece ends it.  Whatever is left is the last  *)
(* parameter, and strtoul of a text that begins with a comma, or of none,  *)
(* is 0.                                                                   *)

Stops(ps) == {k \in DOMAIN ps : k = Len(ps) \/ ps[k] = Empty}
StopsAt(ps) == CHOOSE k \in Stops(ps) : \A m \in Stops(ps) : k <= m

strtoul(piece) == IF piece = Empty THEN 0 ELSE piece

\* Mutant: paraIndex++ is missing.
BugOneIndex(ps) == [j \in 1 .. 1 |-> [s32ParaType |-> NUMBER, s32ParaVal |-> strtoul(ps[StopsAt(ps)])]]

CutParameters(ps) ==
  [j \in 1 .. StopsAt(ps) |-> [s32ParaType |-> NUMBER, s32ParaVal |-> strtoul(ps[j])]]

-----------------------------------------------------------------------------
Init ==
  /\ pc = "idle" /\ pieces = <<>> /\ nameLen = 0 /\ pstruParas = <<>> /\ pParaBuf = <<>>
  /\ struCmdPara = <<>> /\ u32DataAreaLen = 0 /\ u8DataArea = Cleared
  /\ rsp2 = Cleared /\ own = TRUE /\ owed = {} /\ result = NoResult

Returns(code) == pc' = "returned" /\ result' = code

\* SendMsg_ExecuteCmd begins: the name and its terminator open the data area.
Starts(n, ps) ==
  /\ pc' = "filling" /\ nameLen' = n /\ pstruParas' = ps
  /\ pParaBuf' = [j \in DOMAIN ps |-> IF IsBuffer(ps, j)
                                      THEN Content("pc", j, ps[j].s32ParaVal) ELSE <<>>]
  /\ struCmdPara' = <<>> /\ u32DataAreaLen' = n + 1
  /\ u8DataArea' = Copied(Cleared, 0, Content("name", 0, n))
  /\ UNCHANGED <<answer, result>>

\* A call with its parameters stated (nParaNum is their number).
ExcuteCmd(n, ps) ==
  /\ pc = "idle" /\ Len(ps) <= CMD_MAX_PARA_NUM
  /\ Starts(n, ps) /\ UNCHANGED pieces

ExcuteCmdTooMany(ps) ==
  /\ pc = "idle" /\ Len(ps) > CMD_MAX_PARA_NUM
  /\ Returns(EXECUTECMD_PARA_TOOMANY)
  /\ UNCHANGED <<call, pParaBuf, request, answer>>

\* A call without parameters whose function text holds the pieces ps.
ExcuteCmdText(n, ps) ==
  /\ pc = "idle"
  /\ Starts(n, CutParameters(ps)) /\ pieces' = ps

-----------------------------------------------------------------------------
next == Len(struCmdPara) + 1

FillNumber ==
  /\ pc = "filling" /\ next \in DOMAIN pstruParas
  /\ pstruParas[next].s32ParaType = NUMBER
  /\ struCmdPara' = Append(struCmdPara, [s32ParaType |-> NUMBER, s32ParaLen |-> 0,
                                         s32ParaVal |-> pstruParas[next].s32ParaVal,
                                         s32ParaDataIndex |-> 0])
  /\ UNCHANGED <<pc, call, pParaBuf, u32DataAreaLen, u8DataArea, answer, result>>

FitsArea == Aligned(u32DataAreaLen) + pstruParas[next].s32ParaVal <= AreaSize

FillBuffer ==
  /\ pc = "filling" /\ IsBuffer(pstruParas, next) /\ FitsArea
  /\ LET at == Aligned(u32DataAreaLen)
         len == pstruParas[next].s32ParaVal
     IN /\ struCmdPara' = Append(struCmdPara, [s32ParaType |-> BUFFER, s32ParaLen |-> len,
                                               s32ParaVal |-> 0, s32ParaDataIndex |-> at])
        /\ u8DataArea' = Copied(u8DataArea, at, pParaBuf[next])
        /\ u32DataAreaLen' = at + len
  /\ UNCHANGED <<pc, call, pParaBuf, answer, result>>

\* "over 102400", or a type that is neither.
FillRefused ==
  /\ pc = "filling" /\ next \in DOMAIN pstruParas
  /\ \/ IsBuffer(pstruParas, next) /\ ~FitsArea
     \/ pstruParas[next].s32ParaType \notin {NUMBER, BUFFER}
  /\ Returns(ECMD_INVALID_ERROR)
  /\ UNCHANGED <<call, pParaBuf, request, answer>>

\* Every parameter is filled in: head, parameters and the used area go out.
SendRequest ==
  /\ pc = "filling" /\ next > Len(pstruParas)
  /\ pc' = "sent" /\ UNCHANGED <<call, pParaBuf, request, answer, result>>

-----------------------------------------------------------------------------
\* The part of the data area that goes over the wire.
SentArea == [x \in 0 .. u32DataAreaLen - 1 |-> u8DataArea[x]]

\* The board writes into the buffers of `written`, where the request put them.
Worked(written) ==
  [x \in DOMAIN SentArea |->
     IF \E j \in written : x - struCmdPara[j].s32ParaDataIndex \in 0 .. struCmdPara[j].s32ParaLen - 1
     THEN LET j == CHOOSE j \in written :
                     x - struCmdPara[j].s32ParaDataIndex \in 0 .. struCmdPara[j].s32ParaLen - 1
          IN <<"board", j, x - struCmdPara[j].s32ParaDataIndex + 1>>
     ELSE SentArea[x]]

\* DealMsg clears a whole FORMAP and copies the first len bytes over it.
Stored(written, len) ==
  [x \in DOMAIN Cleared |-> IF x < len THEN Worked(written)[x] ELSE Zero]

\* The RSP2 of this request arrives; one owed before it has been overwritten.
DealRsp2(written, len) ==
  /\ pc = "sent" /\ pc' = "answered"
  /\ rsp2' = Stored(written, len) /\ own' = TRUE /\ owed' = {}
  /\ UNCHANGED <<call, pParaBuf, request, result>>

\* The RSP2 of an earlier request arrives, and that of this one is owed.
DealLateRsp2(area, written) ==
  /\ pc = "sent" /\ pc' = "answered"
  /\ rsp2' = area /\ own' = FALSE /\ owed' = {Stored(written, u32DataAreaLen)}
  /\ UNCHANGED <<call, pParaBuf, request, result>>

\* No RSP1 or no RSP2 in time; the board is not done yet.
TimesOut(written) ==
  /\ pc = "sent" /\ owed = {}
  /\ (\E code \in Timeouts : Returns(code)) /\ owed' = {Stored(written, u32DataAreaLen)}
  /\ UNCHANGED <<call, pParaBuf, request, rsp2, own>>

\* Mutant: the offsets follow one another without the adjustment.
BugReadBack(j) ==
  [k \in 1 .. pstruParas[j].s32ParaVal |->
     rsp2[IF j = 1 THEN nameLen + k ELSE struCmdPara[j - 1].s32ParaDataIndex
                                          + struCmdPara[j - 1].s32ParaLen + k - 1]]

\* What is copied back for parameter j.
ReadBack(j) ==
  [k \in 1 .. pstruParas[j].s32ParaVal |-> rsp2[struCmdPara[j].s32ParaDataIndex + k - 1]]

\* An RSP1 that refuses the command, or an answer that is not in the map.
NotExecuted ==
  /\ pc = "sent" /\ Returns(TESTCASE_FAIL)
  /\ UNCHANGED <<call, pParaBuf, request, answer>>

\* Mutant: the last parameter is not copied back.
BugNotTheLast ==
  /\ pc = "answered"
  /\ pParaBuf' = [j \in DOMAIN pstruParas |-> IF IsBuffer(pstruParas, j) /\ j < Len(pstruParas)
                                              THEN ReadBack(j) ELSE pParaBuf[j]]
  /\ rsp2' = Cleared /\ Returns(TESTCASE_SUCCESS) /\ UNCHANGED <<call, request, own, owed>>

WriteBack ==
  /\ pc = "answered"
  /\ pParaBuf' = [j \in DOMAIN pstruParas |-> IF IsBuffer(pstruParas, j)
                                              THEN ReadBack(j) ELSE pParaBuf[j]]
  /\ rsp2' = Cleared /\ Returns(TESTCASE_SUCCESS) /\ UNCHANGED <<call, request, own, owed>>

\* The caller is back and may call again.
BackInCaller ==
  /\ pc = "returned"
  /\ pc' = "idle" /\ pieces' = <<>> /\ nameLen' = 0 /\ pstruParas' = <<>> /\ pParaBuf' = <<>>
  /\ struCmdPara' = <<>> /\ u32DataAreaLen' = 0 /\ u8DataArea' = Cleared
  /\ result' = NoResult /\ UNCHANGED answer

Buffers == {j \in DOMAIN pstruParas : IsBuffer(pstruParas, j)}

Next ==
  \/ \E n \in NameLengths : \/ \E ps \in Parameters : ExcuteCmd(n, ps)
                            \/ \E ps \in Pieces : ExcuteCmdText(n, ps)
  \/ \E ps \in Parameters : ExcuteCmdTooMany(ps)
  \/ FillNumber \/ FillBuffer \/ FillRefused \/ SendRequest
  \/ \E written \in SUBSET Buffers, len \in {0, u32DataAreaLen} : DealRsp2(written, len)
  \/ \E written \in SUBSET Buffers, area \in owed : DealLateRsp2(area, written)
  \/ \E written \in SUBSET Buffers : TimesOut(written)
  \/ NotExecuted \/ WriteBack \/ BackInCaller

Spec == Init /\ [][Next]_vars

-----------------------------------------------------------------------------
Bytes == {"none", "name", "pc", "board"} \X Nat \X Nat
Areas == [0 .. AreaSize - 1 -> Bytes]

TypeOK ==
  /\ pc \in {"idle", "filling", "sent", "answered", "returned"}
  /\ pieces \in Seq(Int) /\ nameLen \in Nat
  /\ pstruParas \in Seq([s32ParaType : Nat, s32ParaVal : Int])
  /\ \A j \in Buffers : pstruParas[j].s32ParaVal \in Nat
  /\ DOMAIN pParaBuf = DOMAIN pstruParas
  /\ \A j \in DOMAIN pParaBuf : pParaBuf[j] \in Seq(Bytes)
  /\ struCmdPara \in Seq([s32ParaType : {NUMBER, BUFFER}, s32ParaLen : Nat,
                          s32ParaVal : Int, s32ParaDataIndex : Nat])
  /\ u32DataAreaLen \in Nat /\ u8DataArea \in Areas /\ rsp2 \in Areas
  /\ own \in BOOLEAN /\ owed \subseteq Areas
  /\ result \in {TESTCASE_SUCCESS, TESTCASE_FAIL, ECMD_RSP1_TIMEOUT_ERROR, ECMD_RSP2_TIMEOUT_ERROR,
                EXECUTECMD_PARA_TOOMANY, NoResult}

(* The buffers filled into a request start on multiples of four behind the *)
(* function name, follow one another without overlap and end within what   *)
(* the request says it uses of the data area: the offsets the write-back   *)
(* and the board both work from (WorkManager.cpp:1420-1468).               *)
FilledBuffers == {j \in DOMAIN struCmdPara : IsBuffer(pstruParas, j)}

Start(j) == struCmdPara[j].s32ParaDataIndex
End(j) == struCmdPara[j].s32ParaDataIndex + struCmdPara[j].s32ParaLen

BuffersApart ==
  /\ u32DataAreaLen <= AreaSize
  /\ \A j \in FilledBuffers :
       /\ Start(j) % 4 = 0 /\ nameLen < Start(j) /\ End(j) <= u32DataAreaLen
       /\ struCmdPara[j].s32ParaLen = pstruParas[j].s32ParaVal
       /\ \A i \in FilledBuffers : i < j => End(i) <= Start(j)

(* A request that goes out holds the function name, its terminator and     *)
(* every byte of every buffer at the place its parameter names: nothing    *)
(* copied in later has overwritten something copied in before              *)
(* (WorkManager.cpp:1407, 1451-1452).                                      *)
RequestIsWhole ==
  pc \in {"sent", "answered"} =>
    /\ Len(struCmdPara) = Len(pstruParas)
    /\ \A k \in 1 .. nameLen : u8DataArea[k - 1] = <<"name", 0, k>>
    /\ u8DataArea[nameLen] = Zero
    /\ \A j \in Buffers : \A k \in 1 .. pstruParas[j].s32ParaVal :
         u8DataArea[Start(j) + k - 1] = <<"pc", j, k>>

(* After a call that succeeded each buffer holds its own bytes: the ones   *)
(* the board left there, the ones the caller put there, or zeros where the *)
(* RSP2 was shorter; never a byte of the name or of another parameter      *)
(* (WorkManager.cpp:1139-1151, 1537-1553).  That is what the comment on    *)
(* the RSP2 promises: symmetric to the request, with the same offsets      *)
(* (MessageFormat.h:209).                                                  *)
OwnBytesBack ==
  result = TESTCASE_SUCCESS =>
    \A j \in Buffers : \A k \in 1 .. pstruParas[j].s32ParaVal :
      pParaBuf[j][k] \in {<<"pc", j, k>>, <<"board", j, k>>, Zero}

(* It holds for the RSP2 of the request itself.                            *)
OwnBytesFromOwnAnswer == own => OwnBytesBack

(* A call that fails, at whatever point, leaves the caller's buffers as    *)
(* they were: the lists its values come from can be used again             *)
(* (the returns of WorkManager.cpp:198-272 and 1391-1531).                 *)
FailureLeavesBuffers ==
  pc = "returned" /\ result # TESTCASE_SUCCESS =>
    \A j \in Buffers : pParaBuf[j] = Content("pc", j, pstruParas[j].s32ParaVal)

(* Every byte the board wrote for this request and sent back is in the     *)
(* caller's buffer, at its place, once the call returns                    *)
(* (execute_command_with_out_datas reads it there, TestCaseClient.py:95).  *)
BoardsWorkReachesCaller ==
  [][pc = "answered" /\ own => \A x \in DOMAIN rsp2 :
       rsp2[x][1] = "board" => pParaBuf'[rsp2[x][2]][rsp2[x][3]] = rsp2[x]]_vars
=============================================================================
