------------------------- MODULE UAgentFileTransfer -------------------------
(***************************************************************************)
(* File transfer of TestCaseLib: TestCase_DownloadFile and                 *)
(* TestCase_UploadFile on the test thread, the receive thread, and the     *)
(* boards, which fetch or store the file over FTP before they answer.      *)
(*                                                                         *)
(* Every transfer goes through one temporary file on the PC, and all of    *)
(* them wait on one auto-reset event.  A file is known by the number of    *)
(* the call that transfers it; 0 is no file.  That number is a history     *)
(* value: what pairs an answer with its request is u32TransId.             *)
(***************************************************************************)
EXTENDS Integers, Sequences

CONSTANTS
    Procs,      \* names of the registered processors
    IdBits,     \* width of m_nFileTransId: 32
    MaxCalls,   \* bound: transfers in a behaviour
    MaxOutages  \* bound: how many boards may go down

ASSUME UAgentFileTransferAssumption ==
    /\ Procs # {}
    /\ IdBits \in Nat \ {0, 1}
    /\ MaxCalls \in Nat
    /\ MaxOutages \in Nat

TESTCASE_SUCCESS == 0
TESTCASE_FAIL    == -1

(* 2 ^ n, which the provers know nothing of. *)
TwoTo[n \in Nat] == IF n = 0 THEN 1 ELSE 2 * TwoTo[n - 1]

CallIds  == 1 .. MaxCalls
Files    == 0 .. MaxCalls
TransIds == 0 .. TwoTo[IdBits] - 1
Ops      == {"download", "upload"}
(* s32TransResult: UAGT_FILE_TRANS_OK, or one of ten errors. *)
TransResults == {"ok", "error"}
(* Why a transfer ended, as the log tells it. *)
Reasons  == {"done", "source", "send", "timeout", "unlogic", "result", "mismatch", "copy"}
Request  == [id : CallIds, op : Ops, transId : TransIds]
Rsp      == [id : CallIds, transId : TransIds, result : TransResults]
NoRsp    == [id |-> 0, transId |-> 0, result |-> "ok"]   \* absent from the map
Returned == [id : CallIds, op : Ops, code : {TESTCASE_SUCCESS, TESTCASE_FAIL},
             why : Reasons, answer : Files, got : Files]

VARIABLES
    pc,             \* the test thread: "idle", or where it is in a call
    cur,            \* the call it is in: [id, proc, op]
    nextId,         \* history: the number of the next call
    returned,       \* history: the calls that have returned
    m_nFileTransId,
    nSendTransId,   \* the local of that name
    tempfile,       \* m_strTempFilePath\m_strTransName on the PC's disk
    m_hFileTransEvent,
    m_NameFileTransRspMap,
    rcv,            \* the receive thread: "select" or "stored"
    toBoard, fromBoard, \* the TCP streams
    up,             \* is the board's end of the connection alive
    outages,
    stored          \* history: the file a board has stored for a download

callVars == <<pc, cur, nextId, returned, m_nFileTransId, nSendTransId>>
rcvVars  == <<m_NameFileTransRspMap, rcv>>
boardVars == <<up, outages, stored>>
vars == <<callVars, tempfile, m_hFileTransEvent, rcvVars, toBoard, fromBoard, boardVars>>

(* The calls, the receive thread and the boards are in range. *)
TypeOK ==
    /\ pc \in {"idle", "send", "wait", "copy"}
    /\ cur \in [id : Files, proc : Procs, op : Ops]
    /\ pc # "idle" => cur.id \in CallIds
    /\ nextId \in 1 .. MaxCalls + 1
    /\ returned \subseteq Returned
    /\ m_nFileTransId \in TransIds /\ nSendTransId \in TransIds
    /\ tempfile \in Files
    /\ m_hFileTransEvent \in BOOLEAN
    /\ m_NameFileTransRspMap \in [Procs -> Rsp \cup {NoRsp}]
    /\ rcv \in {"select", "stored"}
    /\ toBoard \in [Procs -> Seq(Request)] /\ fromBoard \in [Procs -> Seq(Rsp)]
    /\ up \in [Procs -> BOOLEAN] /\ outages \in 0 .. MaxOutages
    /\ stored \in [CallIds -> Files]

Init ==
    /\ pc = "idle"
    /\ cur \in [id : {0}, proc : Procs, op : {"upload"}]
    /\ nextId = 1 /\ returned = {}
    /\ m_nFileTransId = 3 /\ nSendTransId = 0
    /\ tempfile = 0
    /\ m_hFileTransEvent = FALSE
    /\ m_NameFileTransRspMap = [p \in Procs |-> NoRsp]
    /\ rcv = "select"
    /\ toBoard = [p \in Procs |-> <<>>] /\ fromBoard = [p \in Procs |-> <<>>]
    /\ up = [p \in Procs |-> TRUE] /\ outages = 0
    /\ stored = [c \in CallIds |-> 0]

-----------------------------------------------------------------------------
(* The test thread *)

Return(call, why, answer, got) ==
    /\ pc' = "idle"
    /\ returned' = returned \cup
           {[id |-> call.id, op |-> call.op,
             code |-> IF why = "done" THEN TESTCASE_SUCCESS ELSE TESTCASE_FAIL,
             why |-> why, answer |-> answer, got |-> got]}

NewCall(p, op) == [id |-> nextId, proc |-> p, op |-> op]
Enter(p, op) ==
    /\ pc = "idle" /\ nextId <= MaxCalls
    /\ cur' = NewCall(p, op) /\ nextId' = nextId + 1

(* The id is doubled in its width.  What goes onto the wire is m_nFileTransId, *)
(* by then doubled, and not the parameter nTransId.                         *)
Doubled  == (m_nFileTransId * 2) % TwoTo[IdBits]
TakeTransId == nSendTransId' = m_nFileTransId /\ m_nFileTransId' = Doubled

(* SendMsg_FileTransReq: a path may be too long, which fails; send() may    *)
(* fail or swallow the request once the board's end is gone.                *)
SendMsg_FileTransReq(call) ==
    \/ /\ up[call.proc]
       /\ toBoard' = [toBoard EXCEPT ![call.proc] =
                          Append(@, [id |-> call.id, op |-> call.op, transId |-> Doubled])]
       /\ pc' = "wait" /\ UNCHANGED returned
    \/ /\ ~up[call.proc]
       /\ pc' = "wait" /\ UNCHANGED <<returned, toBoard>>
SendFails(call) == Return(call, "send", 0, 0) /\ UNCHANGED toBoard

(* DownloadFile up to the copy of the source to the temporary file. *)
DownloadFile(p) ==
    /\ Enter(p, "download")
    /\ \/ Return(NewCall(p, "download"), "source", 0, 0) /\ UNCHANGED tempfile
       \/ tempfile' = nextId /\ pc' = "send" /\ UNCHANGED returned
    /\ UNCHANGED <<m_nFileTransId, nSendTransId, m_hFileTransEvent, rcvVars, toBoard, fromBoard, boardVars>>

DelTempFile == tempfile' = 0
(* Which of the two functions deletes the temporary file when it fails. *)
DelIfDownload == tempfile' = IF cur.op = "download" THEN 0 ELSE tempfile

SendDownload ==
    /\ pc = "send"
    /\ TakeTransId
    /\ \/ SendMsg_FileTransReq(cur) /\ UNCHANGED tempfile
       \/ SendFails(cur) /\ DelTempFile
    /\ UNCHANGED <<cur, nextId, m_hFileTransEvent, rcvVars, fromBoard, boardVars>>

UploadFile(p) ==
    /\ Enter(p, "upload")
    /\ TakeTransId
    /\ LET call == NewCall(p, "upload") IN SendMsg_FileTransReq(call) \/ SendFails(call)
    /\ UNCHANGED <<tempfile, m_hFileTransEvent, rcvVars, fromBoard, boardVars>>

(* Faulty variant: the temporary file is not deleted after a timeout. *)
BugTimeoutKeepsFile ==
    /\ pc = "wait" /\ ~m_hFileTransEvent
    /\ Return(cur, "timeout", 0, 0)
    /\ UNCHANGED <<cur, nextId, m_nFileTransId, nSendTransId, tempfile, m_hFileTransEvent, rcvVars, toBoard, fromBoard, boardVars>>

FileTransTimeout ==
    /\ pc = "wait" /\ ~m_hFileTransEvent
    /\ Return(cur, "timeout", 0, 0) /\ DelIfDownload
    /\ UNCHANGED <<cur, nextId, m_nFileTransId, nSendTransId, m_hFileTransEvent, rcvVars, toBoard, fromBoard, boardVars>>

(* Faulty variants: no check of the id, and none of the result. *)
BugIdUnchecked(rsp) ==
    CASE rsp = NoRsp       -> "unlogic"
      [] rsp.result # "ok" -> "result"
      [] OTHER             -> "no"
BugResultUnchecked(rsp) ==
    CASE rsp = NoRsp          -> "unlogic"
      [] rsp.transId # (nSendTransId * 2) % TwoTo[IdBits] -> "mismatch"
      [] OTHER                -> "no"
(* The entry of the map under the caller's name is looked at; it is left    *)
(* there.                                                                   *)
Rejected(rsp) ==
    CASE rsp = NoRsp          -> "unlogic"
      [] rsp.result # "ok"    -> "result"
      [] rsp.transId # (nSendTransId * 2) % TwoTo[IdBits] -> "mismatch"
      [] OTHER                -> "no"

(* The wait succeeds, which resets the event. *)
TakeFileTransRsp ==
    /\ pc = "wait" /\ m_hFileTransEvent
    /\ m_hFileTransEvent' = FALSE
    /\ LET rsp == m_NameFileTransRspMap[cur.proc]
       IN  \/ Rejected(rsp) # "no" /\ Return(cur, Rejected(rsp), rsp.id, 0) /\ DelIfDownload
           \/ /\ Rejected(rsp) = "no" /\ cur.op = "download"
              /\ Return(cur, "done", rsp.id, stored[cur.id]) /\ DelTempFile
           \/ /\ Rejected(rsp) = "no" /\ cur.op = "upload"
              /\ pc' = "copy" /\ UNCHANGED <<returned, tempfile>>
    /\ UNCHANGED <<cur, nextId, m_nFileTransId, nSendTransId, rcvVars, toBoard, fromBoard, boardVars>>

(* An upload: the temporary file is copied to where the caller wants it.    *)
(* Without one the copy fails, with one it may.                             *)
CopyUploaded ==
    /\ pc = "copy"
    /\ \/ /\ tempfile # 0
          /\ Return(cur, "done", m_NameFileTransRspMap[cur.proc].id, tempfile) /\ DelTempFile
       \/ Return(cur, "copy", 0, 0) /\ UNCHANGED tempfile
    /\ UNCHANGED <<cur, nextId, m_nFileTransId, nSendTransId, m_hFileTransEvent, rcvVars, toBoard, fromBoard, boardVars>>

-----------------------------------------------------------------------------
(* The receive thread: DealMsg on UAGT_FILE_TRANS_SERVICE_ID.  The answer   *)
(* is stored, then the event is set; no lock is held.                       *)
DealMsg(p) ==
    /\ rcv = "select" /\ fromBoard[p] # <<>>
    /\ m_NameFileTransRspMap' = [m_NameFileTransRspMap EXCEPT ![p] = Head(fromBoard[p])]
    /\ fromBoard' = [fromBoard EXCEPT ![p] = Tail(@)]
    /\ rcv' = "stored"
    /\ UNCHANGED <<callVars, tempfile, m_hFileTransEvent, toBoard, boardVars>>

SetFileTransEvent ==
    /\ rcv = "stored" /\ rcv' = "select"
    /\ m_hFileTransEvent' = TRUE
    /\ UNCHANGED <<callVars, tempfile, m_NameFileTransRspMap, toBoard, fromBoard, boardVars>>

-----------------------------------------------------------------------------
(* The boards, external: a request is carried out, or fails, and then       *)
(* answered with the u32TransId it came with.                               *)
Answer(p, req, result) ==
    /\ toBoard' = [toBoard EXCEPT ![p] = Tail(@)]
    /\ fromBoard' = [fromBoard EXCEPT ![p] =
                         Append(@, [id |-> req.id, transId |-> req.transId, result |-> result])]

BoardTransfer(p) ==
    /\ up[p] /\ toBoard[p] # <<>>
    /\ LET req == Head(toBoard[p])
       IN  \/ Answer(p, req, "error") /\ UNCHANGED <<tempfile, stored>>
           \/ /\ req.op = "download" /\ tempfile # 0
              /\ Answer(p, req, "ok")
              /\ stored' = [stored EXCEPT ![req.id] = tempfile] /\ UNCHANGED tempfile
           \/ /\ req.op = "upload"
              /\ Answer(p, req, "ok")
              /\ tempfile' = req.id /\ UNCHANGED stored
    /\ UNCHANGED <<callVars, m_hFileTransEvent, rcvVars, up, outages>>

(* The board reboots: the requests it has not read are gone. *)
BoardDown(p) ==
    /\ up[p] /\ outages < MaxOutages
    /\ up' = [up EXCEPT ![p] = FALSE] /\ outages' = outages + 1
    /\ toBoard' = [toBoard EXCEPT ![p] = <<>>]
    /\ UNCHANGED <<callVars, tempfile, m_hFileTransEvent, rcvVars, fromBoard, stored>>

-----------------------------------------------------------------------------
Next ==
    \/ \E p \in Procs : DownloadFile(p) \/ UploadFile(p)
    \/ SendDownload \/ FileTransTimeout \/ TakeFileTransRsp \/ CopyUploaded
    \/ \E p \in Procs : DealMsg(p)
    \/ SetFileTransEvent
    \/ \E p \in Procs : BoardTransfer(p) \/ BoardDown(p)

Spec == Init /\ [][Next]_vars

-----------------------------------------------------------------------------
(* Properties *)

Succeeded == {call \in returned : call.code = TESTCASE_SUCCESS}
NoTimeout == \A call \in returned : call.why # "timeout"

(* Whatever timed out before, and although answers stay in the map and the  *)
(* event may have been set by any board, a transfer succeeds only on the    *)
(* answer to its own request (the check after m_NameFileTransRspMap.find).  *)
(* The one exception is what the doubling leaves: once an id has been given *)
(* out for every bit they are all 0, and from then on a transfer may also   *)
(* succeed on the answer to another transfer of that time.                  *)
SuccessOnOwnAnswer == \A call \in Succeeded : call.answer = call.id \/ call.answer >= IdBits

(* WorkManager.cpp:440: the answer is compared with the id of the request,  *)
(* so that a success is always the request's own.                           *)
SuccessAlwaysOnOwnAnswer == \A call \in Succeeded : call.answer = call.id

(* As long as no transfer has timed out, one that succeeds has delivered    *)
(* its own file through the temporary file they all share.                  *)
OwnFileWhileNoTimeout == NoTimeout => \A call \in Succeeded : call.got = call.id

(* Between calls the temporary file is never one that a download has put    *)
(* there, whichever way it returned, nor one that an upload has copied away *)
(* after its own answer: each path of DownloadFile behind the copy deletes  *)
(* it, and a late board stores a file only before it answers.               *)
TempFileDeleted ==
    pc = "idle" => ~\E call \in returned :
        /\ call.id = tempfile
        /\ call.op = "download" \/ (call.code = TESTCASE_SUCCESS /\ call.answer = call.id)

(* WorkManager.cpp:373: the file is copied to tempfile, and tempfile is     *)
(* downloaded to the board.  So a download that succeeds has delivered it.  *)
DownloadedIsTheFile ==
    \A call \in Succeeded : call.op = "download" => call.got = call.id

=============================================================================
