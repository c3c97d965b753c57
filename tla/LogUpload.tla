----------------------------- MODULE LogUpload -----------------------------
(***************************************************************************)
(* Uploading logs (resources/LogHelper.robot): a keyword tells the board   *)
(* over SNMP which logs to send to a directory by FTP and then polls the   *)
(* directory.  Board Log File Upload looks for the logs of a list of types *)
(* once a second (isBoardLogFileExists); RRU Log File Upload is the former *)
(* with a single key and is not modelled apart.  Log File Upload makes a   *)
(* row of its own in the board's table of transfers, under an index it has *)
(* read before, and looks ten times, every three seconds, for one log      *)
(* (IsLogFileExists).  The board writes the files when it gets to them, or *)
(* never, other managers make transfers too, and any SNMP request may fail *)
(* (SnmpLibrary raises for every failure), done by the board or not.       *)
(***************************************************************************)
EXTENDS Integers, Sequences, FiniteSets, SequencesExt

CONSTANTS KeyList,   \* the keys looked for, in the order of file_keyname_list
          Files,     \* the files there may be
          KeysOf,    \* the keys found in the name of each file
          OldFiles,  \* files an earlier upload left in the directory
          CwdFiles,  \* files in the working directory of the tests
          Limit,     \* 200 in the code
          Looks    \* 10 in the code

Keys == ToSet(KeyList)

\* A key is a slot, a processor and a type.  The list of types ends with ";"
\* (read_xml_of_board_log), so the last type is empty and its key is in the
\* name of every log: a name may have several keys.  The tests are not run
\* from a directory of logs.
ASSUME LogUploadAssumption ==
  /\ KeyList \in Seq(Keys) /\ IsInjective(KeyList) /\ {Limit, Looks} \subseteq Nat \ {0}
  /\ IsFiniteSet(Files) /\ KeysOf \in [Files -> SUBSET Keys]
  /\ OldFiles \subseteq Files /\ CwdFiles \subseteq Files
  /\ \A f \in CwdFiles : KeysOf[f] = {}

VARIABLES keyword,            \* Board or Log
          dirExists,          \* the directory of the upload is there
          dir,                \* the files in it
          uploaded,           \* those of them written for this request
          row,                \* whose the row under the index is, "none" if there is none
          index,              \* of the loop of Log File Upload
          pc,                 \* index, get, del, set and look of Log File Upload; or
                              \* command, sleep, list, files and keys; done
          wait_seconds,       \* one more than Limit stands for all beyond it
          listing,            \* what is left of os.listdir's answer
          file_keyname_list,  \* the keys not seen yet
          at,                 \* where the loop over them is
          ret,                \* the answer, "none" before there is one
          listed              \* history: the listings that each file was in, to the limit

board == <<dirExists, dir, uploaded>>
keywordVars == <<keyword, index, pc, wait_seconds, listing, file_keyname_list, at, ret, listed>>
logVars == <<board, row, keywordVars>>
kept == <<keyword, board, row, index>>   \* by the loop for a list of logs
loop == <<wait_seconds, listing, file_keyname_list, at>>

LogInit ==
  /\ dirExists \in BOOLEAN /\ dir \in SUBSET OldFiles /\ (dirExists \/ dir = {})
  /\ uploaded = {}
  /\ keyword \in {"Board", "Log"} /\ row \in {"none", "old"} /\ index = 0
  /\ pc = (IF keyword = "Board" THEN "command" ELSE "index")
  /\ wait_seconds = 0 /\ listing = <<>> /\ file_keyname_list = KeyList
  /\ at = 1 /\ ret = "none" /\ listed = [f \in Files |-> 0]

\* The keyword goes on, or SnmpLibrary raises and it fails.
Goes(next) == pc' = next /\ UNCHANGED ret
Raises == pc' = "done" /\ ret' = "Error"

\* Nothing is returned once the limit is over.
Seen(files) ==
  listed' = [f \in Files |-> IF f \in files /\ wait_seconds <= Limit THEN listed[f] + 1 ELSE listed[f]]

-----------------------------------------------------------------------------
\* Set Many By Name: the board is told what to upload, and where to.
Command ==
  /\ pc = "command" /\ (Goes("sleep") \/ Raises)
  /\ UNCHANGED <<kept, loop, listed>>

\* The board writes a log; its FTP server does not make the directory.
UploadFile(f) ==
  /\ pc \notin {"command", "index", "get", "del", "set", "done"} /\ (keyword = "Log" => row = "ours")
  /\ dirExists /\ f \notin dir
  /\ dir' = dir \cup {f} /\ uploaded' = uploaded \cup {f}
  /\ UNCHANGED <<dirExists, row, keywordVars>>

Sleep ==
  /\ pc = "sleep" /\ pc' = "list"
  /\ wait_seconds' = IF wait_seconds > Limit THEN wait_seconds ELSE wait_seconds + 1
  /\ UNCHANGED <<kept, listing, file_keyname_list, at, ret, listed>>

\* os.listdir: the names in any order.
Listdir ==
  /\ pc = "list" /\ dirExists /\ pc' = "files"
  /\ listing' \in SetToSeqs(dir) /\ Seen(dir)
  /\ UNCHANGED <<kept, wait_seconds, file_keyname_list, at, ret>>

\* os.listdir(os.makedirs(ftp_dir)): makedirs returns nothing, and listdir
\* of nothing lists the working directory.
ListdirMakedirs ==
  /\ pc = "list" /\ ~dirExists /\ pc' = "files"
  /\ dirExists' = TRUE /\ listing' \in SetToSeqs(CwdFiles) /\ Seen(dir)
  /\ UNCHANGED <<keyword, dir, uploaded, row, index, wait_seconds, file_keyname_list, at, ret>>

\* The loop over the files goes on, or "while True" starts anew.
NextFile ==
  /\ pc = "files"
  /\ pc' = IF listing = <<>> THEN "sleep" ELSE "keys"
  /\ at' = 1
  /\ UNCHANGED <<kept, wait_seconds, listing, file_keyname_list, ret, listed>>

\* The list is iterated by position and shortened on the way: the key after
\* a removed one is passed over.
CheckKey ==
  /\ pc = "keys" /\ at <= Len(file_keyname_list)
  /\ \/ /\ file_keyname_list[at] \in KeysOf[Head(listing)]
        /\ file_keyname_list' = RemoveAt(file_keyname_list, at)
     \/ /\ file_keyname_list[at] \notin KeysOf[Head(listing)]
        /\ UNCHANGED file_keyname_list
  /\ at' = at + 1
  /\ UNCHANGED <<kept, pc, wait_seconds, listing, ret, listed>>

KeysChecked == pc = "keys" /\ at > Len(file_keyname_list)

\* Mutant: one key is enough.
BugAnyKey ==
  /\ KeysChecked /\ file_keyname_list # KeyList
  /\ ret' = "True" /\ pc' = "done"
  /\ UNCHANGED <<kept, wait_seconds, listing, file_keyname_list, at, listed>>

ReturnTrue ==
  /\ KeysChecked /\ file_keyname_list = <<>>
  /\ ret' = "True" /\ pc' = "done"
  /\ UNCHANGED <<kept, wait_seconds, listing, file_keyname_list, at, listed>>

\* Mutant: never.
BugNoLimit == FALSE /\ UNCHANGED logVars

ReturnFalse ==
  /\ KeysChecked /\ file_keyname_list # <<>> /\ wait_seconds = Limit
  /\ ret' = "False" /\ pc' = "done"
  /\ UNCHANGED <<kept, wait_seconds, listing, file_keyname_list, at, listed>>

\* Mutant: the round ends with its first file.
BugFirstFileOnly ==
  /\ KeysChecked /\ file_keyname_list # <<>> /\ wait_seconds # Limit
  /\ listing' = <<>> /\ pc' = "files"
  /\ UNCHANGED <<kept, wait_seconds, file_keyname_list, at, ret, listed>>

FileDone ==
  /\ KeysChecked /\ file_keyname_list # <<>> /\ wait_seconds # Limit
  /\ listing' = Tail(listing) /\ pc' = "files"
  /\ UNCHANGED <<kept, wait_seconds, file_keyname_list, at, ret, listed>>

-----------------------------------------------------------------------------
\* The two Get By Name: the index is read.
GetIndex ==
  /\ pc = "index" /\ (Goes("get") \/ Raises)
  /\ UNCHANGED <<kept, loop, listed>>

\* Get With Error By Name: is there a row under the index read before?  One
\* that is not raises or gives an error, as the version of SNMP has it.
DelLineGet ==
  /\ pc = "get"
  /\ (row # "none" /\ Goes("del")) \/ Goes("set") \/ Raises
  /\ UNCHANGED <<kept, loop, listed>>

\* If so it is destroyed, whoever made it.
DelLine ==
  /\ pc = "del"
  /\ \/ row' = "none" /\ Goes("set")
     \/ row' \in {row, "none"} /\ Raises
  /\ UNCHANGED <<keyword, board, index, loop, listed>>

\* Set Many By Name: createAndGo, refused if the row is there.
SetRow ==
  /\ pc = "set"
  /\ \/ row = "none" /\ row' = "ours" /\ Goes("look")
     \/ (row' = row \/ (row = "none" /\ row' = "ours")) /\ Raises
  /\ UNCHANGED <<keyword, board, index, loop, listed>>

\* Another manager is given the same index, and makes its row there.
OtherRow ==
  /\ keyword = "Log" /\ pc # "done" /\ row # "other"
  /\ row' = "other"
  /\ UNCHANGED <<board, keywordVars>>

\* IsLogFileExists and the wait after it.  A directory that is not there raises.
Look ==
  /\ pc = "look" /\ Seen(dir)
  /\ \/ /\ ~dirExists /\ Raises /\ UNCHANGED index
     \/ /\ dirExists /\ \E f \in dir : Head(KeyList) \in KeysOf[f]
        /\ ret' = "True" /\ pc' = "done" /\ UNCHANGED index
     \/ /\ dirExists /\ \A f \in dir : Head(KeyList) \notin KeysOf[f]
        /\ index' = index + 1
        /\ IF index' = Looks THEN ret' = "False" /\ pc' = "done" ELSE UNCHANGED <<ret, pc>>
  /\ UNCHANGED <<keyword, board, row, loop>>

Poll ==
  \/ GetIndex \/ DelLineGet \/ DelLine \/ SetRow \/ Look
  \/ Command \/ Sleep \/ Listdir \/ ListdirMakedirs \/ NextFile
  \/ CheckKey \/ ReturnTrue \/ ReturnFalse \/ FileDone

LogNext == Poll \/ OtherRow \/ \E f \in Files \ (OldFiles \cup CwdFiles) : UploadFile(f)

LogSpec == LogInit /\ [][LogNext]_logVars

\* The test goes on; the board need not.
LogFairSpec == LogSpec /\ WF_logVars(Poll)

-----------------------------------------------------------------------------
LogTypeOK ==
  /\ dirExists \in BOOLEAN /\ dir \subseteq Files /\ uploaded \subseteq dir
  /\ keyword \in {"Board", "Log"} /\ row \in {"none", "old", "ours", "other"}
  /\ index \in 0 .. Looks
  /\ pc \in {"index", "get", "del", "set", "look", "command", "sleep", "list", "files", "keys", "done"}
  /\ wait_seconds \in 0 .. Limit + 1 /\ listing \in Seq(Files)
  /\ file_keyname_list \in Seq(Keys) /\ at \in 1 .. Len(KeyList) + 1
  /\ ret \in {"none", "True", "False", "Error"} /\ listed \in [Files -> Nat]

\* Log File Upload looks for one log, the first.
Sought == IF keyword = "Log" THEN {Head(KeyList)} ELSE Keys

Missing(files) == {k \in Sought : \A f \in files : k \notin KeysOf[f]}

(* True is returned only if the directory holds a file for every key,      *)
(* although keys are taken out of the list while it is iterated            *)
(* (CiUtils.py:204-216, 357-364).                                          *)
TrueMeansThere == ret = "True" => Missing(dir) = {}

(* False is returned only if a log that was looked for has been in no more *)
(* listings than its name has keys: a round takes at least one key of the  *)
(* name out of the list, however many keys are passed over behind the      *)
(* removed ones, and the round of the limit stops at its first file.  Log  *)
(* File Upload has not seen its log once (CiUtils.py:204-216, 357-366).    *)
FalseMeansMissing ==
  ret = "False" => \E k \in Sought : \A f \in Files :
    k \in KeysOf[f] => listed[f] <= (IF keyword = "Log" THEN 0 ELSE Cardinality(KeysOf[f]))

(* Log File Upload returns, and the others do once a file is in the        *)
(* directory before the limit: the limit is only tested in the loop over   *)
(* the files (LogHelper.robot:44-48, CiUtils.py:365).                      *)
ReturnsOnceAnyFile ==
  (\/ keyword = "Log"
   \/ pc = "sleep" /\ dirExists /\ dir # {} /\ wait_seconds < Limit) ~> pc = "done"

(* The call answers with True or False (CiUtils.py:220-221, "返回bool").     *)
AlwaysReturns == <>(pc = "done")

(* True is returned only if the board uploaded every log it was asked for: *)
(* "检查文件是否上传成功" (LogHelper.robot:64, 114).                           *)
TrueMeansUploaded == ret = "True" => Missing(uploaded) = {}

(* No other manager's transfer is destroyed.  Violated: the index is free  *)
(* when it is read, and whoever has it by then loses its row               *)
(* (LogHelper.robot:29-32).                                                *)
OthersRowIsKept == [][row = "other" => row' = "other"]_logVars
=============================================================================
