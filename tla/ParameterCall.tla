---------------------------- MODULE ParameterCall ----------------------------
(***************************************************************************)
(* A call of the test scripts with its parameters as they are written:     *)
(* execute_command has ParameterHelper convert them and hands the result   *)
(* to TestCase_ExcuteCmd, which ParameterMarshalling is about.  Other      *)
(* callers of the library state their parameters themselves.               *)
(***************************************************************************)
EXTENDS ParameterMarshalling, ParameterHelper

CONSTANTS Texts,   \* the parameter lists a script may write
          Others   \* the ones other callers state

\* Parameters holds them all, and a number is one.
ASSUME CallsAssumption ==
  /\ Others \subseteq Parameters
  /\ \A ts \in Texts : \A j \in DOMAIN ts : ts[j].kind = "number" => ts[j].value \in Int
  /\ \A ts \in Texts : (\A j \in DOMAIN ts : ~Raises(ts[j])) =>
                         create_testcase_parameters(ts) \in Parameters

\* What a script writes: the indices and sizes of the test suites are naturals
\* (a negative index, counted from the end of the buffer, is not modelled).
IsItem(item) ==
  /\ item.index \in Nat
  /\ item.type = "N" => item.size \in Nat /\ item.value \in Int
  /\ item.type = "S" => item.text \in Seq(Byte)

IsText(t) ==
  \/ t.kind \in {"number", "other"}
  \/ t.kind = "array" /\ t.size \in Nat /\ t.values \in Seq(Int)
  \/ t.kind = "string" /\ t.text \in Seq(Byte)
  \/ /\ t.kind = "struct" /\ t.total \in Nat /\ DOMAIN t.items = 1 .. Len(t.items)
     /\ Len(t.items) \in Nat /\ \A i \in DOMAIN t.items : IsItem(t.items[i])

ASSUME TextsAssumption == \A ts \in Texts : \A j \in DOMAIN ts : IsText(ts[j])

VARIABLE texts   \* the list of this call, <<>> if another caller makes it

callVars == <<vars, texts>>

CallInit == Init /\ texts = <<>>

\* execute_command with parameters that can be converted.
ExecuteCommand(n, ts) ==
  /\ \A j \in DOMAIN ts : ~Raises(ts[j])
  /\ texts' = ts
  /\ \/ ExcuteCmd(n, create_testcase_parameters(ts))
     \/ ExcuteCmdTooMany(create_testcase_parameters(ts))

\* One that cannot: the exception leaves the caller where it was.
ExecuteCommandRaises(ts) ==
  /\ pc = "idle" /\ \E j \in DOMAIN ts : Raises(ts[j])
  /\ UNCHANGED callVars

ByOthers(n) ==
  /\ texts' = <<>>
  /\ \/ \E ps \in Others : ExcuteCmd(n, ps) \/ ExcuteCmdTooMany(ps)
     \/ \E ps \in Pieces : ExcuteCmdText(n, ps)

Within ==
  /\ UNCHANGED texts
  /\ \/ FillNumber \/ FillBuffer \/ FillRefused \/ SendRequest
     \/ \E written \in SUBSET Buffers, len \in {0, u32DataAreaLen} : DealRsp2(written, len)
     \/ \E written \in SUBSET Buffers, area \in owed : DealLateRsp2(area, written)
     \/ \E written \in SUBSET Buffers : TimesOut(written)
     \/ NotExecuted \/ WriteBack

CallBack == BackInCaller /\ texts' = <<>>

CallNext ==
  \/ \E n \in NameLengths : ByOthers(n) \/ \E ts \in Texts : ExecuteCommand(n, ts)
  \/ \E ts \in Texts : ExecuteCommandRaises(ts)
  \/ Within \/ CallBack

CallSpec == CallInit /\ [][CallNext]_callVars

-----------------------------------------------------------------------------
\* A byte of the request as the board sees it; the name has none of interest.
ByteAt(x) ==
  LET b == u8DataArea[x]
  IN CASE b[1] = "pc" -> Buf(texts[b[2]])[b[3]] [] b = Zero -> 0 [] OTHER -> -1

BytesAt(x, len) == [k \in 1 .. len |-> ByteAt(x + k - 1)]

\* What the script wrote into a buffer, as the items of a struct.
Items(t) ==
  CASE t.kind = "struct" -> t.items
    [] t.kind = "string" -> <<[type |-> "S", size |-> Len(t.text), index |-> 0, text |-> t.text]>>
    [] t.kind = "array"  -> [k \in DOMAIN t.values |->
         [type |-> "N", size |-> t.size, index |-> t.size * (k - 1), value |-> t.values[k]]]
    [] t.kind = "number" -> <<>>

Total(t) == Len(Buf(t))
Width(item) == IF item.type = "N" THEN item.size ELSE Len(item.text)

\* Nothing written later reaches into the item, and it ends within the buffer.
Apart(t, i, width(_)) ==
  LET its == Items(t)
  IN /\ its[i].index + Width(its[i]) <= Total(t)
     /\ \A k \in i + 1 .. Len(its) : \/ its[k].index >= its[i].index + width(its[i])
                                     \/ its[i].index >= its[k].index + width(its[k])

Arrived(x, item) ==
  IF item.type = "N" THEN from_bytes(BytesAt(x, item.size)) = item.value
                     ELSE BytesAt(x, Len(item.text)) = item.text

Sent == pc \in {"sent", "answered"} /\ texts # <<>>

(* Every number and string a script writes into an array, a string or a    *)
(* struct stands in the request, at its index in the buffer's place, with  *)
(* its value in as many bytes as it has: unless something written later    *)
(* goes over it or it is written over the end                              *)
(* (ParameterHelper.py:82-155, WorkManager.cpp:1433-1457).                 *)
FieldsArrive ==
  Sent => \A j \in DOMAIN texts : LET its == Items(texts[j]) IN
    \A i \in DOMAIN its :
      Apart(texts[j], i, Width) => Arrived(Start(j) + its[i].index, its[i])

(* A string ends on the board where the script ended it, with a zero, if   *)
(* another buffer follows and the string's length is no multiple of four:  *)
(* the zero is the gap the alignment leaves in the cleared data area       *)
(* (ParameterHelper.py:157-159, WorkManager.cpp:1397, 1434-1438).          *)
StringsEnd ==
  Sent => \A j \in DOMAIN texts :
    texts[j].kind = "string" /\ Len(texts[j].text) % 4 # 0 /\ End(j) < u32DataAreaLen
      => u8DataArea[End(j)] = Zero

(* The numbers of a call reach the request in their order: those a script  *)
(* states up to a multiple of 2^32, and those written behind the function  *)
(* name if nothing is missing between their commas                         *)
(* (ParameterHelper.py:167-170, WorkManager.cpp:253-271, 1420-1430).       *)
NumbersArrive ==
  pc = "sent" =>
    /\ \A j \in DOMAIN texts : texts[j].kind = "number" =>
         (struCmdPara[j].s32ParaVal - texts[j].value) % Word = 0
    /\ pieces # <<>> /\ (\A j \in DOMAIN pieces : pieces[j] # Empty) =>
         [j \in DOMAIN struCmdPara |-> struCmdPara[j].s32ParaVal] = pieces

(* The items of a struct whose declared sizes keep apart all arrive.       *)
(* Violated: a string longer than the size it declares is written all the  *)
(* same, over what stood behind it (ParameterHelper.py:108, 119-121).      *)
DeclaredFieldsArrive ==
  Sent => \A j \in DOMAIN texts : LET its == Items(texts[j]) IN
    \A i \in DOMAIN its :
      Apart(texts[j], i, LAMBDA item : item.size) => Arrived(Start(j) + its[i].index, its[i])

(* Every string that another buffer follows ends.  Violated: one whose     *)
(* length is a multiple of four runs into the next buffer, for it has no   *)
(* zero of its own (ParameterHelper.py:157-159).                           *)
EveryStringEnds ==
  Sent => \A j \in DOMAIN texts :
    texts[j].kind = "string" /\ End(j) < u32DataAreaLen => u8DataArea[End(j)] = Zero

(* A number arrives as it is.  Violated: c_int takes any number and keeps  *)
(* its lower four bytes, where to_bytes of an array would raise            *)
(* (ParameterHelper.py:149, 170).                                          *)
NumbersAreExact ==
  pc = "sent" => \A j \in DOMAIN texts :
    texts[j].kind = "number" => struCmdPara[j].s32ParaVal = texts[j].value
=============================================================================
