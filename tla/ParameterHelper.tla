--------------------------- MODULE ParameterHelper ---------------------------
(***************************************************************************)
(* The parameters of execute_command as the test scripts write them, and   *)
(* what ParameterHelper.py makes of them: a number, or a buffer of bytes.  *)
(*   12             a number               [kind, value]                   *)
(*   I[1,2]         an array of numbers    [kind, size, values]            *)
(*   'abc'          a string               [kind, text]                    *)
(*   <8,[N;4;0;2],[S;3;4;abc]>   a struct  [kind, total, items]            *)
(* anything else is [kind |-> "other"].  A text is a list of bytes, and a  *)
(* byte is a number below Base.  How the texts are taken apart and how     *)
(* decimal and hexadecimal digits are read is left out.                    *)
(***************************************************************************)
EXTENDS Integers, Sequences, SequencesExt

CONSTANT Base   \* the values of a byte, 256 in the code

ASSUME BaseAssumption == Base \in Nat /\ Base > 1

Byte == 0 .. Base - 1

\* The values of n bytes.
Power[n \in Nat] == IF n = 0 THEN 1 ELSE Base * Power[n - 1]

\* number.to_bytes: what does not fit raises OverflowError.
Fits(v, size) == v \in 0 .. Power[size] - 1
to_bytes(v, size) == [k \in 1 .. size |-> (v \div Power[k - 1]) % Base]

\* int.from_bytes(s, "little").
from_bytes(s) == FoldRight(LAMBDA b, rest : b + Base * rest, s, 0)

\* The values of four bytes.
Word == Base * Base * Base * Base

\* A number in a c_int of four bytes: ctypes does not mind its size.
c_int(v) == ((v + Word \div 2) % Word) - (Word \div 2)

\* buf[index : index + width] = s, for what Python calls a slice.
SliceAssign(buf, index, width, s) ==
  SubSeq(buf, 1, index) \o s \o SubSeq(buf, index + width + 1, Len(buf))

ItemBytes(item) == IF item.type = "N" THEN to_bytes(item.value, item.size) ELSE item.text

\* Mutant: the declared size is replaced, whatever is put in its place.
BugPutItem(buf, item) == SliceAssign(buf, item.index, item.size, ItemBytes(item))

\* The size an item declares counts for a number only.
PutItem(buf, item) == SliceAssign(buf, item.index, Len(ItemBytes(item)), ItemBytes(item))

\* An index out of range raises as well: NameError, in the wording of the error.
ItemRaises(t, item) ==
  \/ item.index >= t.total
  \/ item.type \notin {"S", "N"}
  \/ item.type = "N" /\ ~Fits(item.value, item.size)

Raises(t) ==
  \/ t.kind = "other"
  \/ t.kind = "array" /\ (t.values = <<>> \/ \E k \in DOMAIN t.values : ~Fits(t.values[k], t.size))
  \/ t.kind = "struct" /\ \E k \in DOMAIN t.items : ItemRaises(t, t.items[k])

\* The bytes of a buffer.  One that has grown is used up to its total.
Buf(t) ==
  CASE t.kind = "number" -> <<>>
    [] t.kind = "array"  -> FlattenSeq([k \in DOMAIN t.values |-> to_bytes(t.values[k], t.size)])
    [] t.kind = "string" -> t.text
    [] t.kind = "struct" ->
         SubSeq(FoldLeft(PutItem, [k \in 1 .. t.total |-> 0], t.items), 1, t.total)

\* s32ParaType and s32ParaVal: 1 and the number, or 2 and the buffer's length.
Parameter(t) ==
  IF t.kind = "number" THEN [s32ParaType |-> 1, s32ParaVal |-> c_int(t.value)]
                       ELSE [s32ParaType |-> 2, s32ParaVal |-> Len(Buf(t))]

create_testcase_parameters(ts) == [j \in DOMAIN ts |-> Parameter(ts[j])]
=============================================================================
