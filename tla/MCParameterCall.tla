--------------------------- MODULE MCParameterCall ---------------------------
\* A byte has four values.  Scripts write every kind of parameter alone and
\* most kinds in pairs, three of them, and more than the limit; other callers
\* state lists that fit, that end over the area and that hold an unknown type.
EXTENDS ParameterCall

Number == [s32ParaType |-> 1, s32ParaVal |-> 7]
Unknown == [s32ParaType |-> 3, s32ParaVal |-> 7]
Buffer(len) == [s32ParaType |-> 2, s32ParaVal |-> len]

MCOthers ==
  {<<>>, <<Unknown>>, <<Number, Number, Number, Number>>, <<Buffer(9), Buffer(9)>>,
   <<Buffer(9)>>, <<Buffer(0), Buffer(4)>>, <<Buffer(3), Number, Buffer(1)>>}
MCPieces == (BoundedSeq({Empty, 1}, 2) \ {<<>>}) \cup {<<1, 2, 2>>}

N(size, index, value) == [type |-> "N", size |-> size, index |-> index, value |-> value]
S(size, index, text) == [type |-> "S", size |-> size, index |-> index, text |-> text]
Struct(total, items) == [kind |-> "struct", total |-> total, items |-> items]
Num(value) == [kind |-> "number", value |-> value]
Array(size, values) == [kind |-> "array", size |-> size, values |-> values]
String(text) == [kind |-> "string", text |-> text]

\* Numbers that fit and that do not, strings of three and of four bytes, items
\* in order, over one another, over the end and out of range.
MCText ==
  {Num(300), Num(-1), Array(2, <<16>>), Array(4, <<200>>), Struct(4, <<>>),
   Struct(6, <<N(2, 0, 7), S(2, 2, <<1, 2, 3>>), N(2, 4, 9)>>),
   Struct(3, <<N(2, 2, 6), N(1, 0, 2)>>), Struct(2, <<N(1, 2, 1)>>), [kind |-> "other"]}
MCPaired ==
  {String(<<1, 2, 3>>), String(<<1, 2, 3, 1>>), String(<<>>), Num(5), Array(1, <<1, 3>>),
   Struct(6, <<N(2, 4, 6), S(1, 1, <<1, 2, 3>>)>>)}
MCTexts ==
  BoundedSeq(MCPaired, 2) \cup {<<t>> : t \in MCText}
  \cup {<<Array(1, <<1>>), Num(5), Array(2, <<9>>)>>, <<Num(5), Num(5), Num(5), Num(5)>>}
MCParameters ==
  MCOthers \cup {create_testcase_parameters(ts) :
                  ts \in {ts \in MCTexts : \A j \in DOMAIN ts : ~Raises(ts[j])}}
=============================================================================
