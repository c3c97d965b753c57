------------------------- MODULE ParameterCallProofs -------------------------
(***************************************************************************)
(* Theorems about the parameters of a call.  The first part is about the   *)
(* library, whoever calls it: the layout of a request and the write-back,  *)
(* for every size of the data area, every list of parameters and every     *)
(* function text.  The second shows that the test scripts' calls are among *)
(* them, and what becomes of the parameters as a script writes them.  The  *)
(* third is about their conversion, whose functions are recursive: the     *)
(* folds and FlattenSeq are known to the provers once a function that      *)
(* satisfies the recursion is shown to exist, and what they compute is     *)
(* shown by induction over the set of the numbers for which it holds.      *)
(***************************************************************************)
EXTENDS ParameterCall, FiniteSetTheorems, SequenceTheorems, WellFoundedInduction, TLAPS

ParaType == [s32ParaType : Nat, s32ParaVal : Int]
CmdParaType == [s32ParaType : {NUMBER, BUFFER}, s32ParaLen : Nat,
                s32ParaVal : Int, s32ParaDataIndex : Nat]

(* The adjustment to four bytes goes forward, to a multiple of four. *)
LEMMA AlignedFacts ==
    ASSUME NEW len \in Nat
    PROVE  Aligned(len) \in Nat /\ Aligned(len) % 4 = 0 /\ len <= Aligned(len)
  BY DEF Aligned

(* A non-empty set of naturals has a least element. *)
LEMMA LeastNatural ==
    ASSUME NEW T \in SUBSET Nat, T # {}
    PROVE  \E x \in T : \A y \in T : x <= y
  <1>1. PICK x \in T : \A y \in T : ~ (<<y, x>> \in OpToRel(<, Nat))
    BY NatLessThanWellFounded, WFMin
  <1>2. \A y \in T : ~(y < x)
    BY <1>1 DEF OpToRel
  <1> QED
    BY <1>2

(* The pieces of a function text end somewhere, so the parameters cut out  *)
(* of it are a list of numbers.                                            *)
LEMMA CutFacts ==
    ASSUME NEW ps \in Seq(Int), ps # <<>>
    PROVE  /\ CutParameters(ps) \in Seq(ParaType)
           /\ \A j \in DOMAIN CutParameters(ps) : CutParameters(ps)[j].s32ParaType = NUMBER
  <1>1. Len(ps) \in Nat \ {0} /\ DOMAIN ps = 1 .. Len(ps) /\ \A k \in DOMAIN ps : ps[k] \in Int
    BY EmptySeq, LenProperties, ElementOfSeq
  <1>2. Stops(ps) \in SUBSET Nat /\ Len(ps) \in Stops(ps)
    BY <1>1 DEF Stops
  <1>3. \E k \in Stops(ps) : \A m \in Stops(ps) : k <= m
    BY <1>2, LeastNatural
  <1>4. StopsAt(ps) \in Stops(ps)
    BY <1>3 DEF StopsAt
  <1>5. StopsAt(ps) \in 1 .. Len(ps)
    BY <1>1, <1>4 DEF Stops
  <1>6. \A j \in 1 .. StopsAt(ps) : strtoul(ps[j]) \in Int
    <2>1. \A j \in 1 .. StopsAt(ps) : ps[j] \in Int
      BY <1>1, <1>5
    <2> QED BY <2>1 DEF strtoul
  <1>7. CutParameters(ps) \in [1 .. StopsAt(ps) -> ParaType]
    BY <1>6 DEF CutParameters, ParaType, NUMBER
  <1>8. CutParameters(ps) \in Seq(ParaType)
    BY <1>5, <1>7
  <1> QED
    BY <1>8 DEF CutParameters

(* Copying a text into the area puts its bytes at their places and leaves  *)
(* what is in front of it and behind it.                                   *)
LEMMA CopiedFacts ==
    ASSUME NEW area \in Areas, NEW at \in Nat, NEW s \in Seq(Bytes)
    PROVE  /\ Copied(area, at, s) \in Areas
           /\ \A x \in 0 .. AreaSize - 1 :
                x < at \/ at + Len(s) <= x => Copied(area, at, s)[x] = area[x]
           /\ \A k \in 1 .. Len(s) :
                at + k <= AreaSize => Copied(area, at, s)[at + k - 1] = s[k]
  <1>1. Len(s) \in Nat /\ DOMAIN s = 1 .. Len(s) /\ \A k \in DOMAIN s : s[k] \in Bytes
    BY LenProperties, ElementOfSeq
  <1>2. DOMAIN area = 0 .. AreaSize - 1 /\ \A x \in 0 .. AreaSize - 1 : area[x] \in Bytes
    BY DEF Areas
  <1>3. AreaSize \in Nat
    BY SizesAssumption
  <1> QED
    BY <1>1, <1>2, <1>3 DEF Copied, Areas

(* A cleared area is an area of zero bytes. *)
LEMMA ClearedFacts ==
    Cleared \in Areas /\ \A x \in 0 .. AreaSize - 1 : Cleared[x] = Zero
  BY DEF Cleared, Areas, Zero, Bytes

(* What a writer leaves in a buffer is a list of bytes. *)
LEMMA ContentFacts ==
    ASSUME NEW w \in {"none", "name", "pc", "board"}, NEW j \in Nat, NEW len \in Nat
    PROVE  /\ Content(w, j, len) \in Seq(Bytes) /\ Len(Content(w, j, len)) = len
           /\ \A k \in 1 .. len : Content(w, j, len)[k] = <<w, j, k>>
  <1>1. Content(w, j, len) \in [1 .. len -> Bytes]
    BY DEF Content, Bytes
  <1> QED
    BY <1>1 DEF Content

-----------------------------------------------------------------------------
InCall == pc \in {"filling", "sent", "answered"}

(* Between calls nothing is held; the result is there once a call returned. *)
Between ==
    /\ pc = "idle" => pstruParas = <<>> /\ struCmdPara = <<>> /\ pieces = <<>>
    /\ pc # "returned" => result = NoResult

(* Where the parameters come from: the caller, or the function text. *)
Stated ==
    InCall => /\ pieces # <<>> => pstruParas = CutParameters(pieces)
              /\ \A j \in DOMAIN struCmdPara \ FilledBuffers : struCmdPara[j].s32ParaVal = pstruParas[j].s32ParaVal

(* The parameters are filled in one after the other, behind the name, and  *)
(* the caller's buffers wait untouched.                                    *)
Filling ==
    InCall => /\ nameLen < u32DataAreaLen /\ Len(struCmdPara) <= Len(pstruParas)
              /\ pc # "filling" => Len(struCmdPara) = Len(pstruParas)
              /\ \A j \in Buffers : pParaBuf[j] = Content("pc", j, pstruParas[j].s32ParaVal)

(* What was copied into the data area so far is still there, and what was   *)
(* not copied into is clear: behind all of it, and between two buffers.     *)
Held ==
    InCall => /\ \A k \in 1 .. nameLen : u8DataArea[k - 1] = <<"name", 0, k>>
              /\ u8DataArea[nameLen] = Zero
              /\ \A j \in FilledBuffers : \A k \in 1 .. pstruParas[j].s32ParaVal :
                   u8DataArea[Start(j) + k - 1] = <<"pc", j, k>>
              /\ \A x \in 0 .. AreaSize - 1 : u32DataAreaLen <= x => u8DataArea[x] = Zero
              /\ \A j \in FilledBuffers :
                   End(j) < u32DataAreaLen /\ End(j) % 4 # 0 => u8DataArea[End(j)] = Zero

(* The board wrote nothing into the request as it is sent. *)
PcOnly == \A x \in 0 .. AreaSize - 1 : u8DataArea[x][1] # "board"

(* The RSP2 of the request holds, at the place of a buffer, that buffer's  *)
(* bytes, and the board's bytes nowhere else.                              *)
Answer ==
    pc = "answered" /\ own =>
        /\ \A j \in Buffers : \A k \in 1 .. pstruParas[j].s32ParaVal :
             rsp2[Start(j) + k - 1] \in {<<"pc", j, k>>, <<"board", j, k>>, Zero}
        /\ \A x \in 0 .. AreaSize - 1 : rsp2[x][1] = "board" =>
             \E j \in Buffers : \E k \in 1 .. pstruParas[j].s32ParaVal :
                x = Start(j) + k - 1 /\ rsp2[x] = <<"board", j, k>>

Layout == TypeOK /\ BuffersApart /\ Between /\ Stated /\ Filling /\ Held /\ PcOnly
IInv == Layout /\ Answer /\ OwnBytesFromOwnAnswer /\ FailureLeavesBuffers

(* The lists of the state are functions from 1 .. their length. *)
LEMMA Lists ==
    ASSUME TypeOK
    PROVE  /\ Len(pstruParas) \in Nat /\ DOMAIN pstruParas = 1 .. Len(pstruParas)
           /\ Len(struCmdPara) \in Nat /\ DOMAIN struCmdPara = 1 .. Len(struCmdPara)
           /\ \A j \in DOMAIN pstruParas : pstruParas[j] \in ParaType
           /\ \A j \in DOMAIN struCmdPara : struCmdPara[j] \in CmdParaType
           /\ Buffers \subseteq 1 .. Len(pstruParas)
           /\ FilledBuffers \subseteq 1 .. Len(struCmdPara)
  <1>1. pstruParas \in Seq(ParaType) /\ struCmdPara \in Seq(CmdParaType)
    BY DEF TypeOK, ParaType, CmdParaType
  <1> QED
    BY <1>1, LenProperties, ElementOfSeq DEF Buffers, FilledBuffers

(* Initially nothing is held. *)
LEMMA InitIInv == Init => IInv
  <1> SUFFICES ASSUME Init PROVE IInv
    OBVIOUS
  <1>1. Buffers = {} /\ FilledBuffers = {}
    BY DEF Init, Buffers, FilledBuffers
  <1>2. TypeOK
    BY <1>1, EmptySeq, ClearedFacts DEF Init, TypeOK
  <1>3. BuffersApart /\ Between /\ Stated /\ Filling /\ Held /\ Answer /\ OwnBytesFromOwnAnswer /\ FailureLeavesBuffers
    BY <1>1, SizesAssumption
       DEF Init, BuffersApart, Between, Stated, Filling, InCall, Held, Answer, OwnBytesFromOwnAnswer,
           OwnBytesBack, FailureLeavesBuffers, NoResult, TESTCASE_SUCCESS
  <1>4. PcOnly
    BY ClearedFacts DEF Init, PcOnly, Zero
  <1> QED
    BY <1>2, <1>3, <1>4 DEF IInv, Layout

(* A call that starts lays the name into a cleared area. *)
LEMMA StartStep ==
    ASSUME IInv, pc = "idle", NEW n \in NameLengths, NEW ps \in Seq(ParaType),
           \A j \in DOMAIN ps : ps[j].s32ParaType = BUFFER => ps[j].s32ParaVal \in Nat,
           pieces' \in Seq(Int), pieces' # <<>> => ps = CutParameters(pieces'), Starts(n, ps)
    PROVE  IInv'
  <1>1. n \in Nat /\ n + 1 <= AreaSize /\ AreaSize \in Nat
    BY SizesAssumption
  <1>2. Len(ps) \in Nat /\ DOMAIN ps = 1 .. Len(ps)
    BY LenProperties
  <1>3. pstruParas' = ps /\ nameLen' = n /\ u32DataAreaLen' = n + 1 /\ struCmdPara' = <<>>
        /\ pc' = "filling" /\ rsp2' = rsp2 /\ own' = own /\ owed' = owed /\ result' = NoResult
    BY DEF Starts, answer, IInv, Layout, Between
  <1>4. FilledBuffers' = {} /\ Buffers' = {j \in DOMAIN ps : ps[j].s32ParaType = BUFFER}
    BY <1>3 DEF FilledBuffers, Buffers, IsBuffer
  <1>5. \A j \in Buffers' : pParaBuf'[j] = Content("pc", j, ps[j].s32ParaVal)
    BY <1>3, <1>4 DEF Starts, IsBuffer
  <1>6. /\ u8DataArea' \in Areas
        /\ \A x \in 0 .. AreaSize - 1 : n <= x => u8DataArea'[x] = Zero
        /\ \A k \in 1 .. n : u8DataArea'[k - 1] = <<"name", 0, k>>
    <2>1. Content("name", 0, n) \in Seq(Bytes) /\ Len(Content("name", 0, n)) = n
          /\ \A k \in 1 .. n : Content("name", 0, n)[k] = <<"name", 0, k>>
      BY <1>1, ContentFacts
    <2>2. Cleared \in Areas /\ \A x \in 0 .. AreaSize - 1 : Cleared[x] = Zero
      BY ClearedFacts
    <2>3. u8DataArea' = Copied(Cleared, 0, Content("name", 0, n))
      BY DEF Starts
    <2> DEFINE name == Content("name", 0, n)
    <2> HIDE DEF name
    <2>4. name \in Seq(Bytes) /\ Len(name) = n /\ \A k \in 1 .. n : name[k] = <<"name", 0, k>>
      BY <2>1 DEF name
    <2>5. /\ Copied(Cleared, 0, name) \in Areas
          /\ \A x \in 0 .. AreaSize - 1 :
               x < 0 \/ 0 + Len(name) <= x => Copied(Cleared, 0, name)[x] = Cleared[x]
          /\ \A k \in 1 .. Len(name) :
               0 + k <= AreaSize => Copied(Cleared, 0, name)[0 + k - 1] = name[k]
      BY ONLY <2>2, <2>4, CopiedFacts
    <2>6. u8DataArea' = Copied(Cleared, 0, name)
      BY <2>3 DEF name
    <2>7. \A k \in 1 .. n : Copied(Cleared, 0, name)[k - 1] = <<"name", 0, k>>
      <3> SUFFICES ASSUME NEW k \in 1 .. n PROVE Copied(Cleared, 0, name)[k - 1] = <<"name", 0, k>>
        OBVIOUS
      <3>1. 0 + k <= AreaSize /\ 0 + k - 1 = k - 1
        BY <1>1
      <3> QED
        BY <2>4, <2>5, <3>1
    <2>8. \A x \in 0 .. AreaSize - 1 : n <= x => Copied(Cleared, 0, name)[x] = Zero
      BY <1>1, <2>2, <2>4, <2>5
    <2> QED
      BY <2>5, <2>6, <2>7, <2>8
  <1>7. TypeOK'
    <2>1. \A j \in DOMAIN ps : pParaBuf'[j] \in Seq(Bytes)
      <3>1. \A j \in DOMAIN ps : IsBuffer(ps, j) => Content("pc", j, ps[j].s32ParaVal) \in Seq(Bytes)
        <4> SUFFICES ASSUME NEW j \in DOMAIN ps, IsBuffer(ps, j)
                     PROVE  Content("pc", j, ps[j].s32ParaVal) \in Seq(Bytes)
          OBVIOUS
        <4>1. j \in Nat /\ ps[j].s32ParaVal \in Nat
          BY <1>2 DEF IsBuffer
        <4> QED
          BY <4>1, ContentFacts
      <3>2. <<>> \in Seq(Bytes)
        BY EmptySeq
      <3>3. pParaBuf' = [j \in DOMAIN ps |-> IF IsBuffer(ps, j)
                                            THEN Content("pc", j, ps[j].s32ParaVal) ELSE <<>>]
        BY DEF Starts
      <3> QED
        BY <3>1, <3>2, <3>3
    <2>2. DOMAIN pParaBuf' = DOMAIN pstruParas'
      BY DEF Starts
    <2>3. struCmdPara' \in Seq(CmdParaType) /\ pstruParas' \in Seq(ParaType)
      BY <1>3, EmptySeq
    <2>4. \A j \in Buffers' : pstruParas'[j].s32ParaVal \in Nat
      BY <1>3, <1>4
    <2> QED
      BY <1>1, <1>3, <1>6, <2>1, <2>2, <2>3, <2>4 DEF TypeOK, IInv, Layout, ParaType, CmdParaType
  <1>8. BuffersApart' /\ Between'
    BY <1>1, <1>3, <1>4 DEF BuffersApart, Between
  <1>9. Filling'
    BY <1>1, <1>2, <1>3, <1>5, EmptySeq DEF Filling
  <1>10. Held'
    <2>1. n \in 0 .. AreaSize - 1 /\ \A x \in 0 .. AreaSize - 1 : n + 1 <= x => n <= x
      BY <1>1
    <2>2. \A k \in 1 .. nameLen' : u8DataArea'[k - 1] = <<"name", 0, k>>
      BY <1>3, <1>6
    <2>3. u8DataArea'[nameLen'] = Zero
      BY <1>1, <1>3, <1>6, <2>1
    <2>4. \A x \in 0 .. AreaSize - 1 : u32DataAreaLen' <= x => u8DataArea'[x] = Zero
      BY <1>3, <1>6, <2>1
    <2> QED
      BY <1>4, <2>2, <2>3, <2>4 DEF Held
  <1>s. Stated'
    <2>1. DOMAIN struCmdPara' = {}
      BY <1>3
    <2> QED
      BY <1>3, <2>1 DEF Stated
  <1>11. PcOnly'
    <2> SUFFICES ASSUME NEW x \in 0 .. AreaSize - 1 PROVE u8DataArea'[x][1] # "board"
      BY DEF PcOnly
    <2>1. CASE n <= x
      BY <1>6, <2>1 DEF Zero
    <2>2. CASE x < n
      <3>1. x + 1 \in 1 .. n /\ (x + 1) - 1 = x
        BY <1>1, <2>2
      <3>2. u8DataArea'[x] = <<"name", 0, x + 1>>
        BY <1>6, <3>1
      <3> QED
        BY <3>2
    <2> QED
      BY <1>1, <2>1, <2>2
  <1>12. Answer' /\ OwnBytesFromOwnAnswer' /\ FailureLeavesBuffers'
    BY <1>3 DEF Answer, OwnBytesFromOwnAnswer, OwnBytesBack, FailureLeavesBuffers, NoResult, TESTCASE_SUCCESS
  <1> QED
    BY <1>s, <1>7, <1>8, <1>9, <1>10, <1>11, <1>12 DEF IInv, Layout

(* A number takes its place among the parameters and none in the area. *)
LEMMA FillNumberStep == IInv /\ FillNumber => IInv'
  <1> SUFFICES ASSUME IInv, FillNumber PROVE IInv'
    OBVIOUS
  <1> DEFINE para == [s32ParaType |-> NUMBER, s32ParaLen |-> 0,
                      s32ParaVal |-> pstruParas[next].s32ParaVal, s32ParaDataIndex |-> 0]
  <1>1. /\ pc = "filling" /\ next \in DOMAIN pstruParas /\ pstruParas[next].s32ParaType = NUMBER
        /\ struCmdPara' = Append(struCmdPara, para)
        /\ UNCHANGED <<pc, call, pParaBuf, u32DataAreaLen, u8DataArea, rsp2, own, owed, result>>
    BY DEF FillNumber, answer
  <1>2. TypeOK
    BY DEF IInv, Layout
  <1>3. next = Len(struCmdPara) + 1 /\ next \in Nat /\ next <= Len(pstruParas)
    BY <1>1, <1>2, Lists DEF next
  <1>4. para \in CmdParaType
    BY <1>1, <1>2, Lists DEF CmdParaType, ParaType, NUMBER
  <1>n. para.s32ParaVal = pstruParas[next].s32ParaVal
    OBVIOUS
  <1> HIDE DEF para
  <1>5. /\ struCmdPara' \in Seq(CmdParaType) /\ Len(struCmdPara') = Len(struCmdPara) + 1
        /\ DOMAIN struCmdPara' = 1 .. next /\ struCmdPara'[next] = para
        /\ \A i \in 1 .. Len(struCmdPara) : struCmdPara'[i] = struCmdPara[i]
    <2>1. struCmdPara \in Seq(CmdParaType)
      BY <1>2 DEF TypeOK, CmdParaType
    <2>2. /\ Append(struCmdPara, para) \in Seq(CmdParaType)
          /\ Len(Append(struCmdPara, para)) = Len(struCmdPara) + 1
          /\ \A i \in 1 .. Len(struCmdPara) : Append(struCmdPara, para)[i] = struCmdPara[i]
          /\ Append(struCmdPara, para)[Len(struCmdPara) + 1] = para
      BY <1>4, <2>1, AppendProperties
    <2>3. DOMAIN Append(struCmdPara, para) = 1 .. Len(Append(struCmdPara, para))
      BY <2>2, LenProperties
    <2> QED
      BY <1>1, <1>3, <2>2, <2>3
  <1>6. Buffers' = Buffers /\ FilledBuffers' = FilledBuffers
    <2>1. pstruParas' = pstruParas
      BY <1>1 DEF call
    <2>2. ~IsBuffer(pstruParas, next)
      BY <1>1 DEF IsBuffer, NUMBER, BUFFER
    <2> QED
      BY <1>2, <1>3, <1>5, <2>1, <2>2, Lists DEF Buffers, FilledBuffers, IsBuffer
  <1>7. \A j \in FilledBuffers : struCmdPara'[j] = struCmdPara[j]
    BY <1>2, <1>5, Lists
  <1>s. Stated'
    <2> SUFFICES ASSUME NEW j \in DOMAIN struCmdPara' \ FilledBuffers
                 PROVE  struCmdPara'[j].s32ParaVal = pstruParas[j].s32ParaVal
      BY <1>1, <1>6 DEF IInv, Layout, Stated, InCall, call
    <2>1. CASE j = next
      BY <1>5, <1>n, <2>1
    <2>2. CASE j # next
      <3>1. j \in DOMAIN struCmdPara
        BY <1>2, <1>3, <1>5, <2>2, Lists
      <3> QED
        BY <1>1, <1>2, <1>5, <3>1, Lists DEF IInv, Layout, Stated, InCall
    <2> QED
      BY <2>1, <2>2
  <1>8. TypeOK'
    BY <1>1, <1>2, <1>5, <1>6 DEF TypeOK, call, CmdParaType
  <1>9. BuffersApart'
    BY <1>1, <1>6, <1>7 DEF IInv, Layout, BuffersApart, Start, End, call
  <1>10. Between' /\ Filling'
    BY <1>1, <1>2, <1>3, <1>5, <1>6, Lists DEF IInv, Layout, Between, Filling, InCall, call
  <1>11. Held' /\ PcOnly'
    BY <1>1, <1>6, <1>7 DEF IInv, Layout, Held, PcOnly, InCall, Start, End, call
  <1>12. Answer' /\ OwnBytesFromOwnAnswer' /\ FailureLeavesBuffers'
    BY <1>1 DEF IInv, Layout, Between, Answer, OwnBytesFromOwnAnswer, OwnBytesBack,
                FailureLeavesBuffers, NoResult, TESTCASE_SUCCESS
  <1> QED
    BY <1>s, <1>8, <1>9, <1>10, <1>11, <1>12 DEF IInv, Layout

(* A buffer goes behind everything in the area, on a multiple of four. *)
LEMMA FillBufferStep == IInv /\ FillBuffer => IInv'
  <1> SUFFICES ASSUME IInv, FillBuffer PROVE IInv'
    OBVIOUS
  <1>0. PICK p : p = next
    OBVIOUS
  <1> DEFINE at == Aligned(u32DataAreaLen)
             len == pstruParas[p].s32ParaVal
             para == [s32ParaType |-> BUFFER, s32ParaLen |-> len,
                      s32ParaVal |-> 0, s32ParaDataIndex |-> at]
  <1>1. /\ pc = "filling" /\ p \in DOMAIN pstruParas /\ IsBuffer(pstruParas, p)
        /\ at + len <= AreaSize
        /\ struCmdPara' = Append(struCmdPara, para)
        /\ u8DataArea' = Copied(u8DataArea, at, pParaBuf[p]) /\ u32DataAreaLen' = at + len
        /\ UNCHANGED <<pc, call, pParaBuf, rsp2, own, owed, result>>
    BY <1>0 DEF FillBuffer, IsBuffer, FitsArea, answer
  <1>2. TypeOK
    BY DEF IInv, Layout
  <1>3. p = Len(struCmdPara) + 1 /\ p \in Nat /\ p <= Len(pstruParas)
    BY <1>0, <1>1, <1>2, Lists DEF next
  <1>4. p \in Buffers /\ len \in Nat /\ AreaSize \in Nat
    BY <1>1, <1>2, SizesAssumption DEF Buffers, TypeOK
  <1>5. at \in Nat /\ at % 4 = 0 /\ u32DataAreaLen <= at /\ u32DataAreaLen \in Nat /\ nameLen \in Nat
    BY <1>2, AlignedFacts DEF TypeOK
  <1> HIDE DEF at, len
  <1>6. para \in CmdParaType
    BY <1>4, <1>5 DEF CmdParaType, BUFFER
  <1>7. para.s32ParaDataIndex = at /\ para.s32ParaLen = len
    OBVIOUS
  <1> HIDE DEF para
  <1>8. /\ struCmdPara' \in Seq(CmdParaType) /\ Len(struCmdPara') = Len(struCmdPara) + 1
        /\ DOMAIN struCmdPara' = 1 .. p /\ struCmdPara'[p] = para
        /\ \A i \in 1 .. Len(struCmdPara) : struCmdPara'[i] = struCmdPara[i]
    <2>1. struCmdPara \in Seq(CmdParaType)
      BY <1>2 DEF TypeOK, CmdParaType
    <2>2. /\ Append(struCmdPara, para) \in Seq(CmdParaType)
          /\ Len(Append(struCmdPara, para)) = Len(struCmdPara) + 1
          /\ \A i \in 1 .. Len(struCmdPara) : Append(struCmdPara, para)[i] = struCmdPara[i]
          /\ Append(struCmdPara, para)[Len(struCmdPara) + 1] = para
      BY <1>6, <2>1, AppendProperties
    <2>3. DOMAIN Append(struCmdPara, para) = 1 .. Len(Append(struCmdPara, para))
      BY <2>2, LenProperties
    <2> QED
      BY <1>1, <1>3, <2>2, <2>3
  <1>9. /\ Buffers' = Buffers /\ FilledBuffers' = FilledBuffers \cup {p}
        /\ p \notin FilledBuffers /\ \A j \in FilledBuffers : j < p
    <2>1. pstruParas' = pstruParas
      BY <1>1 DEF call
    <2> QED
      BY <1>1, <1>2, <1>3, <1>8, <2>1, Lists DEF Buffers, FilledBuffers, IsBuffer
  <1>10. \A j \in FilledBuffers : struCmdPara'[j] = struCmdPara[j]
    BY <1>2, <1>8, Lists
  <1>11. pParaBuf[p] \in Seq(Bytes) /\ Len(pParaBuf[p]) = len
         /\ \A k \in 1 .. len : pParaBuf[p][k] = <<"pc", p, k>>
    <2>1. pParaBuf[p] = Content("pc", p, len)
      BY <1>1, <1>4 DEF IInv, Layout, Filling, InCall, len
    <2>2. /\ Content("pc", p, len) \in Seq(Bytes) /\ Len(Content("pc", p, len)) = len
          /\ \A k \in 1 .. len : Content("pc", p, len)[k] = <<"pc", p, k>>
      BY <1>3, <1>4, ContentFacts
    <2> QED
      BY <2>1, <2>2
  <1>12. /\ u8DataArea' \in Areas
         /\ \A x \in 0 .. AreaSize - 1 : x < at \/ at + len <= x => u8DataArea'[x] = u8DataArea[x]
         /\ \A k \in 1 .. len : u8DataArea'[at + k - 1] = <<"pc", p, k>>
    <2>1. u8DataArea \in Areas
      BY <1>2 DEF TypeOK
    <2>2. /\ Copied(u8DataArea, at, pParaBuf[p]) \in Areas
          /\ \A x \in 0 .. AreaSize - 1 :
               x < at \/ at + Len(pParaBuf[p]) <= x =>
                 Copied(u8DataArea, at, pParaBuf[p])[x] = u8DataArea[x]
          /\ \A k \in 1 .. Len(pParaBuf[p]) :
               at + k <= AreaSize =>
                 Copied(u8DataArea, at, pParaBuf[p])[at + k - 1] = pParaBuf[p][k]
      BY <1>5, <1>11, <2>1, CopiedFacts
    <2>3. \A k \in 1 .. len : at + k <= AreaSize
      BY <1>1, <1>4, <1>5
    <2> QED
      BY <1>1, <1>11, <2>2, <2>3
  <1>13. /\ nameLen < u32DataAreaLen
         /\ \A j \in FilledBuffers : Start(j) \in Nat /\ End(j) <= u32DataAreaLen
                                    /\ struCmdPara[j].s32ParaLen = pstruParas[j].s32ParaVal
                                    /\ pstruParas[j].s32ParaVal \in Nat
    BY <1>1, <1>2, Lists DEF IInv, Layout, BuffersApart, Filling, InCall, Start, FilledBuffers, CmdParaType
  <1>14. TypeOK'
    BY <1>1, <1>2, <1>4, <1>5, <1>8, <1>9, <1>12 DEF TypeOK, call, CmdParaType
  <1>15. BuffersApart'
    <2>1. /\ pstruParas' = pstruParas /\ nameLen' = nameLen
      BY <1>1 DEF call
    <2>2. Start(p)' = at /\ End(p)' = at + len /\ struCmdPara'[p].s32ParaLen = len
      BY <1>7, <1>8 DEF Start, End
    <2>3. \A j \in FilledBuffers : /\ Start(j)' = Start(j) /\ End(j)' = End(j)
                                  /\ struCmdPara'[j].s32ParaLen = struCmdPara[j].s32ParaLen
      BY <1>10 DEF Start, End
    <2>4. \A j \in FilledBuffers : End(j) \in Int /\ End(j) <= at
      BY <1>5, <1>13 DEF Start, End
    <2>5. u32DataAreaLen' <= AreaSize
      BY <1>1
    <2>6. ASSUME NEW j \in FilledBuffers
          PROVE  /\ Start(j)' % 4 = 0 /\ nameLen' < Start(j)' /\ End(j)' <= u32DataAreaLen'
                 /\ struCmdPara'[j].s32ParaLen = pstruParas'[j].s32ParaVal
                 /\ \A i \in FilledBuffers' : i < j => End(i)' <= Start(j)'
      <3>1. /\ Start(j) % 4 = 0 /\ nameLen < Start(j)
            /\ \A i \in FilledBuffers : i < j => End(i) <= Start(j)
        BY DEF IInv, Layout, BuffersApart
      <3>2. End(j) <= at + len
        BY <1>4, <1>5, <2>4
      <3>3. ~(p < j)
        BY <1>2, <1>3, <1>9, Lists
      <3> QED
        BY <1>1, <1>9, <1>13, <2>1, <2>3, <3>1, <3>2, <3>3
    <2>7. /\ Start(p)' % 4 = 0 /\ nameLen' < Start(p)' /\ End(p)' <= u32DataAreaLen'
          /\ struCmdPara'[p].s32ParaLen = pstruParas'[p].s32ParaVal
          /\ \A i \in FilledBuffers' : i < p => End(i)' <= Start(p)'
      <3>1. /\ at % 4 = 0 /\ nameLen < at /\ at + len <= u32DataAreaLen'
            /\ len = pstruParas'[p].s32ParaVal
        BY <1>1, <1>4, <1>5, <1>13, <2>1 DEF len
      <3>2. \A i \in FilledBuffers : End(i)' <= Start(p)'
        BY <2>2, <2>3, <2>4
      <3>3. ~(p < p)
        BY <1>3
      <3> QED
        BY <1>9, <2>1, <2>2, <3>1, <3>2, <3>3
    <2> QED
      BY <1>9, <2>5, <2>6, <2>7 DEF BuffersApart
  <1>16. Between' /\ Filling'
    BY <1>1, <1>2, <1>3, <1>4, <1>5, <1>8, <1>9, <1>13, Lists
       DEF IInv, Layout, Between, Filling, InCall, call
  <1>17. Held'
    <2> SUFFICES /\ \A k \in 1 .. nameLen : u8DataArea'[k - 1] = <<"name", 0, k>>
                 /\ u8DataArea'[nameLen] = Zero
                 /\ \A j \in FilledBuffers' : \A k \in 1 .. pstruParas[j].s32ParaVal :
                      u8DataArea'[Start(j)' + k - 1] = <<"pc", j, k>>
                 /\ \A x \in 0 .. AreaSize - 1 : u32DataAreaLen' <= x => u8DataArea'[x] = Zero
                 /\ \A j \in FilledBuffers' :
                      End(j)' < u32DataAreaLen' /\ End(j)' % 4 # 0 => u8DataArea'[End(j)'] = Zero
      BY <1>1 DEF Held, call
    <2>1. Held /\ InCall
      BY <1>1 DEF IInv, Layout, InCall
    <2>2. \A x \in 0 .. u32DataAreaLen - 1 : u8DataArea'[x] = u8DataArea[x]
      <3>1. PICK top \in Nat : top = u32DataAreaLen
        BY <1>5
      <3>2. top <= at /\ at <= AreaSize
        BY <1>1, <1>4, <1>5, <3>1
      <3> QED
        BY <1>4, <1>5, <1>12, <3>1, <3>2
    <2>3. (\A k \in 1 .. nameLen : u8DataArea'[k - 1] = <<"name", 0, k>>) /\ u8DataArea'[nameLen] = Zero
      BY <1>5, <1>13, <2>1, <2>2 DEF Held
    <2>4. ASSUME NEW j \in FilledBuffers, NEW k \in 1 .. pstruParas[j].s32ParaVal
          PROVE  u8DataArea'[Start(j)' + k - 1] = <<"pc", j, k>>
      <3>1. Start(j) + k - 1 \in 0 .. u32DataAreaLen - 1
        BY <1>5, <1>13 DEF End, Start
      <3>2. Start(j)' = Start(j)
        BY <1>10 DEF Start
      <3> QED
        BY <2>1, <2>2, <3>1, <3>2 DEF Held
    <2>5. ASSUME NEW k \in 1 .. pstruParas[p].s32ParaVal
          PROVE  u8DataArea'[Start(p)' + k - 1] = <<"pc", p, k>>
      BY <1>7, <1>8, <1>12 DEF Start, len
    <2>6. \A x \in 0 .. AreaSize - 1 : u32DataAreaLen' <= x => u8DataArea'[x] = Zero
      BY <1>1, <1>4, <1>5, <1>12, <2>1 DEF Held
    <2>7. ASSUME NEW j \in FilledBuffers, End(j)' < u32DataAreaLen', End(j)' % 4 # 0
          PROVE  u8DataArea'[End(j)'] = Zero
      <3>1. End(j)' = End(j) /\ End(j) \in Nat /\ End(j) <= u32DataAreaLen
        BY <1>5, <1>10, <1>13 DEF End, Start
      <3>2. CASE End(j) < u32DataAreaLen
        BY <1>5, <2>1, <2>2, <2>7, <3>1, <3>2 DEF Held
      <3>3. CASE End(j) = u32DataAreaLen
        <4>1. End(j) < at
          BY <1>5, <2>7, <3>1, <3>3
        <4>2. End(j) \in 0 .. AreaSize - 1
          BY <1>1, <1>4, <1>5, <3>1, <4>1
        <4> QED
          BY <1>12, <2>1, <3>1, <3>3, <4>1, <4>2 DEF Held
      <3> QED
        BY <1>5, <3>1, <3>2, <3>3
    <2>8. ~(End(p)' < u32DataAreaLen')
      BY <1>1, <1>4, <1>5, <1>7, <1>8 DEF End
    <2> QED
      BY <1>9, <2>3, <2>4, <2>5, <2>6, <2>7, <2>8
  <1>s. Stated'
    <2>1. \A j \in DOMAIN struCmdPara' \ FilledBuffers' : j \in DOMAIN struCmdPara \ FilledBuffers
      BY <1>2, <1>3, <1>8, <1>9, Lists
    <2>2. \A j \in DOMAIN struCmdPara : struCmdPara'[j] = struCmdPara[j]
      BY <1>2, <1>8, Lists
    <2> QED
      BY <1>1, <2>1, <2>2 DEF IInv, Layout, Stated, InCall, call
  <1>18. PcOnly'
    <2> SUFFICES ASSUME NEW x \in 0 .. AreaSize - 1 PROVE u8DataArea'[x][1] # "board"
      BY DEF PcOnly
    <2>1. CASE x < at \/ at + len <= x
      BY <1>12, <2>1 DEF IInv, Layout, PcOnly
    <2>2. CASE at <= x /\ x < at + len
      <3>1. x - at + 1 \in 1 .. len /\ at + (x - at + 1) - 1 = x
        BY <1>4, <1>5, <2>2
      <3>2. u8DataArea'[x] = <<"pc", p, x - at + 1>>
        BY <1>12, <3>1
      <3> QED
        BY <3>2
    <2> QED
      BY <1>4, <1>5, <2>1, <2>2
  <1>19. Answer' /\ OwnBytesFromOwnAnswer' /\ FailureLeavesBuffers'
    BY <1>1 DEF IInv, Layout, Between, Answer, OwnBytesFromOwnAnswer, OwnBytesBack,
                FailureLeavesBuffers, NoResult, TESTCASE_SUCCESS
  <1> QED
    BY <1>s, <1>14, <1>15, <1>16, <1>17, <1>18, <1>19 DEF IInv, Layout

(* A refused call ends with everything as it was. *)
LEMMA FillRefusedStep == IInv /\ FillRefused => IInv'
  <1> SUFFICES ASSUME IInv, FillRefused PROVE IInv'
    OBVIOUS
  <1>1. /\ pc = "filling" /\ pc' = "returned" /\ result' = ECMD_INVALID_ERROR
        /\ UNCHANGED <<pieces, nameLen, pstruParas, pParaBuf, struCmdPara, u32DataAreaLen,
                       u8DataArea, rsp2, own, owed>>
    BY DEF FillRefused, answer, Returns, call, request
  <1>2. Buffers' = Buffers /\ FilledBuffers' = FilledBuffers
    BY <1>1 DEF Buffers, FilledBuffers, IsBuffer
  <1>3. TypeOK'
    BY <1>1, <1>2 DEF IInv, Layout, TypeOK, ECMD_INVALID_ERROR, TESTCASE_FAIL
  <1>4. BuffersApart' /\ Between' /\ Filling' /\ Stated' /\ Held' /\ PcOnly' /\ Answer' /\ OwnBytesFromOwnAnswer'
    BY <1>1, <1>2
       DEF IInv, Layout, BuffersApart, Between, Filling, Stated, Held, End, PcOnly, InCall, Answer, OwnBytesFromOwnAnswer,
           OwnBytesBack, Start, End, ECMD_INVALID_ERROR, TESTCASE_SUCCESS
  <1>5. FailureLeavesBuffers'
    BY <1>1, <1>2 DEF IInv, Layout, Filling, InCall, FailureLeavesBuffers
  <1> QED
    BY <1>3, <1>4, <1>5 DEF IInv, Layout

(* The same for a command that was not executed. *)
LEMMA NotExecutedStep == IInv /\ NotExecuted => IInv'
  <1> SUFFICES ASSUME IInv, NotExecuted PROVE IInv'
    OBVIOUS
  <1>1. /\ pc = "sent" /\ pc' = "returned" /\ result' = TESTCASE_FAIL
        /\ UNCHANGED <<pieces, nameLen, pstruParas, pParaBuf, struCmdPara, u32DataAreaLen,
                       u8DataArea, rsp2, own, owed>>
    BY DEF NotExecuted, answer, Returns, call, request
  <1>2. Buffers' = Buffers /\ FilledBuffers' = FilledBuffers
    BY <1>1 DEF Buffers, FilledBuffers, IsBuffer
  <1>3. TypeOK'
    BY <1>1, <1>2 DEF IInv, Layout, TypeOK
  <1>4. BuffersApart' /\ Between' /\ Filling' /\ Stated' /\ Held' /\ PcOnly' /\ Answer' /\ OwnBytesFromOwnAnswer'
    BY <1>1, <1>2
       DEF IInv, Layout, BuffersApart, Between, Filling, Stated, Held, End, PcOnly, InCall, Answer, OwnBytesFromOwnAnswer,
           OwnBytesBack, Start, End, TESTCASE_FAIL, TESTCASE_SUCCESS
  <1>5. FailureLeavesBuffers'
    BY <1>1, <1>2 DEF IInv, Layout, Filling, InCall, FailureLeavesBuffers
  <1> QED
    BY <1>3, <1>4, <1>5 DEF IInv, Layout

(* A call with too many parameters does not get as far as a request. *)
LEMMA TooManyStep ==
    ASSUME NEW ps PROVE IInv /\ ExcuteCmdTooMany(ps) => IInv'
  <1> SUFFICES ASSUME IInv, ExcuteCmdTooMany(ps) PROVE IInv'
    OBVIOUS
  <1>1. /\ pc = "idle" /\ pc' = "returned" /\ result' = EXECUTECMD_PARA_TOOMANY
        /\ UNCHANGED <<pieces, nameLen, pstruParas, pParaBuf, struCmdPara, u32DataAreaLen,
                       u8DataArea, rsp2, own, owed>>
    BY DEF ExcuteCmdTooMany, answer, Returns, call, request
  <1>2. Buffers' = Buffers /\ FilledBuffers' = FilledBuffers /\ Buffers = {}
    BY <1>1 DEF Buffers, FilledBuffers, IsBuffer, IInv, Layout, Between
  <1>3. TypeOK'
    BY <1>1, <1>2 DEF IInv, Layout, TypeOK
  <1>4. BuffersApart' /\ Between' /\ Filling' /\ Stated' /\ Held' /\ PcOnly' /\ Answer' /\ OwnBytesFromOwnAnswer'
    BY <1>1, <1>2
       DEF IInv, Layout, BuffersApart, Between, Filling, Stated, Held, End, PcOnly, InCall, Answer, OwnBytesFromOwnAnswer,
           OwnBytesBack, Start, End, EXECUTECMD_PARA_TOOMANY, TESTCASE_SUCCESS
  <1>5. FailureLeavesBuffers'
    BY <1>1, <1>2 DEF FailureLeavesBuffers
  <1> QED
    BY <1>3, <1>4, <1>5 DEF IInv, Layout

(* The request goes out when every parameter is filled in. *)
LEMMA SendRequestStep == IInv /\ SendRequest => IInv'
  <1> SUFFICES ASSUME IInv, SendRequest PROVE IInv'
    OBVIOUS
  <1>1. /\ pc = "filling" /\ next > Len(pstruParas) /\ pc' = "sent"
        /\ UNCHANGED <<pieces, nameLen, pstruParas, pParaBuf, struCmdPara, u32DataAreaLen, u8DataArea,
                       rsp2, own, owed, result>>
    BY DEF SendRequest, answer, call, request
  <1>2. Buffers' = Buffers /\ FilledBuffers' = FilledBuffers
    BY <1>1 DEF Buffers, FilledBuffers, IsBuffer
  <1>3. TypeOK'
    BY <1>1, <1>2 DEF IInv, Layout, TypeOK
  <1>4. Filling'
    <2>1. Len(struCmdPara) \in Nat /\ Len(pstruParas) \in Nat
      BY Lists DEF IInv, Layout
    <2> QED
      BY <1>1, <1>2, <2>1 DEF IInv, Layout, Filling, InCall, next
  <1>5. BuffersApart' /\ Between' /\ Stated' /\ Held' /\ PcOnly' /\ Answer' /\ OwnBytesFromOwnAnswer' /\ FailureLeavesBuffers'
    BY <1>1, <1>2
       DEF IInv, Layout, BuffersApart, Between, Stated, Held, End, PcOnly, InCall, Answer, OwnBytesFromOwnAnswer,
           OwnBytesBack, FailureLeavesBuffers, Start, End
  <1> QED
    BY <1>3, <1>4, <1>5 DEF IInv, Layout

(* Once sent, every buffer lies in the used part of the area, apart from   *)
(* the others, with the bytes the caller gave it.                          *)
LEMMA SentFacts ==
    ASSUME IInv, pc \in {"sent", "answered"}
    PROVE  /\ AreaSize \in Nat /\ u32DataAreaLen \in Nat /\ u32DataAreaLen <= AreaSize
           /\ nameLen \in Nat /\ nameLen < u32DataAreaLen
           /\ Buffers = FilledBuffers
           /\ \A j \in Buffers :
                /\ j \in Nat /\ Start(j) \in Nat /\ pstruParas[j].s32ParaVal \in Nat
                /\ struCmdPara[j].s32ParaLen = pstruParas[j].s32ParaVal
                /\ Start(j) + pstruParas[j].s32ParaVal <= u32DataAreaLen
                /\ \A i \in Buffers : i < j => Start(i) + pstruParas[i].s32ParaVal <= Start(j)
                /\ \A k \in 1 .. pstruParas[j].s32ParaVal :
                     u8DataArea[Start(j) + k - 1] = <<"pc", j, k>>
  <1>1. TypeOK /\ InCall /\ AreaSize \in Nat
    BY SizesAssumption DEF IInv, Layout, InCall
  <1>2. Buffers = FilledBuffers
    BY <1>1, Lists DEF IInv, Layout, Filling, Buffers, FilledBuffers
  <1>3. \A j \in Buffers : j \in Nat /\ Start(j) \in Nat /\ pstruParas[j].s32ParaVal \in Nat
    <2>1. \A j \in FilledBuffers : struCmdPara[j] \in CmdParaType
      BY <1>1, Lists
    <2>2. \A j \in FilledBuffers : struCmdPara[j].s32ParaDataIndex \in Nat
      BY <2>1 DEF CmdParaType
    <2>3. \A j \in Buffers : j \in Nat
      BY <1>1, Lists
    <2>4. \A j \in Buffers : pstruParas[j].s32ParaVal \in Nat
      BY <1>1 DEF TypeOK
    <2> QED
      BY <1>2, <2>2, <2>3, <2>4 DEF Start
  <1>4. u32DataAreaLen \in Nat /\ nameLen \in Nat /\ u32DataAreaLen <= AreaSize
        /\ nameLen < u32DataAreaLen
    BY <1>1 DEF TypeOK, IInv, Layout, BuffersApart, Filling
  <1>5. \A j \in Buffers :
          /\ struCmdPara[j].s32ParaLen = pstruParas[j].s32ParaVal
          /\ Start(j) + pstruParas[j].s32ParaVal <= u32DataAreaLen
          /\ \A i \in Buffers : i < j => Start(i) + pstruParas[i].s32ParaVal <= Start(j)
    BY <1>2 DEF IInv, Layout, BuffersApart, Start, End
  <1>6. \A j \in Buffers : \A k \in 1 .. pstruParas[j].s32ParaVal :
          u8DataArea[Start(j) + k - 1] = <<"pc", j, k>>
    BY <1>1, <1>2 DEF IInv, Layout, Held
  <1> QED
    BY <1>1, <1>2, <1>3, <1>4, <1>5, <1>6

(* Where the board wrote for a parameter there is that parameter's byte;   *)
(* everywhere else the request is as it was sent.                          *)
LEMMA WorkedFacts ==
    ASSUME IInv, pc = "sent", NEW written, written \subseteq Buffers,
           NEW x \in 0 .. u32DataAreaLen - 1
    PROVE  /\ Worked(written)[x] \in Bytes
           /\ \A j \in Buffers : \A k \in 1 .. pstruParas[j].s32ParaVal :
                x = Start(j) + k - 1 => Worked(written)[x] \in {<<"pc", j, k>>, <<"board", j, k>>}
           /\ Worked(written)[x][1] = "board" =>
                \E j \in Buffers : \E k \in 1 .. pstruParas[j].s32ParaVal :
                  x = Start(j) + k - 1 /\ Worked(written)[x] = <<"board", j, k>>
  <1> DEFINE In(j) == x - struCmdPara[j].s32ParaDataIndex \in 0 .. struCmdPara[j].s32ParaLen - 1
             Owner == CHOOSE j \in written : In(j)
  <1>1. /\ AreaSize \in Nat /\ u32DataAreaLen \in Nat /\ u32DataAreaLen <= AreaSize
        /\ \A j \in Buffers :
             /\ j \in Nat /\ Start(j) \in Nat /\ pstruParas[j].s32ParaVal \in Nat
             /\ struCmdPara[j].s32ParaLen = pstruParas[j].s32ParaVal
             /\ \A i \in Buffers : i < j => Start(i) + pstruParas[i].s32ParaVal <= Start(j)
             /\ \A k \in 1 .. pstruParas[j].s32ParaVal :
                  u8DataArea[Start(j) + k - 1] = <<"pc", j, k>>
    BY SentFacts
  <1>2. u8DataArea[x] \in Bytes /\ u8DataArea[x][1] # "board"
    BY <1>1 DEF IInv, Layout, TypeOK, Areas, PcOnly
  <1>3. \A j \in Buffers : In(j) <=> /\ x - Start(j) + 1 \in 1 .. pstruParas[j].s32ParaVal
                                    /\ x = Start(j) + (x - Start(j) + 1) - 1
    <2> SUFFICES ASSUME NEW j \in Buffers
                 PROVE  In(j) <=> /\ x - Start(j) + 1 \in 1 .. pstruParas[j].s32ParaVal
                                  /\ x = Start(j) + (x - Start(j) + 1) - 1
      OBVIOUS
    <2>1. Start(j) \in Nat /\ pstruParas[j].s32ParaVal \in Nat /\ x \in Int
      BY <1>1
    <2>2. In(j) <=> x - Start(j) \in 0 .. pstruParas[j].s32ParaVal - 1
      BY <1>1 DEF Start
    <2> QED
      BY <2>1, <2>2
  <1>4. \A i, j \in Buffers : In(i) /\ In(j) => i = j
    <2> SUFFICES ASSUME NEW i \in Buffers, NEW j \in Buffers, In(i), In(j), i < j PROVE FALSE
      BY <1>1
    <2>1. Start(i) + pstruParas[i].s32ParaVal <= Start(j)
      BY <1>1
    <2>2. x - Start(i) + 1 <= pstruParas[i].s32ParaVal /\ x >= Start(j)
      BY <1>1, <1>3
    <2> HIDE DEF In
    <2> QED
      BY <1>1, <2>1, <2>2
  <1>5. CASE \E j \in written : In(j)
    <2>1. Owner \in written /\ In(Owner)
      <3> HIDE DEF In
      <3> QED BY <1>5
    <2>2. Worked(written)[x] = <<"board", Owner, x - Start(Owner) + 1>>
      BY <1>5 DEF Worked, SentArea, Start
    <2> HIDE DEF Owner
    <2>3. Owner \in Buffers
      BY <2>1
    <2>4. /\ x - Start(Owner) + 1 \in 1 .. pstruParas[Owner].s32ParaVal
          /\ x = Start(Owner) + (x - Start(Owner) + 1) - 1
      BY <1>3, <2>1, <2>3
    <2>5. Worked(written)[x] \in Bytes
      BY <1>1, <2>2, <2>3, <2>4 DEF Bytes
    <2>6. ASSUME NEW j \in Buffers, NEW k \in 1 .. pstruParas[j].s32ParaVal, x = Start(j) + k - 1
          PROVE  Worked(written)[x] = <<"board", j, k>>
      <3>1. k = x - Start(j) + 1 /\ In(j)
        BY <1>1, <2>6 DEF Start
      <3>2. j = Owner
        BY <1>4, <2>1, <2>3, <3>1
      <3> QED
        BY <2>2, <3>1, <3>2
    <2> QED
      BY <2>2, <2>3, <2>4, <2>5, <2>6
  <1>6. CASE ~ \E j \in written : In(j)
    <2>1. Worked(written)[x] = u8DataArea[x]
      BY <1>6 DEF Worked, SentArea
    <2>2. ASSUME NEW j \in Buffers, NEW k \in 1 .. pstruParas[j].s32ParaVal, x = Start(j) + k - 1
          PROVE  Worked(written)[x] = <<"pc", j, k>>
      BY <1>1, <2>1, <2>2
    <2> QED
      BY <1>2, <2>1, <2>2
  <1> QED
    BY <1>5, <1>6

(* What DealMsg stores of a reply is an area, with the bytes that came     *)
(* over in front of zeros.                                                 *)
LEMMA StoredFacts ==
    ASSUME IInv, pc = "sent", NEW written, written \subseteq Buffers, NEW len \in {0, u32DataAreaLen}
    PROVE  /\ Stored(written, len) \in Areas
           /\ \A x \in 0 .. AreaSize - 1 :
                \/ x \in 0 .. u32DataAreaLen - 1 /\ Stored(written, len)[x] = Worked(written)[x]
                \/ Stored(written, len)[x] = Zero
  <1>1. DOMAIN Cleared = 0 .. AreaSize - 1 /\ Zero \in Bytes
    BY DEF Cleared, Zero, Bytes
  <1>2. u32DataAreaLen \in Nat /\ AreaSize \in Nat
    BY SentFacts
  <1>3. \A x \in 0 .. AreaSize - 1 :
          \/ x \in 0 .. u32DataAreaLen - 1 /\ Stored(written, len)[x] = Worked(written)[x]
          \/ Stored(written, len)[x] = Zero
    BY <1>1, <1>2 DEF Stored
  <1>4. \A x \in 0 .. AreaSize - 1 : Stored(written, len)[x] \in Bytes
    BY <1>1, <1>3, WorkedFacts
  <1> QED
    BY <1>1, <1>3, <1>4 DEF Stored, Areas

(* The RSP2 of the request, in full or in part, leaves each buffer's place *)
(* to that buffer.                                                         *)
LEMMA DealRsp2Step ==
    ASSUME IInv, NEW written, written \subseteq Buffers, NEW len \in {0, u32DataAreaLen},
           DealRsp2(written, len)
    PROVE  IInv'
  <1>1. /\ pc = "sent" /\ pc' = "answered" /\ rsp2' = Stored(written, len) /\ own' = TRUE /\ owed' = {}
        /\ UNCHANGED <<pieces, nameLen, pstruParas, pParaBuf, struCmdPara, u32DataAreaLen, u8DataArea,
                       result>>
    BY DEF DealRsp2, call, request
  <1>2. Buffers' = Buffers /\ FilledBuffers' = FilledBuffers
    BY <1>1 DEF Buffers, FilledBuffers, IsBuffer
  <1>3. /\ AreaSize \in Nat /\ u32DataAreaLen \in Nat /\ u32DataAreaLen <= AreaSize
        /\ \A j \in Buffers :
             /\ Start(j) \in Nat /\ pstruParas[j].s32ParaVal \in Nat
             /\ Start(j) + pstruParas[j].s32ParaVal <= u32DataAreaLen
    BY <1>1, SentFacts
  <1>4. /\ rsp2' \in Areas
        /\ \A x \in 0 .. AreaSize - 1 :
             \/ x \in 0 .. u32DataAreaLen - 1 /\ rsp2'[x] = Worked(written)[x]
             \/ rsp2'[x] = Zero
    BY <1>1, StoredFacts
  <1>5. Answer'
    <2> SUFFICES /\ \A j \in Buffers : \A k \in 1 .. pstruParas[j].s32ParaVal :
                      rsp2'[Start(j) + k - 1] \in {<<"pc", j, k>>, <<"board", j, k>>, Zero}
                 /\ \A x \in 0 .. AreaSize - 1 : rsp2'[x][1] = "board" =>
                      \E j \in Buffers : \E k \in 1 .. pstruParas[j].s32ParaVal :
                        x = Start(j) + k - 1 /\ rsp2'[x] = <<"board", j, k>>
      BY <1>1, <1>2 DEF Answer, Start
    <2>1. ASSUME NEW j \in Buffers, NEW k \in 1 .. pstruParas[j].s32ParaVal
          PROVE  rsp2'[Start(j) + k - 1] \in {<<"pc", j, k>>, <<"board", j, k>>, Zero}
      <3>1. PICK x \in 0 .. AreaSize - 1 : x = Start(j) + k - 1
        BY <1>3
      <3>2. CASE x \in 0 .. u32DataAreaLen - 1 /\ rsp2'[x] = Worked(written)[x]
        BY <1>1, <3>1, <3>2, WorkedFacts
      <3>3. CASE rsp2'[x] = Zero
        BY <3>1, <3>3
      <3> QED
        BY <1>4, <3>2, <3>3
    <2>2. ASSUME NEW x \in 0 .. AreaSize - 1, rsp2'[x][1] = "board"
          PROVE  \E j \in Buffers : \E k \in 1 .. pstruParas[j].s32ParaVal :
                   x = Start(j) + k - 1 /\ rsp2'[x] = <<"board", j, k>>
      <3>1. CASE x \in 0 .. u32DataAreaLen - 1 /\ rsp2'[x] = Worked(written)[x]
        BY <1>1, <2>2, <3>1, WorkedFacts
      <3>2. CASE rsp2'[x] = Zero
        BY <2>2, <3>2 DEF Zero
      <3> QED
        BY <1>4, <3>1, <3>2
    <2> QED
      BY <2>1, <2>2
  <1>6. TypeOK'
    <2>1. rsp2' \in Areas
      BY <1>4
    <2>2. own' \in BOOLEAN /\ owed' \subseteq Areas
      BY <1>1
    <2> QED
      BY <1>1, <1>2, <2>1, <2>2 DEF IInv, Layout, TypeOK
  <1>7. BuffersApart' /\ Between' /\ Filling' /\ Stated' /\ Held' /\ PcOnly'
    BY <1>1, <1>2
       DEF IInv, Layout, BuffersApart, Between, Filling, Stated, Held, End, PcOnly, InCall, Start, End
  <1>8. OwnBytesFromOwnAnswer' /\ FailureLeavesBuffers'
    BY <1>1 DEF IInv, Layout, Between, OwnBytesFromOwnAnswer, OwnBytesBack, FailureLeavesBuffers,
                NoResult, TESTCASE_SUCCESS
  <1> QED
    BY <1>5, <1>6, <1>7, <1>8 DEF IInv, Layout

(* A late RSP2 is stored as well; nothing is claimed of its bytes. *)
LEMMA DealLateRsp2Step ==
    ASSUME IInv, NEW written, written \subseteq Buffers, NEW area \in owed, DealLateRsp2(area, written)
    PROVE  IInv'
  <1>1. /\ pc = "sent" /\ pc' = "answered" /\ rsp2' = area /\ own' = FALSE
        /\ owed' = {Stored(written, u32DataAreaLen)}
        /\ UNCHANGED <<pieces, nameLen, pstruParas, pParaBuf, struCmdPara, u32DataAreaLen, u8DataArea,
                       result>>
    BY DEF DealLateRsp2, call, request
  <1>2. Buffers' = Buffers /\ FilledBuffers' = FilledBuffers
    BY <1>1 DEF Buffers, FilledBuffers, IsBuffer
  <1>3. rsp2' \in Areas /\ owed' \subseteq Areas
    BY <1>1, StoredFacts DEF IInv, Layout, TypeOK
  <1>4. TypeOK'
    BY <1>1, <1>2, <1>3 DEF IInv, Layout, TypeOK
  <1>5. /\ BuffersApart' /\ Between' /\ Filling' /\ Stated' /\ Held' /\ PcOnly' /\ Answer'
        /\ OwnBytesFromOwnAnswer' /\ FailureLeavesBuffers'
    BY <1>1, <1>2
       DEF IInv, Layout, BuffersApart, Between, Filling, Stated, Held, End, PcOnly, InCall, Answer,
           OwnBytesFromOwnAnswer, FailureLeavesBuffers, Start, End
  <1> QED
    BY <1>4, <1>5 DEF IInv, Layout

(* A call whose RSP2 is late fails and leaves the buffers. *)
LEMMA TimesOutStep ==
    ASSUME IInv, NEW written, written \subseteq Buffers, TimesOut(written)
    PROVE  IInv'
  <1>1. /\ pc = "sent" /\ pc' = "returned" /\ result' \in Timeouts
        /\ owed' = {Stored(written, u32DataAreaLen)}
        /\ UNCHANGED <<pieces, nameLen, pstruParas, pParaBuf, struCmdPara, u32DataAreaLen, u8DataArea,
                       rsp2, own>>
    BY DEF TimesOut, Returns, call, request
  <1>2. Buffers' = Buffers /\ FilledBuffers' = FilledBuffers
    BY <1>1 DEF Buffers, FilledBuffers, IsBuffer
  <1>3. owed' \subseteq Areas
    BY <1>1, StoredFacts
  <1>4. TypeOK'
    BY <1>1, <1>2, <1>3 DEF IInv, Layout, TypeOK, Timeouts
  <1>5. BuffersApart' /\ Between' /\ Filling' /\ Stated' /\ Held' /\ PcOnly' /\ Answer' /\ OwnBytesFromOwnAnswer'
    BY <1>1, <1>2
       DEF IInv, Layout, BuffersApart, Between, Filling, Stated, Held, End, PcOnly, InCall, Answer,
           OwnBytesFromOwnAnswer, OwnBytesBack, Start, End, Timeouts, ECMD_RSP1_TIMEOUT_ERROR, ECMD_RSP2_TIMEOUT_ERROR, TESTCASE_SUCCESS
  <1>6. FailureLeavesBuffers'
    BY <1>1, <1>2 DEF IInv, Layout, Filling, InCall, FailureLeavesBuffers
  <1> QED
    BY <1>4, <1>5, <1>6 DEF IInv, Layout

(* What is copied back is what the RSP2 holds at the buffer's place. *)
LEMMA WriteBackStep == IInv /\ WriteBack => IInv'
  <1> SUFFICES ASSUME IInv, WriteBack PROVE IInv'
    OBVIOUS
  <1>1. /\ pc = "answered" /\ pc' = "returned" /\ result' = TESTCASE_SUCCESS /\ rsp2' = Cleared
        /\ pParaBuf' = [j \in DOMAIN pstruParas |-> IF IsBuffer(pstruParas, j)
                                                    THEN ReadBack(j) ELSE pParaBuf[j]]
        /\ UNCHANGED <<pieces, nameLen, pstruParas, struCmdPara, u32DataAreaLen, u8DataArea, own, owed>>
    BY DEF WriteBack, Returns, call, request
  <1>2. Buffers' = Buffers /\ FilledBuffers' = FilledBuffers
    BY <1>1 DEF Buffers, FilledBuffers, IsBuffer
  <1>3. \A j \in Buffers : pParaBuf'[j] = ReadBack(j)
    BY <1>1 DEF Buffers, IsBuffer
  <1>4. TypeOK'
    <2>1. ASSUME NEW j \in Buffers PROVE ReadBack(j) \in Seq(Bytes)
      <3>1. /\ AreaSize \in Nat /\ Start(j) \in Nat /\ pstruParas[j].s32ParaVal \in Nat
            /\ Start(j) + pstruParas[j].s32ParaVal <= AreaSize
        <4>1. /\ AreaSize \in Nat /\ u32DataAreaLen \in Nat /\ u32DataAreaLen <= AreaSize
              /\ Start(j) \in Nat /\ pstruParas[j].s32ParaVal \in Nat
              /\ Start(j) + pstruParas[j].s32ParaVal <= u32DataAreaLen
          BY <1>1, SentFacts
        <4> QED BY <4>1
      <3>2. \A k \in 1 .. pstruParas[j].s32ParaVal : Start(j) + k - 1 \in 0 .. AreaSize - 1
        BY <3>1
      <3>3. \A x \in 0 .. AreaSize - 1 : rsp2[x] \in Bytes
        BY DEF IInv, Layout, TypeOK, Areas
      <3>4. ReadBack(j) \in [1 .. pstruParas[j].s32ParaVal -> Bytes]
        BY <3>2, <3>3 DEF ReadBack, Start
      <3> QED
        BY <3>1, <3>4
    <2>2. \A j \in DOMAIN pParaBuf' : pParaBuf'[j] \in Seq(Bytes)
      BY <1>1, <2>1 DEF IInv, Layout, TypeOK, Buffers
    <2>3. DOMAIN pParaBuf' = DOMAIN pstruParas'
      BY <1>1
    <2> QED
      BY <1>1, <1>2, <2>2, <2>3, ClearedFacts DEF IInv, Layout, TypeOK
  <1>5. OwnBytesFromOwnAnswer'
    <2> SUFFICES ASSUME own PROVE OwnBytesBack'
      BY <1>1 DEF OwnBytesFromOwnAnswer
    <2>1. \A j \in Buffers : \A k \in 1 .. pstruParas[j].s32ParaVal :
            ReadBack(j)[k] = rsp2[Start(j) + k - 1]
      BY DEF ReadBack, Start
    <2>2. \A j \in Buffers : \A k \in 1 .. pstruParas[j].s32ParaVal :
            pParaBuf'[j][k] \in {<<"pc", j, k>>, <<"board", j, k>>, Zero}
      BY <1>1, <1>3, <2>1 DEF IInv, Answer
    <2> QED
      BY <1>1, <1>2, <2>2 DEF OwnBytesBack
  <1>6. BuffersApart' /\ Between' /\ Filling' /\ Stated' /\ Held' /\ PcOnly' /\ Answer' /\ FailureLeavesBuffers'
    BY <1>1, <1>2
       DEF IInv, Layout, BuffersApart, Between, Filling, Stated, Held, End, PcOnly, InCall, Answer,
           FailureLeavesBuffers, Start, End
  <1> QED
    BY <1>4, <1>5, <1>6 DEF IInv, Layout

(* Back in the caller the request is gone. *)
LEMMA BackInCallerStep == IInv /\ BackInCaller => IInv'
  <1> SUFFICES ASSUME IInv, BackInCaller PROVE IInv'
    OBVIOUS
  <1>1. /\ pc' = "idle" /\ pieces' = <<>> /\ nameLen' = 0 /\ pstruParas' = <<>> /\ pParaBuf' = <<>>
        /\ struCmdPara' = <<>> /\ u32DataAreaLen' = 0 /\ u8DataArea' = Cleared
        /\ result' = NoResult /\ rsp2' = rsp2 /\ own' = own /\ owed' = owed
    BY DEF BackInCaller, answer
  <1>2. Buffers' = {} /\ FilledBuffers' = {}
    BY <1>1 DEF Buffers, FilledBuffers
  <1>3. TypeOK'
    BY <1>1, <1>2, EmptySeq, ClearedFacts DEF IInv, Layout, TypeOK
  <1>4. BuffersApart' /\ Between' /\ Filling' /\ Stated' /\ Held' /\ Answer' /\ OwnBytesFromOwnAnswer' /\ FailureLeavesBuffers'
    BY <1>1, <1>2, SizesAssumption
       DEF BuffersApart, Between, Filling, InCall, Stated, Held, End, Answer, OwnBytesFromOwnAnswer,
           OwnBytesBack, FailureLeavesBuffers, NoResult, TESTCASE_SUCCESS
  <1>5. PcOnly'
    BY <1>1, ClearedFacts DEF PcOnly, Zero
  <1> QED
    BY <1>3, <1>4, <1>5 DEF IInv, Layout

(* Every step keeps the invariant. *)
LEMMA NextIInv == IInv /\ [Next]_vars => IInv'
  <1> SUFFICES ASSUME IInv, [Next]_vars PROVE IInv'
    OBVIOUS
  <1>1. ASSUME NEW n \in NameLengths, NEW ps \in Parameters, ExcuteCmd(n, ps) PROVE IInv'
    <2>1. ps \in Seq(ParaType) /\ \A j \in DOMAIN ps : ps[j].s32ParaType = BUFFER => ps[j].s32ParaVal \in Nat
      BY SizesAssumption DEF ParaType, BUFFER
    <2>2. pc = "idle" /\ Starts(n, ps) /\ pieces' = pieces
      BY <1>1 DEF ExcuteCmd
    <2>3. pieces' \in Seq(Int) /\ pieces' = <<>>
      BY <2>2 DEF IInv, Layout, TypeOK, Between
    <2> QED
      BY <2>1, <2>2, <2>3, StartStep
  <1>2. ASSUME NEW n \in NameLengths, NEW ps \in Pieces, ExcuteCmdText(n, ps) PROVE IInv'
    <2>1. ps \in Seq(Int) /\ ps # <<>>
      BY SizesAssumption
    <2>2. CutParameters(ps) \in Seq(ParaType)
          /\ \A j \in DOMAIN CutParameters(ps) : CutParameters(ps)[j].s32ParaType = NUMBER
      BY <2>1, CutFacts
    <2>3. pc = "idle" /\ Starts(n, CutParameters(ps)) /\ pieces' = ps
      BY <1>2 DEF ExcuteCmdText
    <2>4. \A j \in DOMAIN CutParameters(ps) :
            CutParameters(ps)[j].s32ParaType = BUFFER => CutParameters(ps)[j].s32ParaVal \in Nat
      BY <2>2 DEF NUMBER, BUFFER
    <2>5. pieces' \in Seq(Int)
      BY <2>1, <2>3
    <2> QED
      BY <2>2, <2>3, <2>4, <2>5, StartStep
  <1>3. ASSUME NEW ps \in Parameters, ExcuteCmdTooMany(ps) PROVE IInv'
    BY <1>3, TooManyStep
  <1>4. ASSUME NEW written \in SUBSET Buffers
        PROVE  /\ \A len \in {0, u32DataAreaLen} : DealRsp2(written, len) => IInv'
               /\ \A area \in owed : DealLateRsp2(area, written) => IInv'
               /\ TimesOut(written) => IInv'
    BY <1>4, DealRsp2Step, DealLateRsp2Step, TimesOutStep
  <1>5. CASE FillNumber \/ FillBuffer \/ FillRefused \/ SendRequest
    BY <1>5, FillNumberStep, FillBufferStep, FillRefusedStep, SendRequestStep
  <1>6. CASE NotExecuted \/ WriteBack \/ BackInCaller
    BY <1>6, NotExecutedStep, WriteBackStep, BackInCallerStep
  <1>7. CASE UNCHANGED vars
    <2>1. UNCHANGED <<pc, pieces, nameLen, pstruParas, pParaBuf, struCmdPara, u32DataAreaLen, u8DataArea,
                      rsp2, own, owed, result>>
      BY <1>7 DEF vars, call, request, answer
    <2> QED
      BY <2>1 DEF IInv, Layout, TypeOK, BuffersApart, Between, Filling, InCall, Stated, Held, End, PcOnly, Answer,
                  OwnBytesFromOwnAnswer, OwnBytesBack, FailureLeavesBuffers, Buffers, FilledBuffers, IsBuffer, Start, End
  <1> QED
    BY <1>1, <1>2, <1>3, <1>4, <1>5, <1>6, <1>7 DEF Next

(* The invariant holds in every state. *)
LEMMA SpecIInv == Spec => []IInv
  BY InitIInv, NextIInv, PTL DEF Spec

(* The variables always have their types, whatever the sizes. *)
THEOREM TypeCorrect == Spec => []TypeOK
  <1>1. IInv => TypeOK
    BY DEF IInv, Layout
  <1> QED
    BY <1>1, SpecIInv, PTL

(* For every area size and every list of parameters, the buffers of a      *)
(* request are aligned, apart and inside what the request says it uses     *)
(* (WorkManager.cpp:1420-1468).                                            *)
THEOREM LayoutIsSound == Spec => []BuffersApart
  <1>1. IInv => BuffersApart
    BY DEF IInv, Layout
  <1> QED
    BY <1>1, SpecIInv, PTL

(* Whatever part of the area comes back in the RSP2 of the request, a      *)
(* buffer receives its own bytes only (WorkManager.cpp:1139-1151,          *)
(* 1537-1553).                                                             *)
THEOREM BuffersGetTheirOwn == Spec => []OwnBytesFromOwnAnswer
  <1>1. IInv => OwnBytesFromOwnAnswer
    BY DEF IInv
  <1> QED
    BY <1>1, SpecIInv, PTL

(* Failing calls leave the caller's buffers alone. *)
THEOREM FailuresAreClean == Spec => []FailureLeavesBuffers
  <1>1. IInv => FailureLeavesBuffers
    BY DEF IInv
  <1> QED
    BY <1>1, SpecIInv, PTL

(* What goes out holds the name and every buffer in full. *)
THEOREM WholeRequests == Spec => []RequestIsWhole
  <1>1. IInv => RequestIsWhole
    <2> SUFFICES ASSUME IInv, pc \in {"sent", "answered"} PROVE RequestIsWhole
      BY DEF RequestIsWhole
    <2>1. InCall /\ pc # "filling"
      BY DEF InCall
    <2>2. \A j \in Buffers : \A k \in 1 .. pstruParas[j].s32ParaVal :
            u8DataArea[Start(j) + k - 1] = <<"pc", j, k>>
      BY SentFacts
    <2> QED
      BY <2>1, <2>2 DEF IInv, Layout, Filling, Held, RequestIsWhole
  <1> QED
    BY <1>1, SpecIInv, PTL

(* What the board wrote for the request and sent back is in the caller's    *)
(* buffer, at its place, once the call returns (WorkManager.cpp:1537-1553). *)
THEOREM BoardsWorkArrives == Spec => BoardsWorkReachesCaller
  <1>1. IInv /\ [Next]_vars => [pc = "answered" /\ own => \A x \in DOMAIN rsp2 :
          rsp2[x][1] = "board" => pParaBuf'[rsp2[x][2]][rsp2[x][3]] = rsp2[x]]_vars
    <2> SUFFICES ASSUME IInv, Next, pc = "answered", own, NEW x \in DOMAIN rsp2, rsp2[x][1] = "board"
                 PROVE  pParaBuf'[rsp2[x][2]][rsp2[x][3]] = rsp2[x]
      OBVIOUS
    <2>1. WriteBack
      BY DEF Next, ExcuteCmd, ExcuteCmdText, ExcuteCmdTooMany, FillNumber, FillBuffer, FillRefused,
             SendRequest, DealRsp2, DealLateRsp2, TimesOut, NotExecuted, BackInCaller
    <2>2. x \in 0 .. AreaSize - 1
      BY DEF IInv, Layout, TypeOK, Areas
    <2>3. PICK j \in Buffers : \E k \in 1 .. pstruParas[j].s32ParaVal :
            x = Start(j) + k - 1 /\ rsp2[x] = <<"board", j, k>>
      BY <2>2 DEF IInv, Answer
    <2>4. PICK k \in 1 .. pstruParas[j].s32ParaVal :
            x = Start(j) + k - 1 /\ rsp2[x] = <<"board", j, k>>
      BY <2>3
    <2>5. pParaBuf'[j] = ReadBack(j)
      BY <2>1 DEF WriteBack, Buffers, IsBuffer
    <2>6. ReadBack(j)[k] = rsp2[x]
      BY <2>4 DEF ReadBack, Start
    <2>7. rsp2[x][2] = j /\ rsp2[x][3] = k
      BY <2>4
    <2> QED
      BY <2>5, <2>6, <2>7
  <1> QED
    BY <1>1, SpecIInv, PTL DEF Spec, BoardsWorkReachesCaller
-----------------------------------------------------------------------------

(* A script's call is one with its converted parameters stated, and one    *)
(* whose parameters cannot be converted is none.                           *)
LEMMA ExecuteCommandIsACall ==
    ASSUME NEW n \in NameLengths, NEW ts \in Texts, ExecuteCommand(n, ts)
    PROVE  Next
  <1> DEFINE ps == create_testcase_parameters(ts)
  <1>1. ps \in Parameters
    BY CallsAssumption DEF ExecuteCommand
  <1>2. ExcuteCmd(n, ps) \/ ExcuteCmdTooMany(ps)
    BY DEF ExecuteCommand
  <1> HIDE DEF ps
  <1> QED
    BY <1>1, <1>2 DEF Next

(* Other callers state lists of Parameters too.                            *)
LEMMA ByOthersIsACall ==
    ASSUME NEW n \in NameLengths, ByOthers(n)
    PROVE  Next
  BY CallsAssumption DEF ByOthers, Next

(* Every call of a test script with parameters as it writes them is a      *)
(* behaviour of the library's parameter path: execute_command adds nothing *)
(* the library has to provide for (TestCaseClient.py:51-99).               *)
THEOREM ScriptsCallTheLibrary == CallSpec => Spec
  <1>1. CallInit => Init
    BY DEF CallInit
  <1>2. [CallNext]_callVars => [Next]_vars
    <2> SUFFICES ASSUME [CallNext]_callVars
                 PROVE  [Next]_vars
      OBVIOUS
    <2>1. CASE \E n \in NameLengths : ByOthers(n)
      BY <2>1, ByOthersIsACall
    <2>2. CASE \E n \in NameLengths, ts \in Texts : ExecuteCommand(n, ts)
      BY <2>2, ExecuteCommandIsACall
    <2>3. CASE \E ts \in Texts : ExecuteCommandRaises(ts)
      BY <2>3 DEF ExecuteCommandRaises, callVars
    <2>4. CASE Within
      BY <2>4 DEF Within, Next
    <2>5. CASE CallBack
      BY <2>5 DEF CallBack, Next
    <2>6. CASE UNCHANGED callVars
      BY <2>6 DEF callVars
    <2> QED
      BY <2>1, <2>2, <2>3, <2>4, <2>5, <2>6 DEF CallNext
  <1> QED
    BY <1>1, <1>2, PTL DEF CallSpec, Spec

(* The request of a script's call holds every byte of every buffer its     *)
(* parameters were converted to (WorkManager.cpp:1407, 1451-1452).         *)
THEOREM ScriptsRequestsAreWhole == CallSpec => []RequestIsWhole
  BY ScriptsCallTheLibrary, WholeRequests, PTL

(* A script gets no byte of another parameter back into a buffer           *)
(* (WorkManager.cpp:1537-1553).                                            *)
THEOREM ScriptsGetTheirOwnBytes == CallSpec => []OwnBytesFromOwnAnswer
  BY ScriptsCallTheLibrary, BuffersGetTheirOwn, PTL

(* And every byte the board wrote into one (TestCaseClient.py:95).         *)
THEOREM ScriptsGetTheBoardsWork == CallSpec => BoardsWorkReachesCaller
  BY ScriptsCallTheLibrary, BoardsWorkArrives
-----------------------------------------------------------------------------
(* The parameters the library works on are the script's, and could be converted. *)
TextsHeld ==
    /\ texts \in Texts \cup {<<>>}
    /\ texts # <<>> => \A j \in DOMAIN texts : ~Raises(texts[j])
    /\ InCall /\ texts # <<>> => pstruParas = create_testcase_parameters(texts)

(* No step of a call changes them. *)
LEMMA TextsStep == TextsHeld /\ [CallNext]_callVars => TextsHeld'
  <1> SUFFICES ASSUME TextsHeld, [CallNext]_callVars PROVE TextsHeld'
    OBVIOUS
  <1> USE DEF TextsHeld, InCall
  <1>1. ASSUME NEW n \in NameLengths, ByOthers(n) PROVE TextsHeld'
    <2>1. texts' = <<>>
      BY <1>1 DEF ByOthers
    <2> QED
      BY <2>1
  <1>2. ASSUME NEW n \in NameLengths, NEW ts \in Texts, ExecuteCommand(n, ts) PROVE TextsHeld'
    <2>1. CASE ExcuteCmd(n, create_testcase_parameters(ts))
      BY <1>2, <2>1 DEF ExecuteCommand, ExcuteCmd, Starts
    <2>2. CASE ExcuteCmdTooMany(create_testcase_parameters(ts))
      <3>1. pc' = "returned" /\ texts' = ts
        BY <1>2, <2>2 DEF ExecuteCommand, ExcuteCmdTooMany, Returns
      <3>2. \A j \in DOMAIN ts : ~Raises(ts[j])
        BY <1>2 DEF ExecuteCommand
      <3> QED
        BY <3>1, <3>2
    <2> QED
      BY <1>2, <2>1, <2>2 DEF ExecuteCommand
  <1>3. CASE Within
    <2>1. texts' = texts /\ pstruParas' = pstruParas /\ (InCall' => InCall)
      BY <1>3 DEF Within, FillNumber, FillBuffer, FillRefused, SendRequest, DealRsp2, DealLateRsp2, TimesOut,
                  NotExecuted, WriteBack, Returns, call
    <2> QED
      BY <2>1
  <1>4. CASE CallBack
    BY <1>4 DEF CallBack
  <1>5. CASE UNCHANGED callVars
    BY <1>5 DEF callVars, vars, call
  <1> QED
    BY <1>1, <1>2, <1>3, <1>4, <1>5 DEF CallNext, ExecuteCommandRaises

(* What holds of every call of a script. *)
LEMMA CallInvariant == CallSpec => [](IInv /\ TextsHeld)
  <1>1. CallInit => TextsHeld
    BY DEF CallInit, Init, TextsHeld, InCall
  <1>2. CallSpec => []IInv
    BY ScriptsCallTheLibrary, SpecIInv, PTL
  <1> QED
    BY <1>1, <1>2, TextsStep, PTL DEF CallSpec

(* In a request that is out, parameter j of the list is the j-th text's. *)
LEMMA SentParameter ==
    ASSUME IInv, TextsHeld, Sent, NEW j \in DOMAIN texts
    PROVE  /\ pstruParas[j] = Parameter(texts[j]) /\ j \in DOMAIN struCmdPara
           /\ texts[j].kind # "number" => j \in Buffers /\ j \in FilledBuffers
           /\ texts[j].kind = "number" => j \notin FilledBuffers
  <1>1. InCall /\ pc # "filling" /\ texts # <<>>
    BY DEF Sent, InCall
  <1>2. pstruParas = [k \in DOMAIN texts |-> Parameter(texts[k])]
    BY <1>1 DEF TextsHeld, create_testcase_parameters
  <1>3. pstruParas[j] = Parameter(texts[j]) /\ j \in DOMAIN pstruParas
    BY <1>2
  <1>4. DOMAIN struCmdPara = DOMAIN pstruParas
    BY <1>1, Lists DEF IInv, Layout, Filling
  <1>5. IsBuffer(pstruParas, j) <=> texts[j].kind # "number"
    BY <1>3 DEF IsBuffer, Parameter, BUFFER
  <1> QED
    BY <1>3, <1>4, <1>5 DEF Buffers, FilledBuffers

(* What the board reads at the place of each buffer. *)
BuffersArrive ==
  Sent => \A j \in DOMAIN texts : texts[j].kind # "number" =>
            \A k \in 1 .. Total(texts[j]) : ByteAt(Start(j) + k - 1) = Buf(texts[j])[k]

(* The bytes a script's parameter was converted to are those the board      *)
(* sees at the place of the parameter: what remains of FieldsArrive is what *)
(* ParameterHelper writes into a buffer (WorkManager.cpp:1451-1452).        *)
THEOREM ConvertedBuffersArrive == CallSpec => []BuffersArrive
  <1>1. IInv /\ TextsHeld => BuffersArrive
    <2> SUFFICES ASSUME IInv, TextsHeld, Sent, NEW j \in DOMAIN texts, texts[j].kind # "number",
                        NEW k \in 1 .. Total(texts[j])
                 PROVE  ByteAt(Start(j) + k - 1) = Buf(texts[j])[k]
      BY DEF BuffersArrive
    <2>1. j \in Buffers /\ pstruParas[j] = Parameter(texts[j])
      BY SentParameter
    <2>2. pstruParas[j].s32ParaVal = Total(texts[j])
      BY <2>1 DEF Parameter, Total
    <2>3. u8DataArea[Start(j) + k - 1] = <<"pc", j, k>>
      BY <2>1, <2>2, SentFacts DEF Sent, InCall
    <2>4. u8DataArea[Start(j) + k - 1][1] = "pc" /\ u8DataArea[Start(j) + k - 1][2] = j
          /\ u8DataArea[Start(j) + k - 1][3] = k /\ u8DataArea[Start(j) + k - 1] # Zero
      BY <2>3 DEF Zero
    <2> QED
      BY <2>4 DEF ByteAt
  <1> QED
    BY <1>1, CallInvariant, PTL

(* A script's string that another buffer follows ends with a zero on the    *)
(* board, if its length is no multiple of four (ParameterHelper.py:157-159, *)
(* WorkManager.cpp:1434-1438).                                              *)
THEOREM StringsEndOnTheBoard == CallSpec => []StringsEnd
  <1>1. IInv /\ TextsHeld => StringsEnd
    <2> SUFFICES ASSUME IInv, TextsHeld, Sent, NEW j \in DOMAIN texts, texts[j].kind = "string",
                        Len(texts[j].text) % 4 # 0, End(j) < u32DataAreaLen
                 PROVE  u8DataArea[End(j)] = Zero
      BY DEF StringsEnd
    <2>1. /\ pstruParas[j] = Parameter(texts[j]) /\ j \in Buffers /\ j \in FilledBuffers
      BY SentParameter
    <2>2. Buf(texts[j]) = texts[j].text
      BY DEF Buf
    <2>3. pstruParas[j].s32ParaVal = Len(texts[j].text)
      BY <2>1, <2>2 DEF Parameter
    <2>4. PICK len \in Nat : len = Len(texts[j].text)
      BY <2>1, <2>3 DEF IInv, Layout, TypeOK
    <2>5. /\ struCmdPara[j].s32ParaLen = len /\ Start(j) \in Nat /\ Start(j) % 4 = 0
      BY <2>1, <2>3, <2>4, Lists DEF IInv, Layout, BuffersApart, Start, FilledBuffers, CmdParaType
    <2>6. PICK at \in Nat : at = Start(j) /\ at % 4 = 0 /\ End(j) = at + len
      BY <2>5 DEF End, Start
    <2>a. len % 4 # 0
      BY <2>4
    <2>7. End(j) % 4 # 0
      BY <2>6, <2>a
    <2>8. InCall /\ Held
      BY DEF Sent, InCall, IInv, Layout
    <2> QED
      BY <2>1, <2>7, <2>8 DEF Held
  <1> QED
    BY <1>1, CallInvariant, PTL

(* A c_int keeps a number up to a multiple of its range. *)
LEMMA CIntFacts ==
    ASSUME NEW v \in Int
    PROVE  (c_int(v) - v) % Word = 0 /\ c_int(v) \in Int
  <1>1. PICK m \in Nat \ {0} : m = Word
    <2>1. \A a, b \in Nat \ {0} : a * b \in Nat \ {0}
      OBVIOUS
    <2> QED
      BY <2>1, BaseAssumption DEF Word
  <1>2. PICK h \in Int : h = m \div 2
    BY <1>1
  <1>3. c_int(v) = ((v + h) % m) - h
    BY <1>1, <1>2 DEF c_int
  <1>4. PICK q \in Int : q = (v + h) \div m /\ v + h = m * q + ((v + h) % m)
    <2>1. PICK x \in Int : x = v + h
      OBVIOUS
    <2>2. x = m * (x \div m) + (x % m) /\ x \div m \in Int
      OBVIOUS
    <2> QED
      BY <2>1, <2>2
  <1>5. c_int(v) - v = m * (- q) /\ c_int(v) \in Int
    <2>1. PICK r \in Int : r = (v + h) % m
      OBVIOUS
    <2>2. v + h = m * q + r /\ c_int(v) = r - h
      BY <1>3, <1>4, <2>1
    <2>3. PICK y \in Int : y = m * q
      OBVIOUS
    <2>4. m * (- q) = - y
      BY <2>3
    <2> QED
      BY <2>2, <2>3, <2>4
  <1>6. (m * (- q)) % m = 0
    OBVIOUS
  <1> QED
    BY <1>1, <1>5, <1>6

(* Nothing missing, the cut goes through to the last piece. *)
LEMMA CutWhole ==
    ASSUME NEW ps \in Seq(Int), ps # <<>>, \A j \in DOMAIN ps : ps[j] # Empty
    PROVE  CutParameters(ps) = [j \in DOMAIN ps |-> [s32ParaType |-> NUMBER, s32ParaVal |-> ps[j]]]
  <1>1. DOMAIN ps = 1 .. Len(ps) /\ Len(ps) \in Nat /\ Len(ps) >= 1
    OBVIOUS
  <1>2. Stops(ps) = {Len(ps)}
    BY <1>1 DEF Stops
  <1>3. StopsAt(ps) = Len(ps)
    BY <1>1, <1>2 DEF StopsAt
  <1>4. \A j \in DOMAIN ps : strtoul(ps[j]) = ps[j]
    BY DEF strtoul
  <1> QED
    BY <1>1, <1>3, <1>4 DEF CutParameters

(* The numbers of a call are those its caller wrote, the script's up to a   *)
(* multiple of 2^32 (ParameterHelper.py:167-170, WorkManager.cpp:253-271,   *)
(* 1420-1430).                                                              *)
THEOREM NumbersReachTheBoard == CallSpec => []NumbersArrive
  <1>1. IInv /\ TextsHeld => NumbersArrive
    <2> SUFFICES ASSUME IInv, TextsHeld, pc = "sent"
                 PROVE  NumbersArrive
      BY DEF NumbersArrive
    <2>0. InCall /\ pc # "filling"
      BY DEF InCall
    <2>1. ASSUME NEW j \in DOMAIN texts, texts[j].kind = "number"
          PROVE  (struCmdPara[j].s32ParaVal - texts[j].value) % Word = 0
      <3>1. Sent /\ texts \in Texts
        BY <2>1 DEF Sent, TextsHeld
      <3>2. texts[j].value \in Int
        BY <3>1, <2>1, CallsAssumption
      <3>3. /\ pstruParas[j] = Parameter(texts[j]) /\ j \in DOMAIN struCmdPara \ FilledBuffers
        BY <3>1, <2>1, SentParameter
      <3>4. struCmdPara[j].s32ParaVal = pstruParas[j].s32ParaVal
        BY <2>0, <3>3 DEF IInv, Layout, Stated
      <3>5. pstruParas[j].s32ParaVal = c_int(texts[j].value)
        BY <2>1, <3>3 DEF Parameter
      <3> QED
        BY <3>2, <3>4, <3>5, CIntFacts
    <2>2. ASSUME pieces # <<>>, \A j \in DOMAIN pieces : pieces[j] # Empty
          PROVE  [j \in DOMAIN struCmdPara |-> struCmdPara[j].s32ParaVal] = pieces
      <3>1. pieces \in Seq(Int)
        BY <2>2, SizesAssumption DEF IInv, Layout, TypeOK
      <3>2. pstruParas = [j \in DOMAIN pieces |-> [s32ParaType |-> NUMBER, s32ParaVal |-> pieces[j]]]
        BY <2>0, <2>2, <3>1, CutWhole DEF IInv, Layout, Stated
      <3>3. DOMAIN struCmdPara = DOMAIN pieces
        BY <2>0, <3>2, Lists DEF IInv, Layout, Filling
      <3>4. FilledBuffers = {}
        BY <3>2, <3>3 DEF FilledBuffers, Buffers, IsBuffer, NUMBER, BUFFER
      <3>5. \A j \in DOMAIN struCmdPara : struCmdPara[j].s32ParaVal = pieces[j]
        BY <2>0, <3>2, <3>3, <3>4 DEF IInv, Layout, Stated
      <3> QED
        BY <3>1, <3>3, <3>5
    <2> QED
      BY <2>1, <2>2 DEF NumbersArrive
  <1> QED
    BY <1>1, CallInvariant, PTL

-----------------------------------------------------------------------------
(* Induction, and the recursive functions it is needed for.                *)

(* A set of naturals that holds 0 and the successor of each of its members *)
(* holds them all: induction, with the set of the numbers a property holds *)
(* of in the place of the property.                                        *)
LEMMA Induction ==
    ASSUME NEW T, 0 \in T, \A n \in Nat : n \in T => n + 1 \in T
    PROVE  Nat \subseteq T
  <1> SUFFICES ASSUME Nat \ T # {} PROVE FALSE
    OBVIOUS
  <1>1. PICK x \in Nat \ T : \A y \in Nat \ T : x <= y
    BY LeastNatural
  <1>2. x - 1 \in Nat /\ x - 1 \notin Nat \ T
    BY <1>1
  <1> QED
    BY <1>1, <1>2

(* A function of the sets below n that chooses an element, and combines it *)
(* with its value for the rest of the set: the folds are such functions.   *)
NonEmpty(n) == {T \in SUBSET (1 .. n) : T # {}}
IsFoldStep(step, n, V) == step \in [(1 .. n) \X V -> V]
IsPick(pick, n) ==
  /\ DOMAIN pick = NonEmpty(n)
  /\ \A T \in NonEmpty(n) : pick[T] \in T
IsFold(g, n, V, base, step, pick) ==
  /\ g \in [SUBSET (1 .. n) -> V]
  /\ g = [T \in SUBSET (1 .. n) |->
           IF T = {} THEN base ELSE step[<<pick[T], g[T \ {pick[T]}]>>]]

(* Such a function exists, whatever the base, the step and the choice are. *)
LEMMA FoldExists ==
    ASSUME NEW n \in Nat, NEW V, NEW base \in V, NEW step, IsFoldStep(step, n, V),
           NEW pick, IsPick(pick, n)
    PROVE  \E g : IsFold(g, n, V, base, step, pick)
  <1> USE DEF IsFoldStep, IsPick, NonEmpty
  <1> DEFINE Upto(m) == {T \in SUBSET (1 .. n) : Cardinality(T) <= m}
             IsUpto(g, m) ==
               /\ g \in [Upto(m) -> V]
               /\ \A T \in Upto(m) : g[T] = IF T = {} THEN base ELSE step[<<pick[T], g[T \ {pick[T]}]>>]
             Good == {m \in Nat : \E g : IsUpto(g, m)}
  <1>1. \A T \in SUBSET (1 .. n) : IsFiniteSet(T) /\ Cardinality(T) \in Nat /\ Cardinality(T) <= n
    <2>1. IsFiniteSet(1 .. n) /\ Cardinality(1 .. n) = n
      BY FS_Interval
    <2>2. ASSUME NEW T \in SUBSET (1 .. n) PROVE IsFiniteSet(T) /\ Cardinality(T) <= n
      <3>1. IsFiniteSet(T) /\ Cardinality(T) <= Cardinality(1 .. n)
        BY <2>1, FS_Subset
      <3> QED
        BY <2>1, <3>1
    <2> QED
      BY <2>2, FS_CardinalityType
  <1>2. \A T \in NonEmpty(n) : /\ Cardinality(T \ {pick[T]}) = Cardinality(T) - 1
                                          /\ T \ {pick[T]} \in SUBSET (1 .. n)
    <2> SUFFICES ASSUME NEW T \in NonEmpty(n)
                 PROVE  Cardinality(T \ {pick[T]}) = Cardinality(T) - 1 /\ T \ {pick[T]} \in SUBSET (1 .. n)
      OBVIOUS
    <2>1. T \in SUBSET (1 .. n) /\ pick[T] \in T
      OBVIOUS
    <2>2. IsFiniteSet(T)
      BY <1>1, <2>1
    <2>3. Cardinality(T \ {pick[T]}) = IF pick[T] \in T THEN Cardinality(T) - 1 ELSE Cardinality(T)
      BY <2>2, FS_RemoveElement
    <2> QED
      BY <2>1, <2>3
  <1>3. \A T \in SUBSET (1 .. n) : Cardinality(T) = 0 => T = {}
    BY <1>1, FS_EmptySet
  <1>4. 0 \in Good
    <2> DEFINE g == [T \in Upto(0) |-> base]
    <2>1. \A T \in Upto(0) : T = {}
      BY <1>1, <1>3
    <2>2. IsUpto(g, 0)
      BY <2>1
    <2> QED
      BY <2>2
  <1>5. ASSUME NEW m \in Nat, m \in Good PROVE m + 1 \in Good
    <2>1. PICK g : IsUpto(g, m)
      BY <1>5
    <2> DEFINE rest(T) == T \ {pick[T]}
               h == [T \in Upto(m + 1) |-> IF T = {} THEN base ELSE step[<<pick[T], g[rest(T)]>>]]
    <2>2. \A T \in Upto(m + 1) : T # {} =>
            rest(T) \in Upto(m) /\ g[rest(T)] \in V /\ <<pick[T], g[rest(T)]>> \in (1 .. n) \X V
      <3> SUFFICES ASSUME NEW T \in Upto(m + 1), T # {}
                   PROVE  /\ rest(T) \in Upto(m) /\ g[rest(T)] \in V
                          /\ <<pick[T], g[rest(T)]>> \in (1 .. n) \X V
        OBVIOUS
      <3>1. Cardinality(T) \in Nat /\ Cardinality(T) <= m + 1 /\ Cardinality(rest(T)) = Cardinality(T) - 1
            /\ rest(T) \in SUBSET (1 .. n)
        BY <1>1, <1>2
      <3>2. rest(T) \in Upto(m)
        BY <3>1
      <3> HIDE DEF Upto, rest
      <3>3. g[rest(T)] \in V
        BY <2>1, <3>2
      <3>4. pick[T] \in 1 .. n
        BY DEF Upto
      <3> QED
        BY <3>2, <3>3, <3>4
    <2>3. \A T \in Upto(m) : T \in Upto(m + 1) /\ h[T] = g[T]
      <3> SUFFICES ASSUME NEW T \in Upto(m) PROVE T \in Upto(m + 1) /\ h[T] = g[T]
        OBVIOUS
      <3>1. T \in Upto(m + 1)
        BY <1>1
      <3>2. g[T] = IF T = {} THEN base ELSE step[<<pick[T], g[T \ {pick[T]}]>>]
        BY <2>1
      <3> HIDE DEF Upto
      <3> QED
        BY <3>1, <3>2
    <2>4. h \in [Upto(m + 1) -> V]
      <3> HIDE DEF Upto, rest
      <3>1. \A T \in Upto(m + 1) : T # {} => step[<<pick[T], g[rest(T)]>>] \in V
        BY <2>2
      <3> QED
        BY <3>1
    <2>5. \A T \in Upto(m + 1) : h[T] = IF T = {} THEN base ELSE step[<<pick[T], h[rest(T)]>>]
      <3> HIDE DEF Upto, rest
      <3> SUFFICES ASSUME NEW T \in Upto(m + 1)
                   PROVE  h[T] = IF T = {} THEN base ELSE step[<<pick[T], h[rest(T)]>>]
        OBVIOUS
      <3>1. T # {} => h[rest(T)] = g[rest(T)]
        BY <2>2, <2>3
      <3> QED
        BY <3>1
    <2>6. IsUpto(h, m + 1)
      <3> HIDE DEF h, Upto
      <3> QED BY <2>4, <2>5
    <2> HIDE DEF IsUpto
    <2> QED
      BY <2>6
  <1>6. n \in Good
    <2> HIDE DEF Good
    <2> QED
      BY <1>4, <1>5, Induction
  <1>7. PICK g : IsUpto(g, n)
    BY <1>6
  <1>8. Upto(n) = SUBSET (1 .. n)
    BY <1>1
  <1>9. /\ g = [T \in SUBSET (1 .. n) |->
                  IF T = {} THEN base ELSE step[<<pick[T], g[T \ {pick[T]}]>>]]
        /\ g \in [SUBSET (1 .. n) -> V]
    <2> HIDE DEF Upto
    <2>1. g \in [SUBSET (1 .. n) -> V]
      BY <1>7, <1>8
    <2>2. \A T \in SUBSET (1 .. n) : g[T] = IF T = {} THEN base ELSE step[<<pick[T], g[T \ {pick[T]}]>>]
      BY <1>7, <1>8
    <2> QED
      BY <2>1, <2>2
  <1>10. IsFold(g, n, V, base, step, pick)
    BY <1>9 DEF IsFold
  <1> QED
    BY <1>10

(* A function on the naturals defined by its value at 0 and by what follows *)
(* from each value.                                                         *)
IsStep(step, V) == step \in [Nat \X V -> V]
IsRecursion(g, V, base, step) ==
  g \in [Nat -> V] /\ g[0] = base /\ \A n \in Nat : g[n + 1] = step[<<n, g[n]>>]

(* Such a function exists, whatever the base and the step are.             *)
LEMMA RecursionExists ==
    ASSUME NEW V, NEW base \in V, NEW step, IsStep(step, V)
    PROVE  \E g : IsRecursion(g, V, base, step)
  <1> USE DEF IsStep
  <1> DEFINE IsUpto(g, n) ==
               /\ g \in [0 .. n -> V] /\ g[0] = base
               /\ \A i \in 0 .. n - 1 : g[i + 1] = step[<<i, g[i]>>]
             Good == {n \in Nat : \E g : IsUpto(g, n)}
             At(n) == CHOOSE g : IsUpto(g, n)
  <1>1. 0 \in Good
    <2> DEFINE g == [i \in 0 .. 0 |-> base]
    <2>1. IsUpto(g, 0)
      OBVIOUS
    <2> QED
      BY <2>1
  <1>2. ASSUME NEW n \in Nat, n \in Good PROVE n + 1 \in Good
    <2>1. PICK g : IsUpto(g, n)
      BY <1>2
    <2> DEFINE h == [i \in 0 .. n + 1 |-> IF i <= n THEN g[i] ELSE step[<<n, g[n]>>]]
    <2>2. g[n] \in V /\ step[<<n, g[n]>>] \in V
      BY <2>1
    <2>3. h \in [0 .. n + 1 -> V] /\ h[0] = base
      BY <2>1, <2>2
    <2>4. \A i \in 0 .. n : h[i + 1] = step[<<i, h[i]>>]
      <3>1. \A i \in 0 .. n - 1 : h[i + 1] = g[i + 1] /\ h[i] = g[i] /\ g[i + 1] = step[<<i, g[i]>>]
        BY <2>1
      <3>2. h[n + 1] = step[<<n, g[n]>>] /\ h[n] = g[n]
        OBVIOUS
      <3> HIDE DEF h
      <3>3. \A i \in 0 .. n : i \in 0 .. n - 1 \/ i = n
        OBVIOUS
      <3> QED
        BY <3>1, <3>2, <3>3
    <2>5. IsUpto(h, n + 1)
      <3> HIDE DEF h
      <3> QED
        BY <2>3, <2>4
    <2> HIDE DEF IsUpto
    <2> QED
      BY <2>5
  <1>3. \A n \in Nat : IsUpto(At(n), n)
    <2> HIDE DEF Good, IsUpto
    <2>1. Nat \subseteq Good
      BY <1>1, <1>2, Induction
    <2> QED
      BY <2>1 DEF Good
  <1>4. ASSUME NEW n \in Nat PROVE At(n + 1)[n] = At(n)[n]
    <2> DEFINE Same == {i \in Nat : i <= n => At(n + 1)[i] = At(n)[i]}
    <2>1. IsUpto(At(n), n) /\ IsUpto(At(n + 1), n + 1)
      <3> HIDE DEF IsUpto, At
      <3> QED
        BY <1>3
    <2> HIDE DEF At
    <2>2. 0 \in Same
      BY <2>1
    <2>3. ASSUME NEW i \in Nat, i \in Same PROVE i + 1 \in Same
      <3> SUFFICES ASSUME i + 1 <= n PROVE At(n + 1)[i + 1] = At(n)[i + 1]
        OBVIOUS
      <3>1. i \in 0 .. n - 1 /\ i \in 0 .. (n + 1) - 1 /\ At(n + 1)[i] = At(n)[i]
        BY <2>3
      <3> QED
        BY <2>1, <3>1
    <2>4. Nat \subseteq Same
      <3> HIDE DEF Same
      <3> QED
        BY <2>2, <2>3, Induction
    <2> QED
      BY <2>4
  <1> DEFINE f == [n \in Nat |-> At(n)[n]]
  <1>5. \A n \in Nat : At(n)[n] \in V
    BY <1>3
  <1>6. f \in [Nat -> V]
    <2> HIDE DEF At
    <2> QED BY <1>5
  <1>7. f[0] = base
    BY <1>3
  <1>8. ASSUME NEW n \in Nat PROVE f[n + 1] = step[<<n, f[n]>>]
    <2>1. IsUpto(At(n + 1), n + 1) /\ n \in 0 .. (n + 1) - 1
      <3> HIDE DEF IsUpto, At
      <3> QED
        BY <1>3
    <2> HIDE DEF At
    <2>2. At(n + 1)[n + 1] = step[<<n, At(n + 1)[n]>>]
      BY <2>1
    <2> QED
      BY <1>4, <2>2
  <1> HIDE DEF f
  <1>9. IsRecursion(f, V, base, step)
    BY <1>6, <1>7, <1>8 DEF IsRecursion
  <1> QED
    BY <1>9

(* A power is positive, and each one Base times the last.                  *)
LEMMA PowerFacts ==
    /\ Power[0] = 1
    /\ \A n \in Nat : Power[n] \in Nat \ {0} /\ Power[n + 1] = Base * Power[n]
  <1> DEFINE Is(g) == g = [n \in Nat |-> IF n = 0 THEN 1 ELSE Base * g[n - 1]]
             step == [p \in Nat \X Nat |-> Base * p[2]]
  <1>0. Base \in Nat /\ Base > 1
    BY BaseAssumption
  <1>m. \A n \in Nat : Base * n \in Nat
    BY <1>0
  <1>1. step \in [Nat \X Nat -> Nat] /\ \A n, v \in Nat : step[<<n, v>>] = Base * v
    BY <1>m
  <1>2. \E g : Is(g)
    <2> HIDE DEF step
    <2>1. PICK g \in [Nat -> Nat] : g[0] = 1 /\ \A n \in Nat : g[n + 1] = step[<<n, g[n]>>]
      <3>1. IsStep(step, Nat)
        BY <1>1 DEF IsStep
      <3>2. \E g : IsRecursion(g, Nat, 1, step)
        BY <3>1, RecursionExists
      <3> QED
        BY <3>2 DEF IsRecursion
    <2>2. \A n \in Nat : g[n] = IF n = 0 THEN 1 ELSE Base * g[n - 1]
      <3> SUFFICES ASSUME NEW n \in Nat, n # 0 PROVE g[n] = Base * g[n - 1]
        BY <2>1
      <3>1. n - 1 \in Nat /\ (n - 1) + 1 = n
        OBVIOUS
      <3>2. g[n] = step[<<n - 1, g[n - 1]>>]
        BY <2>1, <3>1
      <3> QED
        BY <1>1, <2>1, <3>1, <3>2
    <2>3. Is(g)
      BY <2>1, <2>2
    <2> QED
      BY <2>3
  <1>3. Power = CHOOSE g : Is(g)
    BY DEF Power
  <1>4. Is(Power)
    <2> HIDE DEF Is
    <2> QED
      BY <1>2, <1>3
  <1>5. Power[0] = 1 /\ \A n \in Nat : Power[n + 1] = Base * Power[n]
    BY <1>4
  <1>6. Nat \subseteq {n \in Nat : Power[n] \in Nat \ {0}}
    <2> DEFINE T == {n \in Nat : Power[n] \in Nat \ {0}}
    <2>1. 0 \in T
      BY <1>5
    <2>2. ASSUME NEW n \in Nat, n \in T PROVE n + 1 \in T
      <3>1. PICK p \in Nat \ {0} : p = Power[n]
        BY <2>2
      <3>2. Base * p \in Nat \ {0}
        BY <1>0
      <3> QED
        BY <1>5, <3>1, <3>2
    <2> HIDE DEF T
    <2>3. Nat \subseteq T
      BY <2>1, <2>2, Induction
    <2> QED
      BY <2>3 DEF T
  <1> QED
    BY <1>5, <1>6

(* The first element and the last one, as folds pick them.                  *)
LEMMA PickFacts ==
    ASSUME NEW n \in Nat
    PROVE  /\ IsPick([T \in NonEmpty(n) |-> Min(T)], n)
           /\ IsPick([T \in NonEmpty(n) |-> Max(T)], n)
           /\ \A k \in 1 .. n : Min(k .. n) = k /\ Max(1 .. k) = k
  <1>1. ASSUME NEW T \in NonEmpty(n) PROVE Min(T) \in T
    <2>0. T \in SUBSET Nat /\ T # {}
      BY DEF NonEmpty
    <2>1. \E x \in T : \A y \in T : x <= y
      BY <2>0, LeastNatural
    <2> QED
      BY <2>1 DEF Min
  <1>2. ASSUME NEW T \in NonEmpty(n) PROVE Max(T) \in T
    <2>0. T \in SUBSET (1 .. n) /\ T # {}
      BY DEF NonEmpty
    <2> DEFINE above == {n - x : x \in T}
    <2>1. above \in SUBSET Nat /\ above # {}
      <3>1. \A x \in T : n - x \in Nat
        BY <2>0
      <3>2. PICK x : x \in T
        BY <2>0
      <3>3. n - x \in above
        BY <3>2
      <3> QED
        BY <3>1, <3>3
    <2>2. PICK z \in above : \A y \in above : z <= y
      BY <2>1, LeastNatural
    <2>3. PICK x \in T : z = n - x
      BY <2>2
    <2>4. \A y \in T : n - x <= n - y
      BY <2>2, <2>3
    <2>5. \A y \in T : x >= y
      <3> SUFFICES ASSUME NEW y \in T PROVE x >= y
        OBVIOUS
      <3>1. x \in Nat /\ y \in Nat /\ n - x <= n - y
        BY <2>0, <2>4
      <3> QED
        BY <3>1
    <2> QED
      BY <2>5 DEF Max
  <1>3. \A k \in 1 .. n : Min(k .. n) = k
    BY DEF Min
  <1>4. \A k \in 1 .. n : Max(1 .. k) = k
    BY DEF Max
  <1> QED
    BY <1>1, <1>2, <1>3, <1>4 DEF IsPick

(* from_bytes works through the bytes from the last to the first.           *)
IsValue(val, s, n) ==
  /\ val[0] = 0 /\ from_bytes(s) = val[n]
  /\ \A k \in Nat : k < n => val[k + 1] = s[n - k] + Base * val[k]

(* And so its value is that of a first byte and the bytes behind it.       *)
LEMMA FromBytesFacts ==
    ASSUME NEW n \in Nat, NEW s, DOMAIN s = 1 .. n, \A k \in 1 .. n : s[k] \in Int
    PROVE  \E val : IsValue(val, s, n)
  <1> DEFINE Is(g) == g = [T \in SUBSET (1 .. n) |->
                       IF T = {} THEN 0 ELSE s[Min(T)] + Base * g[T \ {Min(T)}]]
             pick == [T \in NonEmpty(n) |-> Min(T)]
             step == [p \in (1 .. n) \X Int |-> s[p[1]] + Base * p[2]]
             iter == CHOOSE g : Is(g)
  <1>1. IsFoldStep(step, n, Int)
    <2>1. \A k \in 1 .. n, v \in Int : s[k] + Base * v \in Int
      <3>1. \A v \in Int : Base * v \in Int
        BY BaseAssumption
      <3> QED
        BY <3>1
    <2> QED
      BY <2>1 DEF IsFoldStep
  <1>2. IsPick(pick, n)
    BY PickFacts
  <1>3. \E g : Is(g)
    <2>1. PICK g : IsFold(g, n, Int, 0, step, pick)
      <3> HIDE DEF step, pick
      <3> QED
        BY ONLY n \in Nat, 0 \in Int, <1>1, <1>2, FoldExists
    <2>2. \A T \in SUBSET (1 .. n) : g[T] = IF T = {} THEN 0 ELSE s[Min(T)] + Base * g[T \ {Min(T)}]
      <3> SUFFICES ASSUME NEW T \in SUBSET (1 .. n), T # {} PROVE g[T] = s[Min(T)] + Base * g[T \ {Min(T)}]
        BY <2>1 DEF IsFold
      <3>1. g[T] = step[<<pick[T], g[T \ {pick[T]}]>>]
        <4> HIDE DEF step, pick
        <4> QED
          BY <2>1 DEF IsFold
      <3>2. pick[T] = Min(T)
        BY DEF NonEmpty
      <3>3. Min(T) \in 1 .. n /\ g[T \ {Min(T)}] \in Int
        <4>1. Min(T) \in 1 .. n
          BY <1>2, <3>2 DEF IsPick, NonEmpty
        <4> QED
          BY <2>1, <4>1 DEF IsFold
      <3> HIDE DEF pick
      <3> QED
        BY <3>1, <3>2, <3>3
    <2>3. Is(g)
      BY <2>1, <2>2 DEF IsFold
    <2> QED
      BY <2>3
  <1>4. Is(iter)
    <2> HIDE DEF Is
    <2> QED
      BY <1>3
  <1>5. from_bytes(s) = iter[1 .. n]
    BY DEF from_bytes, FoldRight, MapThenFoldSet
  <1> DEFINE val == [k \in 0 .. n |-> iter[n - k + 1 .. n]]
  <1> HIDE DEF iter
  <1>6. val[0] = 0
    <2>1. n - 0 + 1 .. n = {}
      OBVIOUS
    <2> QED
      BY <1>4, <2>1
  <1>7. val[n] = iter[1 .. n]
    <2>1. n - n + 1 = 1
      OBVIOUS
    <2> QED
      BY <2>1
  <1>8. ASSUME NEW k \in Nat, k < n PROVE val[k + 1] = s[n - k] + Base * val[k]
    <2>1. /\ n - (k + 1) + 1 = n - k /\ n - k \in 1 .. n
          /\ (n - k .. n) \ {n - k} = n - k + 1 .. n /\ (n - k .. n) # {} /\ n - k .. n \in SUBSET (1 .. n)
      BY <1>8
    <2>2. Min(n - k .. n) = n - k
      BY <2>1, PickFacts
    <2>3. iter[n - k .. n] = s[n - k] + Base * iter[n - k + 1 .. n]
      BY <1>4, <2>1, <2>2
    <2>4. val[k + 1] = iter[n - k .. n] /\ val[k] = iter[n - k + 1 .. n]
      BY <1>8, <2>1
    <2> QED
      BY <2>3, <2>4
  <1> HIDE DEF val
  <1>9. IsValue(val, s, n)
    BY <1>5, <1>6, <1>7, <1>8 DEF IsValue
  <1> QED
    BY <1>9

(* The quotient and the remainder of a division.                           *)
LEMMA QuotientFacts ==
    ASSUME NEW a \in Nat, NEW d \in Nat \ {0}
    PROVE  a \div d \in Nat /\ a % d \in 0 .. d - 1 /\ a = d * (a \div d) + (a % d)
  OBVIOUS

(* A quotient is the one that leaves a remainder below the divisor.         *)
LEMMA QuotientIsUnique ==
    ASSUME NEW a \in Nat, NEW d \in Nat \ {0}, NEW q \in Nat, NEW r \in Nat, a = d * q + r, r < d
    PROVE  a \div d = q
  <1>0. a \div d \in Nat /\ a % d \in 0 .. d - 1 /\ a = d * (a \div d) + (a % d)
    BY QuotientFacts
  <1>1. PICK p \in Nat : p = a \div d
    BY <1>0
  <1>2. PICK s \in Nat : s = a % d /\ s < d
    BY <1>0
  <1>3. d * p + s = d * q + r
    BY <1>0, <1>1, <1>2
  <1>4. \A x, y \in Nat : x < y => d * x + d <= d * y
    <2> SUFFICES ASSUME NEW x \in Nat, NEW y \in Nat, x < y PROVE d * x + d <= d * y
      OBVIOUS
    <2>1. PICK z \in Nat : y = x + 1 + z
      <3>1. y - x - 1 \in Nat /\ y = x + 1 + (y - x - 1)
        OBVIOUS
      <3> QED
        BY <3>1
    <2>2. d * y = d * x + d + d * z
      BY <2>1
    <2>3. d * z \in Nat /\ d * x \in Nat
      OBVIOUS
    <2> QED
      BY <2>2, <2>3
  <1>5. d * p \in Nat /\ d * q \in Nat
    OBVIOUS
  <1>6. ~ (p < q) /\ ~ (q < p)
    BY <1>2, <1>3, <1>4, <1>5
  <1> QED
    BY <1>1, <1>6

(* Dividing by a product is dividing by its factors in turn.                *)
LEMMA QuotientOfProduct ==
    ASSUME NEW a \in Nat, NEW b \in Nat \ {0}, NEW p \in Nat \ {0}
    PROVE  a \div (b * p) = (a \div p) \div b
  <1>1. PICK q \in Nat : q = a \div p
    BY QuotientFacts
  <1>2. PICK r \in 0 .. p - 1 : a = p * q + r
    <2>1. a % p \in 0 .. p - 1 /\ a = p * (a \div p) + (a % p)
      BY QuotientFacts
    <2> QED
      BY <1>1, <2>1
  <1>3. PICK t \in Nat : t = q \div b
    BY QuotientFacts
  <1>4. PICK u \in 0 .. b - 1 : q = b * t + u
    <2>1. q % b \in 0 .. b - 1 /\ q = b * (q \div b) + (q % b)
      BY QuotientFacts
    <2> QED
      BY <1>3, <2>1
  <1>5. PICK d \in Nat \ {0} : d = b * p
    <2>1. b * p \in Nat \ {0}
      OBVIOUS
    <2> QED
      BY <2>1
  <1>6. a = d * t + (p * u + r)
    <2>1. p * q = p * (b * t) + p * u
      BY <1>4
    <2>2. p * (b * t) = d * t
      BY <1>5
    <2>3. p * q \in Nat /\ p * u \in Nat /\ d * t \in Nat
      OBVIOUS
    <2> QED
      BY <1>2, <2>1, <2>2, <2>3
  <1>7. p * u + r \in Nat /\ p * u + r < d
    <2>1. PICK z \in Nat : b = u + 1 + z
      <3>1. b - u - 1 \in Nat /\ b = u + 1 + (b - u - 1)
        BY <1>4
      <3> QED
        BY <3>1
    <2>2. d = p * u + p + p * z
      BY <1>5, <2>1
    <2>3. p * z \in Nat /\ p * u \in Nat
      OBVIOUS
    <2> QED
      BY <1>2, <2>2, <2>3
  <1>8. PICK w \in Nat : w = p * u + r
    BY <1>7
  <1>9. a = d * t + w /\ w < d
    BY <1>6, <1>7, <1>8
  <1>10. a \div d = t
    BY <1>9, QuotientIsUnique
  <1> QED
    BY <1>1, <1>3, <1>5, <1>10

(* The bytes of a number are bytes, and from_bytes gives the number back.   *)
LEMMA BytesFacts ==
    ASSUME NEW size \in Nat, NEW v, Fits(v, size)
    PROVE  /\ to_bytes(v, size) \in Seq(Byte) /\ Len(to_bytes(v, size)) = size
           /\ from_bytes(to_bytes(v, size)) = v
  <1>0. Base \in Nat \ {0} /\ Power[0] = 1 /\ Power[size] \in Nat \ {0}
        /\ \A k \in Nat : Power[k] \in Nat \ {0} /\ Power[k + 1] = Base * Power[k]
    BY BaseAssumption, PowerFacts
  <1>1. v \in Nat /\ v < Power[size]
    BY <1>0 DEF Fits
  <1> DEFINE q(k) == v \div Power[k]
             s == to_bytes(v, size)
  <1>2. \A k \in Nat : q(k) \in Nat
    BY <1>0, <1>1, QuotientFacts
  <1>3. \A k \in Nat : q(k + 1) = q(k) \div Base
    <2> SUFFICES ASSUME NEW k \in Nat PROVE q(k + 1) = q(k) \div Base
      OBVIOUS
    <2>1. PICK p \in Nat \ {0} : p = Power[k] /\ Power[k + 1] = Base * p
      BY <1>0
    <2>2. PICK a \in Nat, b \in Nat \ {0} : a = v /\ b = Base
      BY <1>0, <1>1
    <2>3. a \div (b * p) = (a \div p) \div b
      BY QuotientOfProduct
    <2> QED
      BY <2>1, <2>2, <2>3
  <1>4. q(0) = v /\ q(size) = 0
    <2>1. PICK p \in Nat \ {0} : p = Power[size]
      BY <1>0
    <2>2. v \div p = 0
      <3>1. v = p * 0 + v /\ v < p
        BY <1>1, <2>1
      <3> QED
        BY <1>1, <3>1, QuotientIsUnique
    <2>3. v \div 1 = v
      BY <1>1
    <2> QED
      BY <1>0, <2>1, <2>2, <2>3
  <1> HIDE DEF q
  <1>5. \A k \in 1 .. size : s[k] = q(k - 1) % Base
    BY DEF to_bytes, q
  <1>6. \A k \in Nat : q(k) % Base \in Byte
    BY <1>0, <1>2, QuotientFacts DEF Byte
  <1>7. s \in [1 .. size -> Byte]
    <2>1. s = [k \in 1 .. size |-> q(k - 1) % Base]
      BY DEF to_bytes, q
    <2>2. \A k \in 1 .. size : q(k - 1) % Base \in Byte
      <3>1. \A k \in 1 .. size : k - 1 \in Nat
        OBVIOUS
      <3> QED
        BY <1>6, <3>1
    <2> QED
      BY <2>1, <2>2
  <1>8. s \in Seq(Byte) /\ Len(s) = size
    BY <1>7
  <1>9. from_bytes(s) = v
    <2>1. DOMAIN s = 1 .. size /\ \A k \in 1 .. size : s[k] \in Int
      BY <1>0, <1>7 DEF Byte
    <2>2. PICK val : /\ val[0] = 0 /\ from_bytes(s) = val[size]
                     /\ \A k \in Nat : k < size => val[k + 1] = s[size - k] + Base * val[k]
      <3> HIDE DEF s
      <3>1. \E val : IsValue(val, s, size)
        BY <2>1, FromBytesFacts
      <3> QED
        BY <3>1 DEF IsValue
    <2> DEFINE T == {k \in Nat : k <= size => val[k] = q(size - k)}
    <2>3. 0 \in T
      BY <1>4, <2>2
    <2>4. ASSUME NEW k \in Nat, k \in T PROVE k + 1 \in T
      <3> SUFFICES ASSUME k + 1 <= size PROVE val[k + 1] = q(size - (k + 1))
        OBVIOUS
      <3>1. PICK m \in Nat : m = size - (k + 1) /\ m + 1 = size - k /\ m + 1 \in 1 .. size
        OBVIOUS
      <3>2. val[k] = q(m + 1) /\ k < size
        BY <2>4, <3>1
      <3>3. val[k + 1] = s[m + 1] + Base * val[k]
        BY <2>2, <3>1, <3>2
      <3>4. s[m + 1] = q(m) % Base
        <4>1. (m + 1) - 1 = m
          OBVIOUS
        <4> HIDE DEF s
        <4> QED
          BY <1>5, <3>1, <4>1
      <3>5. q(m) = Base * q(m + 1) + (q(m) % Base)
        BY <1>0, <1>2, <1>3, QuotientFacts
      <3>6. PICK x \in Nat, y \in Nat : x = q(m) % Base /\ y = Base * q(m + 1)
        <4>1. q(m) % Base \in Nat
          BY <1>6, <1>0 DEF Byte
        <4>2. \A z \in Nat : Base * z \in Nat
          BY <1>0
        <4> QED
          BY <1>2, <4>1, <4>2
      <3> QED
        BY <3>1, <3>2, <3>3, <3>4, <3>5, <3>6
    <2>5. size \in T
      <3> HIDE DEF T
      <3> QED
        BY <2>3, <2>4, Induction
    <2>6. val[size] = q(0)
      BY <2>5
    <2> QED
      BY <1>4, <2>2, <2>6
  <1> QED
    BY <1>8, <1>9

(* A slice assignment within a list of bytes: the bytes of the slice, and   *)
(* the others at their places.                                              *)
LEMMA SliceFacts ==
    ASSUME NEW V, NEW buf \in Seq(V), NEW s \in Seq(V), NEW at \in Nat, at <= Len(buf)
    PROVE  /\ SliceAssign(buf, at, Len(s), s) \in Seq(V)
           /\ Len(SliceAssign(buf, at, Len(s), s)) >= Len(buf)
           /\ \A k \in 1 .. Len(s) : SliceAssign(buf, at, Len(s), s)[at + k] = s[k]
           /\ \A k \in 1 .. Len(buf) :
                k <= at \/ at + Len(s) < k => SliceAssign(buf, at, Len(s), s)[k] = buf[k]
  <1>1. PICK n \in Nat, m \in Nat : n = Len(buf) /\ m = Len(s)
    BY LenProperties
  <1> DEFINE front == SubSeq(buf, 1, at)
             back == SubSeq(buf, at + m + 1, n)
             r == (front \o s) \o back
  <1>2. front \in Seq(V) /\ Len(front) = at /\ \A k \in 1 .. at : front[k] = buf[k]
    BY <1>1, SubSeqProperties
  <1>3. /\ back \in Seq(V) /\ Len(back) = IF at + m + 1 <= n THEN n - (at + m) ELSE 0
        /\ \A k \in 1 .. Len(back) : back[k] = buf[at + m + k]
    <2>1. PICK a \in Nat : a = at + m + 1
      OBVIOUS
    <2>2. /\ SubSeq(buf, a, n) \in Seq(V)
          /\ Len(SubSeq(buf, a, n)) = IF a <= n THEN n - a + 1 ELSE 0
          /\ \A k \in 1 .. n - a + 1 : SubSeq(buf, a, n)[k] = buf[a + k - 1]
      BY <1>1, <2>1, SubSeqProperties
    <2>3. back = SubSeq(buf, a, n) /\ n - a + 1 = n - (at + m)
      BY <2>1
    <2> HIDE DEF back
    <2>4. back \in Seq(V) /\ Len(back) = IF at + m + 1 <= n THEN n - (at + m) ELSE 0
      BY <2>1, <2>2, <2>3
    <2>5. ASSUME NEW k \in 1 .. Len(back) PROVE back[k] = buf[at + m + k]
      <3>1. k \in 1 .. n - a + 1 /\ a + k - 1 = at + m + k
        BY <2>1, <2>3, <2>4
      <3> QED
        BY <2>2, <2>3, <3>1
    <2> QED
      BY <2>4, <2>5
  <1>4. SliceAssign(buf, at, Len(s), s) = r
    BY <1>1 DEF SliceAssign
  <1> DEFINE fs == front \o s
  <1> HIDE DEF front, back
  <1>5. fs \in Seq(V) /\ Len(fs) = at + m
        /\ \A k \in 1 .. at + m : fs[k] = IF k <= at THEN front[k] ELSE s[k - at]
    BY <1>1, <1>2, ConcatProperties
  <1>b. PICK b \in Nat : b = Len(back)
    BY <1>3, LenProperties
  <1> HIDE DEF fs
  <1>6. r \in Seq(V) /\ Len(r) = at + m + b
        /\ \A k \in 1 .. at + m + b : r[k] = IF k <= at + m THEN fs[k] ELSE back[k - (at + m)]
    <2>1. r = fs \o back
      BY DEF fs
    <2> HIDE DEF r
    <2>2. /\ fs \o back \in Seq(V) /\ Len(fs \o back) = Len(fs) + Len(back)
          /\ \A k \in 1 .. Len(fs) + Len(back) :
               (fs \o back)[k] = IF k <= Len(fs) THEN fs[k] ELSE back[k - Len(fs)]
      BY ONLY <1>3, <1>5, ConcatProperties
    <2> QED
      BY <1>5, <1>b, <2>1, <2>2
  <1> HIDE DEF r
  <1>7. at + m + b >= n /\ (at + m < n => b = n - (at + m))
    BY <1>1, <1>3, <1>b
  <1>8. ASSUME NEW k \in 1 .. m PROVE r[at + k] = s[k]
    <2>1. at + k \in 1 .. at + m /\ at + k \in 1 .. at + m + b /\ ~(at + k <= at) /\ (at + k) - at = k
      BY <1>1
    <2>2. r[at + k] = fs[at + k]
      BY <1>6, <2>1
    <2> QED
      BY <1>5, <2>1, <2>2
  <1>9. ASSUME NEW k \in 1 .. n, k <= at \/ at + m < k PROVE r[k] = buf[k]
    <2>1. CASE k <= at
      <3>1. k \in 1 .. at /\ k \in 1 .. at + m /\ k \in 1 .. at + m + b
        BY <1>1, <2>1
      <3> QED
        BY <1>2, <1>5, <1>6, <2>1, <3>1
    <2>2. CASE at + m < k
      <3>1. PICK i \in Nat : i = k - (at + m)
        BY <2>2
      <3>2. i \in 1 .. b /\ k \in 1 .. at + m + b /\ ~(k <= at + m) /\ at + m + i = k
        BY <1>1, <1>7, <2>2, <3>1
      <3>3. r[k] = back[i]
        BY <1>6, <3>1, <3>2
      <3>4. back[i] = buf[at + m + i]
        BY <1>3, <1>b, <3>2
      <3> QED
        BY <3>2, <3>3, <3>4
    <2> QED
      BY <1>9, <2>1, <2>2
  <1>10. Len(SliceAssign(buf, at, Len(s), s)) >= Len(buf)
    BY <1>1, <1>4, <1>6, <1>7
  <1> QED
    BY <1>1, <1>4, <1>6, <1>8, <1>9, <1>10

(* The bytes of an item, for an item the conversion takes.                  *)
Writable(item, total) ==
  /\ IsItem(item) /\ ~(item.index >= total) /\ item.type \in {"S", "N"}
  /\ item.type = "N" => Fits(item.value, item.size)

LEMMA ItemBytesFacts ==
    ASSUME NEW item, NEW total \in Nat, Writable(item, total)
    PROVE  /\ ItemBytes(item) \in Seq(Byte) /\ Len(ItemBytes(item)) = Width(item) /\ Width(item) \in Nat
           /\ item.index \in Nat /\ item.index < total
  <1>1. CASE item.type = "N"
    <2>1. item.size \in Nat /\ Fits(item.value, item.size)
      BY <1>1 DEF Writable, IsItem
    <2>2. to_bytes(item.value, item.size) \in Seq(Byte) /\ Len(to_bytes(item.value, item.size)) = item.size
      BY <2>1, BytesFacts
    <2> QED
      BY <1>1, <2>1, <2>2 DEF ItemBytes, Width, Writable, IsItem
  <1>2. CASE item.type = "S"
    <2>1. item.text \in Seq(Byte)
      BY <1>2 DEF Writable, IsItem
    <2> QED
      BY <1>2, <2>1, LenProperties DEF ItemBytes, Width, Writable, IsItem
  <1> QED
    BY <1>1, <1>2 DEF Writable

(* The buffers PutItem works on: they do not get shorter than the total.    *)
Bufs(total) == {b \in Seq(Byte) : Len(b) >= total}
Zeros(total) == [k \in 1 .. total |-> 0]

(* A step of the conversion of a struct.                                    *)
LEMMA PutItemFacts ==
    ASSUME NEW total \in Nat, NEW buf \in Bufs(total), NEW item, Writable(item, total)
    PROVE  /\ PutItem(buf, item) \in Bufs(total)
           /\ \A k \in 1 .. Width(item) : PutItem(buf, item)[item.index + k] = ItemBytes(item)[k]
           /\ \A x \in 1 .. total :
                x <= item.index \/ item.index + Width(item) < x => PutItem(buf, item)[x] = buf[x]
  <1>1. PICK at \in Nat, w \in Nat : at = item.index /\ w = Width(item) /\ at < total
    BY ItemBytesFacts
  <1>2. PICK s \in Seq(Byte) : s = ItemBytes(item) /\ Len(s) = w
    BY <1>1, ItemBytesFacts
  <1>3. PICK n \in Nat : n = Len(buf) /\ n >= total
    BY LenProperties DEF Bufs
  <1>4. buf \in Seq(Byte) /\ at <= Len(buf)
    BY <1>1, <1>3 DEF Bufs
  <1>5. PutItem(buf, item) = SliceAssign(buf, at, Len(s), s)
    BY <1>1, <1>2 DEF PutItem
  <1>6. /\ SliceAssign(buf, at, Len(s), s) \in Seq(Byte)
        /\ Len(SliceAssign(buf, at, Len(s), s)) >= Len(buf)
        /\ \A k \in 1 .. Len(s) : SliceAssign(buf, at, Len(s), s)[at + k] = s[k]
        /\ \A k \in 1 .. Len(buf) :
             k <= at \/ at + Len(s) < k => SliceAssign(buf, at, Len(s), s)[k] = buf[k]
    BY ONLY at \in Nat, s \in Seq(Byte), <1>4, SliceFacts
  <1>7. PutItem(buf, item) \in Bufs(total)
    <2>1. PICK m \in Nat : m = Len(PutItem(buf, item)) /\ m >= n
      BY <1>3, <1>5, <1>6, LenProperties
    <2> QED
      BY <1>3, <1>5, <1>6, <2>1 DEF Bufs
  <1>8. \A x \in 1 .. total : x \in 1 .. n
    BY <1>3
  <1> QED
    BY <1>1, <1>2, <1>3, <1>5, <1>6, <1>7, <1>8

(* The items of a struct are put into its buffer one after the other.       *)
IsPut(put, items, n, total) ==
  /\ put[0] = Zeros(total) /\ FoldLeft(PutItem, Zeros(total), items) = put[n]
  /\ \A k \in 0 .. n : put[k] \in Bufs(total)
  /\ \A k \in Nat : k < n => put[k + 1] = PutItem(put[k], items[k + 1])

(* Putting the items of a struct never ends in anything but a buffer.      *)
LEMMA StructFacts ==
    ASSUME NEW n \in Nat, NEW items, DOMAIN items = 1 .. n, NEW total \in Nat,
           \A i \in 1 .. n : Writable(items[i], total)
    PROVE  \E put : IsPut(put, items, n, total)
  <1> DEFINE V == Bufs(total)
             base == Zeros(total)
             Is(g) == g = [T \in SUBSET (1 .. n) |->
                       IF T = {} THEN base ELSE PutItem(g[T \ {Max(T)}], items[Max(T)])]
             pick == [T \in NonEmpty(n) |-> Max(T)]
             step == [p \in (1 .. n) \X V |-> PutItem(p[2], items[p[1]])]
             iter == CHOOSE g : Is(g)
  <1>0. base \in V
    <2>1. 0 \in Byte
      BY BaseAssumption DEF Byte
    <2>2. base \in Seq(Byte) /\ Len(base) = total
      BY <2>1 DEF Zeros
    <2> QED
      BY <2>2 DEF Bufs
  <1>1. IsFoldStep(step, n, V)
    <2>1. \A k \in 1 .. n, v \in V : PutItem(v, items[k]) \in V
      BY PutItemFacts
    <2> HIDE DEF V
    <2> QED
      BY <2>1 DEF IsFoldStep
  <1>2. IsPick(pick, n)
    BY PickFacts
  <1>3. \E g : Is(g) /\ g \in [SUBSET (1 .. n) -> V]
    <2>1. PICK g : IsFold(g, n, V, base, step, pick)
      <3> HIDE DEF step, pick, V, base
      <3> QED
        BY ONLY n \in Nat, <1>0, <1>1, <1>2, FoldExists
    <2> HIDE DEF V, base
    <2>2. \A T \in SUBSET (1 .. n) : g[T] = IF T = {} THEN base ELSE PutItem(g[T \ {Max(T)}], items[Max(T)])
      <3> SUFFICES ASSUME NEW T \in SUBSET (1 .. n), T # {}
                   PROVE  g[T] = PutItem(g[T \ {Max(T)}], items[Max(T)])
        BY <2>1 DEF IsFold
      <3>1. g[T] = step[<<pick[T], g[T \ {pick[T]}]>>]
        <4> HIDE DEF step, pick
        <4> QED
          BY <2>1 DEF IsFold
      <3>2. pick[T] = Max(T)
        BY DEF NonEmpty
      <3>3. Max(T) \in 1 .. n /\ g[T \ {Max(T)}] \in V
        <4>1. Max(T) \in 1 .. n
          BY <1>2, <3>2 DEF IsPick, NonEmpty
        <4> QED
          BY <2>1, <4>1 DEF IsFold
      <3> HIDE DEF pick
      <3> QED
        BY <3>1, <3>2, <3>3
    <2>3. Is(g)
      BY <2>1, <2>2 DEF IsFold
    <2> QED
      BY <2>1, <2>3 DEF IsFold
  <1>4. Is(iter)
    <2> HIDE DEF Is
    <2> QED
      BY <1>3
  <1>5. FoldLeft(PutItem, base, items) = iter[1 .. n]
    BY DEF FoldLeft, MapThenFoldSet
  <1> DEFINE put == [k \in 0 .. n |-> iter[1 .. k]]
  <1> HIDE DEF iter, V, base
  <1>6. put[0] = base /\ put[n] = iter[1 .. n]
    <2>1. 1 .. 0 = {}
      OBVIOUS
    <2>2. iter[{}] = base
      BY <1>4
    <2>3. put[0] = iter[1 .. 0] /\ put[n] = iter[1 .. n]
      OBVIOUS
    <2> HIDE DEF put
    <2> QED
      BY <2>1, <2>2, <2>3
  <1>7. ASSUME NEW k \in Nat, k < n PROVE put[k + 1] = PutItem(put[k], items[k + 1])
    <2>a. k + 1 \in 1 .. n /\ k + 1 \in 1 .. k + 1
      BY <1>7
    <2>b. \A x \in 1 .. k + 1 : x \in 1 .. n /\ (x # k + 1 => x \in 1 .. k)
      BY <1>7
    <2>c. \A x \in 1 .. k : x \in 1 .. k + 1 /\ x # k + 1
      OBVIOUS
    <2>1. /\ (1 .. k + 1) \ {k + 1} = 1 .. k
          /\ (1 .. k + 1) # {} /\ 1 .. k + 1 \in SUBSET (1 .. n)
      BY <2>a, <2>b, <2>c
    <2>2. Max(1 .. k + 1) = k + 1
      BY <2>a, PickFacts
    <2>3. iter[1 .. k + 1] = PutItem(iter[1 .. k], items[k + 1])
      BY <1>4, <2>1, <2>2
    <2>4. put[k + 1] = iter[1 .. k + 1] /\ put[k] = iter[1 .. k]
      BY <1>7, <2>1
    <2> QED
      BY <2>3, <2>4
  <1> HIDE DEF put
  <1>8. Nat \subseteq {k \in Nat : k <= n => put[k] \in V}
    <2> DEFINE T == {k \in Nat : k <= n => put[k] \in V}
    <2>1. 0 \in T
      BY <1>0, <1>6
    <2>2. ASSUME NEW k \in Nat, k \in T PROVE k + 1 \in T
      <3> SUFFICES ASSUME k + 1 <= n PROVE put[k + 1] \in V
        OBVIOUS
      <3>1. put[k] \in V /\ Writable(items[k + 1], total) /\ put[k + 1] = PutItem(put[k], items[k + 1])
        BY <1>7, <2>2
      <3> QED
        BY <3>1, PutItemFacts DEF V
    <2> HIDE DEF T
    <2>3. Nat \subseteq T
      BY <2>1, <2>2, Induction
    <2> QED
      BY <2>3 DEF T
  <1>9. IsPut(put, items, n, total)
    BY <1>5, <1>6, <1>7, <1>8 DEF IsPut, base, V
  <1> QED
    BY <1>9

(* An item that is in a buffer, and one that nothing later reaches into.    *)
Holds(buf, item) == \A k \in 1 .. Width(item) : buf[item.index + k] = ItemBytes(item)[k]
Untouched(items, i, n) ==
  \A j \in i + 1 .. n : \/ items[j].index >= items[i].index + Width(items[i])
                         \/ items[i].index >= items[j].index + Width(items[j])

(* An item nothing later reaches into stays as it was put.                  *)
LEMMA ItemStays ==
    ASSUME NEW n \in Nat, NEW items, NEW total \in Nat, NEW put, IsPut(put, items, n, total),
           \A j \in 1 .. n : Writable(items[j], total), NEW i \in 1 .. n,
           items[i].index + Width(items[i]) <= total,
           Untouched(items, i, n)
    PROVE  Holds(put[n], items[i])
  <1>1. PICK at \in Nat : at = items[i].index
    BY ItemBytesFacts
  <1>2. PICK w \in Nat : w = Width(items[i])
    BY ItemBytesFacts
  <1>w. at + w <= total
    BY <1>1, <1>2
  <1> DEFINE Stays(j) == \A k \in 1 .. w : put[j][at + k] = ItemBytes(items[i])[k]
             T == {d \in Nat : i + d <= n => Stays(i + d)}
  <1>3. 0 \in T
    <2>1. i - 1 \in Nat /\ i - 1 < n /\ (i - 1) + 1 = i /\ i - 1 \in 0 .. n /\ i + 0 = i
      OBVIOUS
    <2>2. put[i] = PutItem(put[i - 1], items[i]) /\ put[i - 1] \in Bufs(total) /\ Writable(items[i], total)
      BY <2>1 DEF IsPut
    <2>3. Stays(i)
      BY <1>1, <1>2, <2>2, PutItemFacts
    <2> QED
      BY <2>1, <2>3
  <1>4. ASSUME NEW d \in Nat, d \in T PROVE d + 1 \in T
    <2> SUFFICES ASSUME i + (d + 1) <= n PROVE Stays(i + (d + 1))
      OBVIOUS
    <2>1. PICK j \in Nat : j = i + d
      OBVIOUS
    <2>2. j + 1 = i + (d + 1) /\ j < n /\ j \in 0 .. n /\ j + 1 \in i + 1 .. n /\ j + 1 \in 1 .. n
      BY <2>1
    <2>3. Stays(j)
      BY <1>4, <2>1, <2>2
    <2>4. /\ put[j + 1] = PutItem(put[j], items[j + 1]) /\ put[j] \in Bufs(total)
          /\ Writable(items[j + 1], total)
      BY <2>2 DEF IsPut
    <2>5. PICK b \in Nat : b = items[j + 1].index
      BY <2>4, ItemBytesFacts
    <2>6. PICK v \in Nat : v = Width(items[j + 1])
      BY <2>4, ItemBytesFacts
    <2>7. b >= at + w \/ at >= b + v
      BY <1>1, <1>2, <2>2, <2>5, <2>6 DEF Untouched
    <2>8. ASSUME NEW k \in 1 .. w PROVE put[j + 1][at + k] = ItemBytes(items[i])[k]
      <3>1. at + k \in 1 .. total /\ (at + k <= b \/ b + v < at + k)
        BY <1>w, <2>7
      <3>2. put[j + 1][at + k] = put[j][at + k]
        BY <2>4, <2>5, <2>6, <3>1, PutItemFacts
      <3> QED
        BY <2>3, <3>2
    <2> QED
      BY <2>2, <2>8
  <1>5. Nat \subseteq T
    <2> HIDE DEF T
    <2> QED
      BY <1>3, <1>4, Induction
  <1>6. n - i \in Nat /\ i + (n - i) = n
    OBVIOUS
  <1>7. Stays(n)
    <2> HIDE DEF Stays
    <2> QED
      BY <1>5, <1>6
  <1> QED
    BY <1>1, <1>2, <1>7 DEF Holds

(* Lists of the same length, one behind the other.                          *)
AreChunks(seqs, n, w) ==
  /\ DOMAIN seqs = 1 .. n /\ Len(seqs) = n
  /\ \A i \in 1 .. n : seqs[i] \in Seq(Byte) /\ Len(seqs[i]) = w
IsFlat(s, seqs, n, w) ==
  /\ s \in Seq(Byte) /\ Len(s) = w * n
  /\ \A i \in 1 .. n, k \in 1 .. w : s[w * (i - 1) + k] = seqs[i][k]

(* Products with a factor in common are ordered as the other factors are.   *)
LEMMA ProductFacts ==
    ASSUME NEW w \in Nat
    PROVE  /\ w * 0 = 0 /\ w * 1 = w
           /\ \A a \in Nat : w * a \in Nat /\ w * (a + 1) = w * a + w
           /\ \A a, b \in Nat : a <= b => w * a <= w * b
  <1>1. \A a \in Nat : w * a \in Nat /\ w * (a + 1) = w * a + w
    OBVIOUS
  <1>2. ASSUME NEW a \in Nat, NEW b \in Nat, a <= b PROVE w * a <= w * b
    <2>1. PICK c \in Nat : c = b - a
      BY <1>2
    <2>2. b = a + c
      BY <2>1
    <2>3. w * b = w * a + w * c /\ w * a \in Nat /\ w * c \in Nat
      BY <2>2
    <2> QED
      BY <2>3
  <1> QED
    BY <1>1, <1>2

(* A list one longer is flattened by appending the last one.               *)
LEMMA AppendChunk ==
    ASSUME NEW n \in Nat, NEW w \in Nat, NEW seqs, AreChunks(seqs, n, w), NEW m \in Nat, m < n,
           NEW s, IsFlat(s, seqs, m, w)
    PROVE  IsFlat(s \o seqs[m + 1], seqs, m + 1, w)
  <1>0. m + 1 \in 1 .. n
    OBVIOUS
  <1>1. PICK c \in Seq(Byte) : c = seqs[m + 1] /\ Len(c) = w
    BY <1>0 DEF AreChunks
  <1>2. PICK l \in Nat : l = w * m /\ w * (m + 1) = l + w
    BY ProductFacts
  <1>3. s \in Seq(Byte) /\ Len(s) = l
    BY <1>2 DEF IsFlat
  <1>4. /\ s \o c \in Seq(Byte) /\ Len(s \o c) = Len(s) + Len(c)
        /\ \A i \in 1 .. Len(s) + Len(c) : (s \o c)[i] = IF i <= Len(s) THEN s[i] ELSE c[i - Len(s)]
    BY ONLY <1>3, c \in Seq(Byte), ConcatProperties
  <1>5. s \o c \in Seq(Byte) /\ Len(s \o c) = l + w
        /\ \A i \in 1 .. l + w : (s \o c)[i] = IF i <= l THEN s[i] ELSE c[i - l]
    BY <1>1, <1>3, <1>4
  <1>6. ASSUME NEW i \in 1 .. m + 1, NEW k \in 1 .. w PROVE (s \o c)[w * (i - 1) + k] = seqs[i][k]
    <2>1. PICK j \in Nat : j = i - 1
      OBVIOUS
    <2>2. PICK at \in Nat : at = w * j /\ w * (j + 1) = at + w
      BY ProductFacts
    <2>3. CASE i <= m
      <3>1. j + 1 <= m /\ j + 1 \in Nat
        BY <2>1, <2>3
      <3>2. at + w <= l
        BY <1>2, <2>2, <3>1, ProductFacts
      <3>3. at + k \in 1 .. l + w /\ at + k <= l
        BY <3>2
      <3>4. (s \o c)[at + k] = s[at + k]
        BY <1>5, <3>3
      <3>5. s[at + k] = seqs[i][k]
        <4>1. i \in 1 .. m /\ w * (i - 1) = at
          BY <2>1, <2>2, <2>3
        <4> QED
          BY <4>1 DEF IsFlat
      <3> QED
        BY <2>1, <2>2, <3>4, <3>5
    <2>4. CASE i = m + 1
      <3>1. j = m /\ at = l
        BY <1>2, <2>1, <2>2, <2>4
      <3>2. l + k \in 1 .. l + w /\ ~(l + k <= l) /\ (l + k) - l = k
        OBVIOUS
      <3>3. (s \o c)[l + k] = c[k]
        BY <1>5, <3>2
      <3> QED
        BY <1>1, <2>1, <2>2, <2>4, <3>1, <3>3
    <2>5. i <= m \/ i = m + 1
      OBVIOUS
    <2> QED
      BY <2>3, <2>4, <2>5
  <1>7. s \o c \in Seq(Byte) /\ Len(s \o c) = w * (m + 1)
    BY <1>2, <1>5
  <1>8. IsFlat(s \o c, seqs, m + 1, w)
    BY <1>6, <1>7 DEF IsFlat
  <1> QED
    BY <1>1, <1>8

(* A list of lists of the same length, flattened.                           *)
LEMMA FlattenFacts ==
    ASSUME NEW n \in Nat \ {0}, NEW w \in Nat, NEW seqs, AreChunks(seqs, n, w)
    PROVE  IsFlat(FlattenSeq(seqs), seqs, n, w)
  <1> DEFINE Is(g) == g = [i \in 1 .. n |-> IF i = 1 THEN seqs[i] ELSE g[i - 1] \o seqs[i]]
             V == Seq(Byte)
             base == seqs[1]
             step == [p \in Nat \X V |-> IF p[1] + 2 \in 1 .. n THEN p[2] \o seqs[p[1] + 2] ELSE p[2]]
             iter == CHOOSE g : Is(g)
  <1>0. base \in V
    BY DEF AreChunks
  <1>1. \A m \in Nat, v \in V : m + 2 \in 1 .. n => v \o seqs[m + 2] \in V
    <2> SUFFICES ASSUME NEW m \in Nat, NEW v \in V, m + 2 \in 1 .. n PROVE v \o seqs[m + 2] \in V
      OBVIOUS
    <2>1. seqs[m + 2] \in V
      BY DEF AreChunks
    <2> QED
      BY <2>1, ConcatProperties
  <1>2. IsStep(step, V)
    <2> HIDE DEF V
    <2> QED
      BY <1>1 DEF IsStep
  <1>3. \E g : Is(g)
    <2>1. PICK f : IsRecursion(f, V, base, step)
      <3> HIDE DEF step, V, base
      <3> QED
        BY ONLY <1>0, <1>2, RecursionExists
    <2> DEFINE g == [i \in 1 .. n |-> f[i - 1]]
    <2>2. ASSUME NEW i \in 1 .. n PROVE g[i] = IF i = 1 THEN seqs[i] ELSE g[i - 1] \o seqs[i]
      <3>1. CASE i = 1
        <4>1. i - 1 = 0 /\ f[0] = base
          BY <2>1, <3>1 DEF IsRecursion
        <4> QED
          BY <3>1, <4>1
      <3>2. CASE i # 1
        <4>1. PICK m \in Nat : m = i - 2
          BY <3>2
        <4>2. m + 1 = i - 1 /\ m + 2 = i /\ i - 1 \in 1 .. n /\ (i - 1) - 1 = m
          BY <3>2, <4>1
        <4>3. f[m + 1] = step[<<m, f[m]>>] /\ f[m] \in V
          BY <2>1 DEF IsRecursion
        <4>4. step[<<m, f[m]>>] = f[m] \o seqs[m + 2]
          <5> HIDE DEF V
          <5> QED
            BY <4>2, <4>3
        <4>5. g[i] = f[i - 1] /\ g[i - 1] = f[(i - 1) - 1]
          BY <4>2
        <4> HIDE DEF g, step, V
        <4> QED
          BY <3>2, <4>2, <4>3, <4>4, <4>5
      <3> QED
        BY <3>1, <3>2
    <2>3. Is(g)
      <3>1. g = [i \in 1 .. n |-> g[i]]
        OBVIOUS
      <3> HIDE DEF g
      <3> QED
        BY <2>2, <3>1
    <2> HIDE DEF Is
    <2> QED
      BY <2>3
  <1>4. Is(iter)
    <2> HIDE DEF Is
    <2> QED
      BY <1>3
  <1>5. FlattenSeq(seqs) = iter[n]
    <2>1. Len(seqs) = n /\ n # 0
      BY DEF AreChunks
    <2> QED
      BY <2>1 DEF FlattenSeq
  <1> HIDE DEF iter, V, base, step
  <1> DEFINE T == {d \in Nat : d + 1 <= n => IsFlat(iter[d + 1], seqs, d + 1, w)}
  <1>6. 0 \in T
    <2>1. IsFlat(iter[1], seqs, 1, w)
      <3>1. iter[1] = seqs[1] /\ seqs[1] \in Seq(Byte) /\ Len(seqs[1]) = w
        BY <1>4 DEF AreChunks
      <3>2. w * 1 = w /\ w * 0 = 0
        BY ProductFacts
      <3>3. \A k \in 1 .. w : iter[1][w * (1 - 1) + k] = seqs[1][k]
        BY <3>1, <3>2
      <3> QED
        BY <3>1, <3>2, <3>3 DEF IsFlat
    <2> QED
      BY <2>1
  <1>7. ASSUME NEW d \in Nat, d \in T PROVE d + 1 \in T
    <2> SUFFICES ASSUME (d + 1) + 1 <= n PROVE IsFlat(iter[(d + 1) + 1], seqs, (d + 1) + 1, w)
      OBVIOUS
    <2>1. PICK m \in Nat : m = d + 1
      OBVIOUS
    <2>2. m < n /\ m + 1 \in 1 .. n /\ m + 1 # 1 /\ (m + 1) - 1 = m
      BY <2>1
    <2>3. IsFlat(iter[m], seqs, m, w)
      BY <1>7, <2>1, <2>2
    <2>4. iter[m + 1] = iter[m] \o seqs[m + 1]
      BY <1>4, <2>2
    <2>5. IsFlat(iter[m] \o seqs[m + 1], seqs, m + 1, w)
      BY <2>2, <2>3, AppendChunk
    <2> QED
      BY <2>1, <2>4, <2>5
  <1>8. Nat \subseteq T
    <2> HIDE DEF T
    <2> QED
      BY <1>6, <1>7, Induction
  <1>9. n - 1 \in Nat /\ (n - 1) + 1 = n
    OBVIOUS
  <1> QED
    BY <1>5, <1>8, <1>9

(* An item stands in a buffer with the bytes it is converted to.            *)
Stands(item, buf) ==
  /\ item.index \in Nat /\ Width(item) \in Nat
  /\ ItemBytes(item) \in Seq(Byte) /\ Len(ItemBytes(item)) = Width(item)
  /\ item.type \in {"N", "S"} /\ (item.type = "N" => item.size \in Nat /\ Fits(item.value, item.size))
  /\ Holds(buf, item)

(* An array is its numbers, one behind the other.                           *)
LEMMA ArrayItem ==
    ASSUME NEW t, IsText(t), ~Raises(t), t.kind = "array", NEW i \in DOMAIN Items(t)
    PROVE  Stands(Items(t)[i], Buf(t))
  <1>1. t.size \in Nat /\ t.values \in Seq(Int)
    BY DEF IsText
  <1>2. PICK w \in Nat : w = t.size
    BY <1>1
  <1>3. PICK n \in Nat : n = Len(t.values) /\ DOMAIN t.values = 1 .. n
    BY <1>1, LenProperties
  <1>4. i \in 1 .. n
    BY <1>3 DEF Items
  <1> DEFINE seqs == [k \in DOMAIN t.values |-> to_bytes(t.values[k], t.size)]
             item == Items(t)[i]
  <1>5. \A k \in 1 .. n : Fits(t.values[k], w)
    BY <1>2, <1>3 DEF Raises
  <1>6. \A k \in 1 .. n : to_bytes(t.values[k], w) \in Seq(Byte) /\ Len(to_bytes(t.values[k], w)) = w
    BY <1>5, BytesFacts
  <1>7. AreChunks(seqs, n, w)
    <2>1. DOMAIN seqs = 1 .. n /\ \A k \in 1 .. n : seqs[k] = to_bytes(t.values[k], w)
      BY <1>2, <1>3
    <2>2. Len(seqs) = n
      BY <1>3
    <2> HIDE DEF seqs
    <2> QED
      BY <1>6, <2>1, <2>2 DEF AreChunks
  <1>8. seqs[i] = to_bytes(t.values[i], w)
    BY <1>2, <1>3, <1>4
  <1>9. Buf(t) = FlattenSeq(seqs)
    BY DEF Buf
  <1>10. /\ item.type = "N" /\ item.size = w /\ item.index = w * (i - 1) /\ item.value = t.values[i]
    BY <1>2, <1>3, <1>4 DEF Items
  <1> HIDE DEF seqs, item
  <1>11. IsFlat(FlattenSeq(seqs), seqs, n, w)
    BY <1>4, <1>7, FlattenFacts
  <1>12. ItemBytes(item) = seqs[i] /\ Width(item) = w
    BY <1>8, <1>10 DEF ItemBytes, Width
  <1>13. item.index \in Nat
    <2>1. i - 1 \in Nat
      BY <1>4
    <2> QED
      BY <1>10, <2>1, ProductFacts
  <1>14. \A k \in 1 .. w : Buf(t)[item.index + k] = ItemBytes(item)[k]
    BY <1>4, <1>9, <1>10, <1>11, <1>12 DEF IsFlat
  <1>15. Stands(item, Buf(t))
    BY <1>4, <1>5, <1>6, <1>8, <1>10, <1>12, <1>13, <1>14 DEF Stands, Holds
  <1> QED
    BY <1>15 DEF item

(* A string is one item.                                                    *)
LEMMA StringItem ==
    ASSUME NEW t, IsText(t), t.kind = "string", NEW i \in DOMAIN Items(t)
    PROVE  Stands(Items(t)[i], Buf(t))
  <1>1. t.text \in Seq(Byte)
    BY DEF IsText
  <1>2. PICK s \in Seq(Byte) : s = t.text
    BY <1>1
  <1>3. PICK n \in Nat : n = Len(s) /\ \A k \in 1 .. n : 0 + k = k
    BY LenProperties
  <1> DEFINE item == Items(t)[i]
  <1>4. item.type = "S" /\ item.index = 0 /\ item.text = s
    BY <1>2 DEF Items
  <1> HIDE DEF item
  <1>5. Buf(t) = s
    BY <1>2 DEF Buf
  <1>6. Stands(item, Buf(t))
    BY <1>3, <1>4, <1>5 DEF Stands, Holds, ItemBytes, Width
  <1> QED
    BY <1>6 DEF item

(* A struct holds every item that nothing put later reaches into.           *)
LEMMA StructItem ==
    ASSUME NEW t, IsText(t), ~Raises(t), t.kind = "struct", NEW i \in DOMAIN Items(t), Apart(t, i, Width)
    PROVE  Stands(Items(t)[i], Buf(t))
  <1>1. PICK total \in Nat : total = t.total
    BY DEF IsText
  <1> DEFINE items == t.items
  <1>2. PICK n \in Nat : n = Len(items) /\ DOMAIN items = 1 .. n
    BY DEF IsText
  <1>3. Items(t) = items /\ i \in 1 .. n
    BY <1>2 DEF Items
  <1>4. \A j \in 1 .. n : Writable(items[j], total)
    BY <1>1, <1>2 DEF IsText, Raises, ItemRaises, Writable
  <1>5. Buf(t) = SubSeq(FoldLeft(PutItem, Zeros(total), items), 1, total)
    BY <1>1 DEF Buf, Zeros
  <1> HIDE DEF items
  <1>6. PICK put : IsPut(put, items, n, total)
    BY <1>2, <1>4, StructFacts
  <1>7. PICK buf : buf = put[n] /\ buf \in Bufs(total) /\ Buf(t) = SubSeq(buf, 1, total)
    BY <1>5, <1>6 DEF IsPut
  <1>8. Len(Buf(t)) = total /\ \A x \in 1 .. total : Buf(t)[x] = buf[x]
    <2>1. PICK m \in Nat : m = Len(buf) /\ m >= total
      BY <1>7, LenProperties DEF Bufs
    <2>2. buf \in Seq(Byte)
      BY <1>7 DEF Bufs
    <2> QED
      BY <1>7, <2>1, <2>2, SubSeqProperties
  <1> DEFINE item == items[i]
  <1>9. PICK at \in Nat, w \in Nat : at = item.index /\ w = Width(item)
    BY <1>3, <1>4, ItemBytesFacts
  <1>10. at + w <= total
    BY <1>3, <1>8, <1>9 DEF Apart, Total
  <1>11. Untouched(items, i, n)
    BY <1>2, <1>3 DEF Apart, Untouched
  <1>a. items[i].index + Width(items[i]) <= total
    BY <1>9, <1>10
  <1>12. Holds(put[n], items[i])
    BY ONLY n \in Nat, total \in Nat, <1>3, <1>a, <1>4, <1>6, <1>11, ItemStays
  <1>13. ASSUME NEW k \in 1 .. w PROVE Buf(t)[at + k] = ItemBytes(item)[k]
    <2>1. at + k \in 1 .. total
      BY <1>10
    <2> QED
      BY <1>7, <1>8, <1>9, <1>12, <2>1 DEF Holds
  <1>14. Writable(item, total)
    BY <1>3, <1>4
  <1>15. ItemBytes(item) \in Seq(Byte) /\ Len(ItemBytes(item)) = Width(item)
    BY <1>14, ItemBytesFacts
  <1>16. item.type \in {"N", "S"} /\ (item.type = "N" => item.size \in Nat /\ Fits(item.value, item.size))
    BY <1>14 DEF Writable, IsItem
  <1> HIDE DEF item
  <1>17. Stands(item, Buf(t))
    BY <1>9, <1>13, <1>15, <1>16 DEF Stands, Holds
  <1> QED
    BY <1>3, <1>17 DEF item

(* Whatever a script writes stands in the buffer it is converted to.        *)
LEMMA ItemConverted ==
    ASSUME NEW t, IsText(t), ~Raises(t), NEW i \in DOMAIN Items(t), Apart(t, i, Width)
    PROVE  t.kind # "number" /\ Stands(Items(t)[i], Buf(t))
  <1>1. t.kind # "number"
    BY DEF Items
  <1>2. t.kind \in {"array", "string", "struct"}
    BY <1>1 DEF IsText, Raises
  <1> QED
    BY <1>1, <1>2, ArrayItem, StringItem, StructItem

(* What stands in a buffer arrives, once the buffer has.                    *)
LEMMA StandingArrives ==
    ASSUME NEW t, NEW start \in Nat, NEW item, Stands(item, Buf(t)),
           \A k \in 1 .. Width(item) : ByteAt(start + item.index + k - 1) = Buf(t)[item.index + k]
    PROVE  Arrived(start + item.index, item)
  <1>1. PICK at \in Nat : at = item.index
    BY DEF Stands
  <1>2. PICK w \in Nat : w = Width(item)
    BY DEF Stands
  <1>3. PICK x \in Nat : x = start + at
    OBVIOUS
  <1>4. PICK s \in Seq(Byte) : s = ItemBytes(item) /\ Len(s) = w
    BY <1>2 DEF Stands
  <1>5. ASSUME NEW k \in 1 .. w PROVE ByteAt(x + k - 1) = s[k]
    BY <1>1, <1>2, <1>3, <1>4 DEF Stands, Holds
  <1>6. s = [k \in 1 .. w |-> s[k]]
    BY <1>4
  <1>7. BytesAt(x, w) = s
    BY <1>5, <1>6 DEF BytesAt
  <1>8. CASE item.type = "N"
    <2>1. item.size = w /\ s = to_bytes(item.value, w) /\ Fits(item.value, w)
      BY <1>2, <1>4, <1>8 DEF Width, ItemBytes, Stands
    <2>2. from_bytes(s) = item.value
      BY <2>1, BytesFacts
    <2> QED
      BY <1>1, <1>3, <1>7, <1>8, <2>1, <2>2 DEF Arrived
  <1>9. CASE item.type = "S"
    <2>1. Len(item.text) = w /\ s = item.text
      BY <1>2, <1>4, <1>9 DEF Width, ItemBytes
    <2> QED
      BY <1>1, <1>3, <1>7, <1>9, <2>1 DEF Arrived
  <1> QED
    BY <1>8, <1>9 DEF Stands

-----------------------------------------------------------------------------
(* Every number and string a script writes into an array, a string or a    *)
(* struct reaches the board, at its place and with its value, unless the   *)
(* script itself wrote something over it or wrote it over the end: from    *)
(* the text of the parameter to the bytes of the request                   *)
(* (ParameterHelper.py:82-155, WorkManager.cpp:1433-1457).                 *)
THEOREM FieldsReachTheBoard == CallSpec => []FieldsArrive
  <1>1. IInv /\ TextsHeld /\ BuffersArrive => FieldsArrive
    <2> SUFFICES ASSUME IInv, TextsHeld, BuffersArrive, Sent, NEW j \in DOMAIN texts,
                        NEW i \in DOMAIN Items(texts[j]), Apart(texts[j], i, Width)
                 PROVE  Arrived(Start(j) + Items(texts[j])[i].index, Items(texts[j])[i])
      BY DEF FieldsArrive
    <2> DEFINE t == texts[j]
               item == Items(t)[i]
    <2>1. IsText(t) /\ ~Raises(t)
      BY TextsAssumption DEF TextsHeld, Sent
    <2>2. t.kind # "number" /\ Stands(item, Buf(t))
      BY <2>1, ItemConverted
    <2>3. PICK start \in Nat : start = Start(j)
      BY <2>2, SentParameter, SentFacts DEF Sent
    <2>4. PICK total \in Nat : total = Total(t)
      <3>1. j \in Buffers /\ pstruParas[j] = Parameter(t)
        BY <2>2, SentParameter
      <3>2. pstruParas[j].s32ParaVal = Total(t)
        BY <2>2, <3>1 DEF Parameter, Total
      <3> QED
        BY <3>1, <3>2, SentFacts DEF Sent
    <2>5. PICK at \in Nat, w \in Nat : at = item.index /\ w = Width(item)
      BY <2>2 DEF Stands
    <2>6. at + w <= total
      BY <2>4, <2>5 DEF Apart
    <2>7. \A x \in 1 .. total : ByteAt(start + x - 1) = Buf(t)[x]
      BY <2>2, <2>3, <2>4 DEF BuffersArrive
    <2> HIDE DEF item, t
    <2>8. \A k \in 1 .. Width(item) : ByteAt(start + item.index + k - 1) = Buf(t)[item.index + k]
      <3> SUFFICES ASSUME NEW k \in 1 .. w PROVE ByteAt(start + at + k - 1) = Buf(t)[at + k]
        BY <2>5
      <3>1. at + k \in 1 .. total /\ start + (at + k) - 1 = start + at + k - 1
        BY <2>6
      <3> QED
        BY <2>7, <3>1
    <2>9. Arrived(start + item.index, item)
      BY <2>2, <2>8, StandingArrives
    <2> QED
      BY <2>3, <2>9 DEF item, t
  <1> QED
    BY <1>1, CallInvariant, ConvertedBuffersArrive, PTL

(* An array and a string as a whole: nothing in them lies over anything else. *)
WholeListsArrive ==
  Sent => \A j \in DOMAIN texts :
    /\ texts[j].kind = "array" => \A k \in DOMAIN texts[j].values :
         from_bytes(BytesAt(Start(j) + texts[j].size * (k - 1), texts[j].size)) = texts[j].values[k]
    /\ texts[j].kind = "string" => BytesAt(Start(j), Len(texts[j].text)) = texts[j].text

(* The numbers of an array never reach into one another.                    *)
LEMMA ArrayApart ==
    ASSUME NEW t, IsText(t), ~Raises(t), t.kind = "array", NEW i \in DOMAIN t.values
    PROVE  i \in DOMAIN Items(t) /\ Apart(t, i, Width)
  <1>1. t.size \in Nat /\ t.values \in Seq(Int)
    BY DEF IsText
  <1>2. PICK w \in Nat : w = t.size
    BY <1>1
  <1>3. PICK n \in Nat : n = Len(t.values) /\ DOMAIN t.values = 1 .. n
    BY <1>1, LenProperties
  <1>4. i \in 1 .. n
    BY <1>3
  <1> DEFINE its == Items(t)
  <1>5. /\ DOMAIN its = 1 .. n /\ Len(its) = n
        /\ \A k \in 1 .. n : its[k].type = "N" /\ its[k].size = w /\ its[k].index = w * (k - 1)
    BY <1>2, <1>3 DEF Items
  <1> HIDE DEF its
  <1>6. \A k \in 1 .. n : Width(its[k]) = w /\ its[k].index = w * (k - 1)
    BY <1>5 DEF Width
  <1>7. \A k \in 1 .. n : w * (k - 1) \in Nat /\ w * (k - 1) + w = w * k
    <2> SUFFICES ASSUME NEW k \in 1 .. n PROVE w * (k - 1) \in Nat /\ w * (k - 1) + w = w * k
      OBVIOUS
    <2>1. PICK m \in Nat : m = k - 1 /\ k = m + 1
      OBVIOUS
    <2> QED
      BY <2>1, ProductFacts
  <1>8. Total(t) = w * n
    <2> DEFINE seqs == [k \in DOMAIN t.values |-> to_bytes(t.values[k], t.size)]
    <2>1. \A k \in 1 .. n : to_bytes(t.values[k], w) \in Seq(Byte) /\ Len(to_bytes(t.values[k], w)) = w
      BY <1>2, <1>3, BytesFacts DEF Raises
    <2>2. DOMAIN seqs = 1 .. n /\ Len(seqs) = n /\ \A k \in 1 .. n : seqs[k] = to_bytes(t.values[k], w)
      BY <1>2, <1>3
    <2>3. Buf(t) = FlattenSeq(seqs)
      BY DEF Buf
    <2> HIDE DEF seqs
    <2>4. AreChunks(seqs, n, w)
      BY <2>1, <2>2 DEF AreChunks
    <2>5. IsFlat(FlattenSeq(seqs), seqs, n, w)
      BY <1>4, <2>4, FlattenFacts
    <2> QED
      BY <2>3, <2>5 DEF IsFlat, Total
  <1>9. its[i].index + Width(its[i]) <= Total(t)
    <2>1. w * i <= w * n
      BY <1>4, ProductFacts
    <2> QED
      BY <1>4, <1>6, <1>7, <1>8, <2>1
  <1>10. ASSUME NEW k \in i + 1 .. Len(its) PROVE its[k].index >= its[i].index + Width(its[i])
    <2>1. PICK m \in Nat : m = k - 1 /\ i <= m /\ k \in 1 .. n
      BY <1>4, <1>5
    <2>2. w * i <= w * m /\ w * m \in Nat /\ w * i \in Nat
      BY <1>4, <2>1, ProductFacts
    <2>3. its[i].index + Width(its[i]) = w * i
      BY <1>4, <1>6, <1>7
    <2>4. its[k].index = w * m
      BY <1>6, <2>1
    <2> QED
      BY <2>2, <2>3, <2>4
  <1> QED
    BY <1>4, <1>5, <1>9, <1>10 DEF Apart, its

(* Of every array each number, and of every string each character, reaches *)
(* the board at its place, whatever else the call carries: the condition   *)
(* of FieldsArrive is about structs only (ParameterHelper.py:134-159).     *)
THEOREM ArraysAndStringsArrive == CallSpec => []WholeListsArrive
  <1>1. IInv /\ TextsHeld /\ FieldsArrive => WholeListsArrive
    <2> SUFFICES ASSUME IInv, TextsHeld, FieldsArrive, Sent, NEW j \in DOMAIN texts
                 PROVE  /\ texts[j].kind = "array" => \A k \in DOMAIN texts[j].values :
                             from_bytes(BytesAt(Start(j) + texts[j].size * (k - 1), texts[j].size))
                               = texts[j].values[k]
                        /\ texts[j].kind = "string" =>
                             BytesAt(Start(j), Len(texts[j].text)) = texts[j].text
      BY DEF WholeListsArrive
    <2> DEFINE t == texts[j]
    <2>1. IsText(t) /\ ~Raises(t)
      BY TextsAssumption DEF TextsHeld, Sent
    <2>2. ASSUME t.kind = "array", NEW k \in DOMAIN t.values
          PROVE  from_bytes(BytesAt(Start(j) + t.size * (k - 1), t.size)) = t.values[k]
      <3>1. k \in DOMAIN Items(t) /\ Apart(t, k, Width)
        BY <2>1, <2>2, ArrayApart
      <3>2. Arrived(Start(j) + Items(t)[k].index, Items(t)[k])
        BY <3>1 DEF FieldsArrive
      <3>3. /\ Items(t)[k].type = "N" /\ Items(t)[k].size = t.size
            /\ Items(t)[k].index = t.size * (k - 1) /\ Items(t)[k].value = t.values[k]
        BY <2>2 DEF Items
      <3> QED
        BY <3>2, <3>3 DEF Arrived
    <2>3. ASSUME t.kind = "string" PROVE BytesAt(Start(j), Len(t.text)) = t.text
      <3>1. PICK s \in Seq(Byte) : s = t.text
        BY <2>1, <2>3 DEF IsText
      <3>2. PICK n \in Nat : n = Len(s)
        BY LenProperties
      <3> DEFINE item == Items(t)[1]
      <3>3. DOMAIN Items(t) = {1} /\ Len(Items(t)) = 1 /\ item.type = "S" /\ item.index = 0 /\ item.text = s
        BY <2>3, <3>1 DEF Items
      <3>4. Total(t) = n /\ Width(item) = n
        BY <2>3, <3>1, <3>2, <3>3 DEF Total, Buf, Width
      <3>5. Apart(t, 1, Width)
        BY <3>2, <3>3, <3>4 DEF Apart
      <3>6. Arrived(Start(j) + item.index, item)
        BY <3>3, <3>5 DEF FieldsArrive
      <3>7. PICK start \in Nat : start = Start(j)
        BY <2>3, SentParameter, SentFacts DEF Sent
      <3> QED
        BY <3>1, <3>3, <3>6, <3>7 DEF Arrived
    <2> QED
      BY <2>2, <2>3
  <1> QED
    BY <1>1, CallInvariant, FieldsReachTheBoard, PTL

=============================================================================
