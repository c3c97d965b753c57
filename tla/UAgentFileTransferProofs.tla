----------------------- MODULE UAgentFileTransferProofs -----------------------
(***************************************************************************)
(* What the transfers of UAgentFileTransfer guarantee, for any number of   *)
(* boards, calls and outages.  Two invariants carry the proofs.            *)
(* IInv: the streams and the map keep the answers of a board in the order  *)
(* of the calls, and as long as nothing timed out the call that waits is   *)
(* alone in the system.  IdsInv: the ids that are under way are among      *)
(* those given out, and none is given out twice until one has been for     *)
(* every bit and they are all 0; so an answer with the id that is waited   *)
(* for is the own one or as late as that, and no file of a transfer that   *)
(* is over comes back.                                                     *)
(***************************************************************************)
EXTENDS UAgentFileTransfer, WellFoundedInduction, TLAPS

Elements(s) == {s[k] : k \in DOMAIN s}
Rising(s) == \A k, l \in DOMAIN s : k < l => s[k].id < s[l].id

Requests(p) == Elements(toBoard[p])
Answers(p) == Elements(fromBoard[p])
Messages(p) == Requests(p) \cup Answers(p) \cup ({m_NameFileTransRspMap[p]} \ {NoRsp})

-----------------------------------------------------------------------------
(* The call that runs is the last one, and has not returned. *)
Calls ==
    /\ cur.id = nextId - 1
    /\ \A call \in returned : call.id <= cur.id /\ (call.id = cur.id => pc = "idle")

(* Of every board, the stored answer is older than those to come, and they *)
(* are older than the requests it has not read.                            *)
InOrder ==
    \A p \in Procs :
        /\ Rising(toBoard[p]) /\ Rising(fromBoard[p])
        /\ \A rsp \in Answers(p) : m_NameFileTransRspMap[p].id < rsp.id
        /\ \A req \in Requests(p) : /\ m_NameFileTransRspMap[p].id < req.id
                                    /\ \A rsp \in Answers(p) : rsp.id < req.id

(* What is under way belongs to calls made, the present one's to its board. *)
Known ==
    \A p \in Procs :
        /\ \A x \in Messages(p) : /\ x.id \in 1 .. cur.id
                                  /\ x.id = cur.id => p = cur.proc /\ pc # "send"
        /\ \A req \in Requests(p) : req.id = cur.id => req.op = cur.op

(* The file a successful answer speaks of. *)
Delivered(rsp) ==
    rsp.result = "ok" => IF cur.op = "download" THEN stored[cur.id] = cur.id ELSE tempfile = cur.id

Silent == rcv = "select" /\ ~m_hFileTransEvent

(* Where the one transfer under way is: lost or not yet sent, at the board, *)
(* on its way back, or stored.                                              *)
Lost   == toBoard[cur.proc] = <<>> /\ fromBoard[cur.proc] = <<>> /\ Silent
Asked  == /\ fromBoard[cur.proc] = <<>> /\ Silent
          /\ \E t \in TransIds : toBoard[cur.proc] = <<[id |-> cur.id, op |-> cur.op, transId |-> t]>>
Coming == /\ toBoard[cur.proc] = <<>> /\ Silent
          /\ \E rsp \in Rsp : fromBoard[cur.proc] = <<rsp>> /\ Delivered(rsp)
There  == /\ toBoard[cur.proc] = <<>> /\ fromBoard[cur.proc] = <<>>
          /\ Delivered(m_NameFileTransRspMap[cur.proc])
          /\ (rcv = "stored") = ~m_hFileTransEvent

Alone ==
    NoTimeout =>
        /\ \A p \in Procs : p # cur.proc \/ pc # "wait" => toBoard[p] = <<>> /\ fromBoard[p] = <<>>
        /\ pc # "wait" => Silent
        /\ pc = "wait" => Lost \/ Asked \/ Coming \/ There
        /\ cur.op = "download" /\ pc \in {"send", "wait"} => tempfile = cur.id
        /\ pc = "copy" => tempfile = cur.id

IInv == TypeOK /\ Calls /\ InOrder /\ Known /\ Alone /\ OwnFileWhileNoTimeout

-----------------------------------------------------------------------------
(* The id that is on the wire after k calls. *)
Id(k) == (3 * TwoTo[k]) % TwoTo[IdBits]

(* The ids under way are among those given out, none before its own time.  *)
GivenOut(x, k) == \E i \in 1 .. k : x.transId = Id(i) /\ i <= x.id
Fresh ==
    \E k \in 0 .. cur.id :
        /\ m_nFileTransId = Id(k) /\ (pc = "send" => k < cur.id)
        /\ \A p \in Procs : \A x \in Messages(p) : GivenOut(x, k)

(* The id awaited is the present call's alone, until the ids are all 0. *)
OwnOrWrapped(id) == id = cur.id \/ id >= IdBits
Mine ==
    /\ pc = "wait" => /\ (nSendTransId * 2) % TwoTo[IdBits] = m_nFileTransId
                      /\ \A p \in Procs : \A x \in Messages(p) : x.transId = m_nFileTransId => OwnOrWrapped(x.id)
    /\ pc = "copy" => OwnOrWrapped(m_NameFileTransRspMap[cur.proc].id) /\ cur.op = "upload"

(* The calls whose file must not come back. *)
Over(call) == call.op = "download" \/ (call.code = TESTCASE_SUCCESS /\ call.answer = call.id)
Done(id) == \E call \in returned : call.id = id /\ Over(call)

Gone ==
    /\ tempfile <= cur.id /\ ~Done(tempfile)
    /\ \A p \in Procs : \A req \in Requests(p) : req.op = "upload" => ~Done(req.id)

IdsInv == Fresh /\ Mine /\ Gone /\ SuccessOnOwnAnswer

-----------------------------------------------------------------------------
(* Powers of two and the ids made of them *)

(* A non-empty set of naturals has a least element. *)
LEMMA LeastNatural ==
    ASSUME NEW T \in SUBSET Nat, T # {}
    PROVE  \E x \in T : \A y \in T : x <= y
  <1>1. PICK x \in T : \A y \in T : ~ (<<y, x>> \in OpToRel(<, Nat))
    BY NatLessThanWellFounded, WFMin
  <1>2. \A y \in T : ~(y < x)
    BY <1>1 DEF OpToRel
  <1> QED
    BY <1>2

(* The powers up to the n-th. *)
Powers(n) == {f \in [0 .. n -> Nat] : f[0] = 1 /\ \A k \in 1 .. n : f[k] = 2 * f[k - 1]}

(* There are such powers for every n. *)
LEMMA PowersExist == \A n \in Nat : Powers(n) # {}
  <1> DEFINE T == {n \in Nat : Powers(n) = {}}
  <1> SUFFICES ASSUME T # {} PROVE FALSE
    OBVIOUS
  <1>0. T \in SUBSET Nat
    OBVIOUS
  <1>1. PICK n \in T : \A m \in T : n <= m
    <2> HIDE DEF T
    <2> QED
      BY <1>0, LeastNatural
  <1>2. CASE n = 0
    <2>1. [k \in 0 .. 0 |-> 1] \in Powers(0)
      BY DEF Powers
    <2> QED
      BY <1>1, <1>2, <2>1
  <1>3. CASE n # 0
    <2>1. n - 1 \in Nat /\ n - 1 \notin T
      BY <1>1, <1>3
    <2>2. PICK f \in Powers(n - 1) : TRUE
      BY <2>1
    <2>3. f \in [0 .. n - 1 -> Nat] /\ f[0] = 1 /\ \A k \in 1 .. n - 1 : f[k] = 2 * f[k - 1]
      BY <2>2 DEF Powers
    <2> DEFINE g == [k \in 0 .. n |-> IF k = n THEN 2 * f[n - 1] ELSE f[k]]
    <2>4. g \in [0 .. n -> Nat] /\ g[0] = 1 /\ \A k \in 1 .. n : g[k] = 2 * g[k - 1]
      BY <1>1, <1>3, <2>1, <2>3
    <2> HIDE DEF g
    <2>5. g \in Powers(n)
      BY <2>4 DEF Powers
    <2> QED
      BY <1>1, <2>5
  <1> QED
    BY <1>2, <1>3

(* They agree wherever both are defined. *)
LEMMA PowersAgree ==
    ASSUME NEW m \in Nat, NEW n \in Nat, NEW f \in Powers(m), NEW g \in Powers(n),
           NEW k \in Nat, k <= m, k <= n
    PROVE  f[k] = g[k]
  <1> DEFINE T == {j \in 0 .. k : f[j] # g[j]}
  <1> SUFFICES ASSUME T # {} PROVE FALSE
    OBVIOUS
  <1>0. T \in SUBSET Nat
    OBVIOUS
  <1>1. PICK j \in T : \A i \in T : j <= i
    <2> HIDE DEF T
    <2> QED
      BY <1>0, LeastNatural
  <1>2. f[0] = 1 /\ g[0] = 1 /\ (\A i \in 1 .. m : f[i] = 2 * f[i - 1]) /\ \A i \in 1 .. n : g[i] = 2 * g[i - 1]
    BY DEF Powers
  <1>3. j # 0 /\ j \in 1 .. m /\ j \in 1 .. n /\ j - 1 \in 0 .. k
    BY <1>1, <1>2
  <1>4. f[j - 1] = g[j - 1]
    BY <1>1, <1>3
  <1> QED
    BY <1>1, <1>2, <1>3, <1>4

(* The recursion of TwoTo is well defined. *)
LEMMA TwoToUnfolds == TwoTo = [n \in Nat |-> IF n = 0 THEN 1 ELSE 2 * TwoTo[n - 1]]
  <1> DEFINE Pick(n) == CHOOSE f : f \in Powers(n)
             F == [n \in Nat |-> Pick(n)[n]]
  <1>1. \A n \in Nat : Pick(n) \in Powers(n)
    BY PowersExist
  <1> HIDE DEF Pick
  <1>2. \A n \in Nat : F[n] = IF n = 0 THEN 1 ELSE 2 * F[n - 1]
    <2> SUFFICES ASSUME NEW n \in Nat PROVE F[n] = IF n = 0 THEN 1 ELSE 2 * F[n - 1]
      OBVIOUS
    <2>1. CASE n = 0
      BY <1>1, <2>1 DEF Powers
    <2>2. CASE n # 0
      <3>1. n - 1 \in Nat /\ n \in 1 .. n
        BY <2>2
      <3>2. Pick(n)[n] = 2 * Pick(n)[n - 1]
        BY <1>1, <3>1 DEF Powers
      <3>3. Pick(n)[n - 1] = Pick(n - 1)[n - 1]
        BY <1>1, <3>1, PowersAgree
      <3> QED
        BY <2>2, <3>1, <3>2, <3>3
    <2> QED
      BY <2>1, <2>2
  <1>3. F = [n \in Nat |-> IF n = 0 THEN 1 ELSE 2 * F[n - 1]]
    BY <1>2
  <1> HIDE DEF F
  <1>4. \E f : f = [n \in Nat |-> IF n = 0 THEN 1 ELSE 2 * f[n - 1]]
    BY <1>3
  <1> QED
    BY <1>4 DEF TwoTo

(* TwoTo[n] is 2 ^ n. *)
LEMMA TwoToFacts ==
    /\ TwoTo[0] = 1
    /\ \A n \in Nat : TwoTo[n] \in Nat \ {0} /\ TwoTo[n + 1] = 2 * TwoTo[n]
  <1>1. TwoTo[0] = 1
    BY TwoToUnfolds
  <1>2. \A n \in Nat : TwoTo[n + 1] = 2 * TwoTo[n]
    <2> SUFFICES ASSUME NEW n \in Nat PROVE TwoTo[n + 1] = 2 * TwoTo[n]
      OBVIOUS
    <2>1. n + 1 \in Nat /\ n + 1 # 0 /\ (n + 1) - 1 = n
      OBVIOUS
    <2> QED
      BY <2>1, TwoToUnfolds
  <1>3. \A n \in Nat : TwoTo[n] \in Nat \ {0}
    <2> DEFINE T == {n \in Nat : TwoTo[n] \notin Nat \ {0}}
    <2> SUFFICES ASSUME T # {} PROVE FALSE
      OBVIOUS
    <2>1. PICK n \in T : \A m \in T : n <= m
      BY LeastNatural
    <2>2. n # 0 /\ n - 1 \in Nat /\ n - 1 \notin T
      BY <1>1, <2>1
    <2>3. TwoTo[n] = 2 * TwoTo[n - 1]
      BY <1>2, <2>2
    <2> QED
      BY <2>1, <2>2, <2>3
  <1> QED
    BY <1>1, <1>2, <1>3

(* A power of two divides the later ones. *)
LEMMA TwoToDivides ==
    ASSUME NEW i \in Nat
    PROVE  \A d \in Nat : \E e \in Nat \ {0} : TwoTo[i + d] = TwoTo[i] * e
  <1> DEFINE Divides(d) == \E e \in Nat \ {0} : TwoTo[i + d] = TwoTo[i] * e
             T == {d \in Nat : ~Divides(d)}
  <1>1. PICK a \in Nat : a = TwoTo[i]
    BY TwoToFacts
  <1>2. Divides(0)
    <2>1. i + 0 = i /\ TwoTo[i] = TwoTo[i] * 1
      BY TwoToFacts
    <2> QED
      BY <2>1
  <1>3. ASSUME NEW d \in Nat, Divides(d)
        PROVE  Divides(d + 1)
    <2>1. PICK e \in Nat \ {0} : TwoTo[i + d] = a * e
      BY <1>1, <1>3
    <2>2. i + d \in Nat /\ (i + d) + 1 = i + (d + 1)
      OBVIOUS
    <2>3. TwoTo[i + (d + 1)] = 2 * (a * e)
      BY <2>1, <2>2, TwoToFacts
    <2>4. 2 * (a * e) = a * (2 * e) /\ 2 * e \in Nat \ {0}
      OBVIOUS
    <2> QED
      BY <1>1, <2>3, <2>4
  <1> SUFFICES T = {}
    OBVIOUS
  <1> HIDE DEF Divides
  <1> SUFFICES ASSUME T # {} PROVE FALSE
    OBVIOUS
  <1>4. PICK d \in T : \A m \in T : d <= m
    BY LeastNatural
  <1>5. d - 1 \in Nat /\ d - 1 \notin T
    BY <1>2, <1>4
  <1>6. Divides((d - 1) + 1) /\ (d - 1) + 1 = d
    BY <1>3, <1>5
  <1> QED
    BY <1>4, <1>6

(* Dividing leaves a rest. *)
LEMMA Division ==
    ASSUME NEW x \in Int, NEW m \in Nat \ {0}
    PROVE  x % m \in 0 .. m - 1 /\ \E q \in Int : x = m * q + (x % m)
  <1>1. x \div m \in Int /\ x % m \in 0 .. m - 1 /\ x = m * (x \div m) + (x % m)
    OBVIOUS
  <1> QED
    BY <1>1

(* There is no other. *)
LEMMA Rest ==
    ASSUME NEW x \in Int, NEW m \in Nat \ {0}, NEW q \in Int, NEW r \in 0 .. m - 1, x = m * q + r
    PROVE  x % m = r
  <1>1. PICK z \in 0 .. m - 1 : z = x % m
    BY Division
  <1>2. PICK k \in Int : x = m * k + z
    BY <1>1, Division
  <1>3. PICK d \in Int : d = q - k
    OBVIOUS
  <1>4. m * d = z - r
    BY <1>2, <1>3
  <1>5. CASE d = 0
    BY <1>1, <1>4, <1>5
  <1>6. CASE d > 0
    <2>1. m * d >= m
      BY <1>6
    <2> QED
      BY <1>4, <2>1
  <1>7. CASE d < 0
    <2>1. m * d <= - m
      BY <1>7
    <2> QED
      BY <1>4, <2>1
  <1> QED
    BY <1>5, <1>6, <1>7

(* Doubling an id gives the next one. *)
LEMMA NextId ==
    ASSUME NEW k \in Nat
    PROVE  Id(k) \in TransIds /\ (Id(k) * 2) % TwoTo[IdBits] = Id(k + 1)
  <1>1. PICK w \in Nat \ {0} : w = TwoTo[IdBits]
    BY TwoToFacts, UAgentFileTransferAssumption
  <1>2. PICK x \in Int : x = 3 * TwoTo[k] /\ x * 2 = 3 * TwoTo[k + 1]
    BY TwoToFacts
  <1>3. PICK r \in 0 .. w - 1 : r = x % w
    BY Division
  <1>4. PICK q \in Int : x = w * q + r
    BY <1>3, Division
  <1>5. PICK y \in Int : y = r * 2
    OBVIOUS
  <1>6. PICK s \in 0 .. w - 1 : s = y % w
    BY Division
  <1>7. PICK p \in Int : y = w * p + s
    BY <1>6, Division
  <1>8. PICK z \in Int : z = x * 2
    OBVIOUS
  <1>9. PICK n \in Int : n = 2 * q + p
    OBVIOUS
  <1>10. z = w * n + s
    BY <1>4, <1>5, <1>7, <1>8, <1>9
  <1>11. z % w = s
    BY <1>10, Rest
  <1> QED
    BY <1>1, <1>2, <1>3, <1>5, <1>6, <1>8, <1>11 DEF Id, TransIds

(* The ids differ until one has been given out for every bit. *)
LEMMA IdsDiffer ==
    ASSUME NEW i \in Nat, NEW k \in Nat, i < k, k <= IdBits
    PROVE  Id(i) # Id(k)
  <1> SUFFICES ASSUME Id(i) = Id(k) PROVE FALSE
    OBVIOUS
  <1>0. IdBits \in Nat
    BY UAgentFileTransferAssumption
  <1>1. PICK a \in Nat \ {0} : a = TwoTo[i] /\ TwoTo[i + 1] = 2 * a
    BY TwoToFacts
  <1>2. PICK e \in Nat \ {0} : TwoTo[k] = (2 * a) * e
    <2>1. PICK h, d \in Nat : h = i + 1 /\ h + d = k
      <3>1. i + 1 \in Nat /\ k - (i + 1) \in Nat /\ (i + 1) + (k - (i + 1)) = k
        OBVIOUS
      <3> QED
        BY <3>1
    <2>2. \E e \in Nat \ {0} : TwoTo[h + d] = TwoTo[h] * e
      BY TwoToDivides
    <2> QED
      BY <1>1, <2>1, <2>2
  <1>3. PICK b \in Nat \ {0} : b = TwoTo[k] /\ b = (2 * a) * e
    BY <1>2, TwoToFacts
  <1>4. PICK c \in Nat \ {0} : TwoTo[IdBits] = b * c
    <2>1. PICK d \in Nat : k + d = IdBits
      <3>1. IdBits - k \in Nat /\ k + (IdBits - k) = IdBits
        BY <1>0
      <3> QED
        BY <3>1
    <2>2. \E f \in Nat \ {0} : TwoTo[k + d] = TwoTo[k] * f
      BY TwoToDivides
    <2> QED
      BY <1>3, <2>1, <2>2
  <1>5. PICK w \in Nat \ {0} : w = TwoTo[IdBits] /\ w = b * c
    BY <1>0, <1>4, TwoToFacts
  <1>6. PICK u, v \in Int : u = 3 * a /\ v = 3 * b
    <2>1. 3 * a \in Int /\ 3 * b \in Int
      OBVIOUS
    <2> QED
      BY <2>1
  <1>7. PICK p \in Int : u = w * p + (u % w)
    BY Division
  <1>a. PICK q \in Int : v = w * q + (v % w)
    BY Division
  <1>b. PICK r \in Int : u % w = r /\ v % w = r
    <2>1. u % w \in Int
      BY Division
    <2>2. Id(i) = u % w /\ Id(k) = v % w
      BY <1>1, <1>3, <1>5, <1>6 DEF Id
    <2> QED
      BY <2>1, <2>2
  <1>8. PICK n \in Int : n = q - p
    OBVIOUS
  <1>9. 3 * b - 3 * a = w * n
    BY <1>6, <1>7, <1>a, <1>b, <1>8
  <1>10. PICK y \in Int : y = (e * c) * n
    OBVIOUS
  <1>11. w * n = a * (2 * y)
    BY <1>3, <1>5, <1>10
  <1>12. a * (6 * e - 3) = a * (2 * y)
    BY <1>3, <1>9, <1>11
  <1>13. 6 * e - 3 = 2 * y
    BY <1>12
  <1> QED
    BY <1>13

(* From there on they are all 0. *)
LEMMA WrappedId ==
    ASSUME NEW k \in Nat, k >= IdBits
    PROVE  Id(k) = 0
  <1>0. IdBits \in Nat
    BY UAgentFileTransferAssumption
  <1>1. PICK d \in Nat : k = IdBits + d
    <2>1. k - IdBits \in Nat /\ k = IdBits + (k - IdBits)
      BY <1>0
    <2> QED
      BY <2>1
  <1>2. PICK w \in Nat \ {0} : w = TwoTo[IdBits]
    BY <1>0, TwoToFacts
  <1>3. PICK e \in Nat \ {0} : TwoTo[k] = w * e
    BY <1>0, <1>1, <1>2, TwoToDivides
  <1>4. PICK x \in Int : x = 3 * TwoTo[k] /\ x = w * (3 * e) + 0
    BY <1>2, <1>3
  <1>5. x % w = 0
    <2>1. 3 * e \in Int /\ 0 \in 0 .. w - 1
      OBVIOUS
    <2> QED
      BY <1>4, <2>1, Rest
  <1> QED
    BY <1>2, <1>4, <1>5 DEF Id

(* An id that comes again is the 0 of the wrapped ones. *)
LEMMA RepeatedId ==
    ASSUME NEW i \in Nat, NEW k \in Nat, i < k, Id(i) = Id(k)
    PROVE  i >= IdBits
  <1>0. IdBits \in Nat
    BY UAgentFileTransferAssumption
  <1> SUFFICES ASSUME i < IdBits PROVE FALSE
    BY <1>0
  <1>1. CASE k <= IdBits
    BY <1>1, IdsDiffer
  <1>2. CASE k >= IdBits
    <2>1. Id(k) = 0 /\ Id(IdBits) = 0
      BY <1>0, <1>2, WrappedId
    <2>2. Id(i) # Id(IdBits)
      BY <1>0, IdsDiffer
    <2> QED
      BY <2>1, <2>2
  <1> QED
    BY <1>0, <1>1, <1>2

-----------------------------------------------------------------------------
(* The streams *)

(* What a message appended does to a stream. *)
LEMMA AppendFacts ==
    ASSUME NEW S, NEW s \in Seq(S), NEW x \in S
    PROVE  /\ Append(s, x) \in Seq(S) /\ Elements(Append(s, x)) = Elements(s) \cup {x}
           /\ Rising(s) /\ (\A e \in Elements(s) : e.id < x.id) => Rising(Append(s, x))
  <1>1. PICK n \in Nat : n = Len(s) /\ DOMAIN s = 1 .. n
    OBVIOUS
  <1>2. /\ Append(s, x) \in Seq(S) /\ DOMAIN Append(s, x) = 1 .. n + 1
        /\ Append(s, x)[n + 1] = x /\ \A k \in 1 .. n : Append(s, x)[k] = s[k]
    BY <1>1
  <1>3. \A e : e \in Elements(Append(s, x)) <=> e \in Elements(s) \cup {x}
    BY <1>1, <1>2 DEF Elements
  <1>4. ASSUME Rising(s), \A e \in Elements(s) : e.id < x.id
        PROVE  Rising(Append(s, x))
    <2> SUFFICES ASSUME NEW k \in 1 .. n + 1, NEW l \in 1 .. n + 1, k < l
                 PROVE  Append(s, x)[k].id < Append(s, x)[l].id
      BY <1>2 DEF Rising
    <2>1. CASE l = n + 1
      BY <1>1, <1>2, <1>4, <2>1 DEF Elements
    <2>2. CASE l # n + 1
      BY <1>1, <1>2, <1>4, <2>2 DEF Rising
    <2> QED
      BY <2>1, <2>2
  <1> QED
    BY <1>2, <1>3, <1>4

(* What a message taken off does to it. *)
LEMMA TailFacts ==
    ASSUME NEW S, NEW s \in Seq(S), s # <<>>
    PROVE  /\ Head(s) \in S /\ Head(s) \in Elements(s)
           /\ Tail(s) \in Seq(S) /\ Elements(Tail(s)) \subseteq Elements(s)
           /\ Rising(s) => Rising(Tail(s)) /\ \A e \in Elements(Tail(s)) : Head(s).id < e.id
  <1>1. PICK n \in Nat \ {0} : n = Len(s) /\ DOMAIN s = 1 .. n
    OBVIOUS
  <1>2. /\ Tail(s) \in Seq(S) /\ DOMAIN Tail(s) = 1 .. n - 1
        /\ Head(s) = s[1] /\ \A k \in 1 .. n - 1 : Tail(s)[k] = s[k + 1]
    BY <1>1
  <1>3. ASSUME NEW e \in Elements(Tail(s))
        PROVE  \E k \in 2 .. n : e = s[k]
    BY <1>2, <1>3 DEF Elements
  <1>4. ASSUME Rising(s), NEW k \in 1 .. n - 1, NEW l \in 1 .. n - 1, k < l
        PROVE  Tail(s)[k].id < Tail(s)[l].id
    BY <1>1, <1>2, <1>4 DEF Rising
  <1>5. Rising(s) => Rising(Tail(s))
    BY <1>2, <1>4 DEF Rising
  <1> QED
    BY <1>1, <1>2, <1>3, <1>5 DEF Elements, Rising

(* What is in a stream has its type. *)
LEMMA ElementFacts ==
    /\ \A S : \A s \in Seq(S) : Elements(s) \subseteq S
    /\ Elements(<<>>) = {} /\ Rising(<<>>)
  <1>1. \A S : \A s \in Seq(S) : Elements(s) \subseteq S
    BY DEF Elements
  <1> QED
    BY <1>1 DEF Elements, Rising

-----------------------------------------------------------------------------
(* Type correctness *)

CallType == [id : CallIds, proc : Procs, op : Ops]

(* What a call leaves behind when it returns. *)
LEMMA ReturnFacts ==
    ASSUME TypeOK, NEW call \in CallType, NEW why \in Reasons, NEW answer \in Files, NEW got \in Files,
           Return(call, why, answer, got)
    PROVE  /\ pc' = "idle" /\ returned \subseteq returned' /\ returned' \subseteq Returned
           /\ \A c \in returned' \ returned :
                /\ c.id = call.id /\ c.op = call.op /\ c.answer = answer /\ c.got = got
                /\ c.code = TESTCASE_SUCCESS <=> why = "done"
           /\ NoTimeout' <=> NoTimeout /\ why # "timeout"
  <1> DEFINE new == [id |-> call.id, op |-> call.op,
                     code |-> IF why = "done" THEN TESTCASE_SUCCESS ELSE TESTCASE_FAIL,
                     why |-> why, answer |-> answer, got |-> got]
  <1>1. pc' = "idle" /\ returned' = returned \cup {new}
    BY DEF Return
  <1>2. new \in Returned
    BY DEF Returned, CallType
  <1>3. /\ new.id = call.id /\ new.op = call.op /\ new.answer = answer /\ new.got = got /\ new.why = why
        /\ new.code = TESTCASE_SUCCESS <=> why = "done"
    BY DEF TESTCASE_SUCCESS, TESTCASE_FAIL
  <1> HIDE DEF new
  <1> QED
    BY <1>1, <1>2, <1>3 DEF TypeOK, NoTimeout

(* A call that is entered. *)
LEMMA EnterFacts ==
    ASSUME TypeOK, NEW p \in Procs, NEW op \in Ops, Enter(p, op)
    PROVE  /\ pc = "idle" /\ nextId \in CallIds
           /\ NewCall(p, op) \in CallType /\ NewCall(p, op).id = nextId
           /\ NewCall(p, op).proc = p /\ NewCall(p, op).op = op
           /\ cur' = NewCall(p, op) /\ cur'.id = nextId /\ cur'.proc = p /\ cur'.op = op
           /\ nextId' = nextId + 1 /\ nextId' \in 1 .. MaxCalls + 1
           /\ cur' \in [id : Files, proc : Procs, op : Ops] /\ cur'.id \in CallIds
  <1>1. MaxCalls \in Nat /\ nextId \in 1 .. MaxCalls + 1 /\ nextId <= MaxCalls /\ pc = "idle"
    BY UAgentFileTransferAssumption DEF TypeOK, Enter
  <1>2. nextId \in CallIds /\ nextId \in Files /\ nextId + 1 \in 1 .. MaxCalls + 1
    BY <1>1 DEF CallIds, Files
  <1> QED
    BY <1>1, <1>2 DEF Enter, NewCall, CallType

(* A doubled id fits its width. *)
LEMMA DoubledFacts == TypeOK => Doubled \in TransIds
  <1> SUFFICES ASSUME TypeOK PROVE Doubled \in TransIds
    OBVIOUS
  <1>1. PICK w \in Nat \ {0} : w = TwoTo[IdBits]
    BY TwoToFacts, UAgentFileTransferAssumption
  <1>2. PICK x \in Int : x = m_nFileTransId * 2
    BY DEF TypeOK, TransIds
  <1>3. x % w \in 0 .. w - 1
    BY Division
  <1> QED
    BY <1>1, <1>2, <1>3 DEF Doubled, TransIds

(* The request as it is handed to send(), which may swallow it. *)
LEMMA SendFacts ==
    ASSUME TypeOK, NEW call \in CallType, SendMsg_FileTransReq(call)
    PROVE  /\ pc' = "wait" /\ returned' = returned
           /\ toBoard' \in [Procs -> Seq(Request)]
           /\ \/ toBoard' = toBoard
              \/ \E req \in Request :
                   /\ req = [id |-> call.id, op |-> call.op, transId |-> Doubled]
                   /\ toBoard' = [toBoard EXCEPT ![call.proc] = Append(@, req)]
  <1> DEFINE req == [id |-> call.id, op |-> call.op, transId |-> Doubled]
  <1>1. req \in Request /\ call.proc \in Procs
    BY DoubledFacts DEF Request, CallType
  <1>2. toBoard[call.proc] \in Seq(Request)
    BY <1>1 DEF TypeOK
  <1>3. Append(toBoard[call.proc], req) \in Seq(Request)
    BY <1>1, <1>2, AppendFacts
  <1>4. CASE up[call.proc]
    <2>1. pc' = "wait" /\ returned' = returned /\ toBoard' = [toBoard EXCEPT ![call.proc] = Append(@, req)]
      BY <1>4 DEF SendMsg_FileTransReq
    <2> HIDE DEF req
    <2>2. toBoard' \in [Procs -> Seq(Request)]
      BY <1>1, <1>3, <2>1 DEF TypeOK
    <2> QED
      BY <1>1, <2>1, <2>2 DEF req
  <1>5. CASE ~up[call.proc]
    BY <1>5 DEF SendMsg_FileTransReq, TypeOK
  <1> QED
    BY <1>4, <1>5

(* The answer that a call finds under its name. *)
LEMMA FoundFacts ==
    ASSUME TypeOK, pc # "idle"
    PROVE  /\ cur \in CallType /\ cur.id \in Files
           /\ m_NameFileTransRspMap[cur.proc] \in Rsp \cup {NoRsp}
           /\ m_NameFileTransRspMap[cur.proc].id \in Files
           /\ Rejected(m_NameFileTransRspMap[cur.proc]) \in (Reasons \ {"done", "timeout"}) \cup {"no"}
           /\ stored[cur.id] \in Files
  <1>1. cur \in CallType /\ cur.id \in CallIds /\ cur.proc \in Procs
    BY DEF TypeOK, CallType
  <1>2. CallIds \subseteq Files /\ 0 \in Files
    BY UAgentFileTransferAssumption DEF CallIds, Files
  <1>3. m_NameFileTransRspMap[cur.proc] \in Rsp \cup {NoRsp}
    BY <1>1 DEF TypeOK
  <1>4. \A rsp \in Rsp \cup {NoRsp} : rsp.id \in Files
    BY <1>2 DEF Rsp, NoRsp
  <1>5. \A rsp \in Rsp \cup {NoRsp} : Rejected(rsp) \in (Reasons \ {"done", "timeout"}) \cup {"no"}
    BY DEF Rejected, Reasons
  <1>6. stored[cur.id] \in Files
    BY <1>1 DEF TypeOK
  <1> QED
    BY <1>1, <1>2, <1>3, <1>4, <1>5, <1>6

(* What happens to the streams when a board answers. *)
LEMMA AnswerFacts ==
    ASSUME TypeOK, NEW p \in Procs, toBoard[p] # <<>>, NEW result \in TransResults,
           Answer(p, Head(toBoard[p]), result)
    PROVE  /\ toBoard' = [toBoard EXCEPT ![p] = Tail(@)]
           /\ Head(toBoard[p]) \in Request /\ Head(toBoard[p]) \in Requests(p)
           /\ toBoard' \in [Procs -> Seq(Request)] /\ fromBoard' \in [Procs -> Seq(Rsp)]
           /\ \E rsp \in Rsp :
                /\ rsp = [id |-> Head(toBoard[p]).id, transId |-> Head(toBoard[p]).transId, result |-> result]
                /\ fromBoard' = [fromBoard EXCEPT ![p] = Append(@, rsp)]
  <1> DEFINE req == Head(toBoard[p])
             rsp == [id |-> req.id, transId |-> req.transId, result |-> result]
  <1>1. toBoard[p] \in Seq(Request) /\ fromBoard[p] \in Seq(Rsp)
    BY DEF TypeOK
  <1>2. req \in Request /\ req \in Requests(p) /\ Tail(toBoard[p]) \in Seq(Request)
    BY <1>1, TailFacts DEF Requests
  <1>3. rsp \in Rsp
    BY <1>2 DEF Request, Rsp
  <1>4. Append(fromBoard[p], rsp) \in Seq(Rsp)
    BY <1>1, <1>3, AppendFacts
  <1>5. toBoard' = [toBoard EXCEPT ![p] = Tail(@)] /\ fromBoard' = [fromBoard EXCEPT ![p] = Append(@, rsp)]
    BY DEF Answer
  <1> HIDE DEF rsp
  <1>6. toBoard' \in [Procs -> Seq(Request)] /\ fromBoard' \in [Procs -> Seq(Rsp)]
    BY <1>2, <1>4, <1>5 DEF TypeOK
  <1> QED
    BY <1>2, <1>3, <1>5, <1>6 DEF rsp

(* A board's step: it answers its first request, with the file or an error. *)
LEMMA BoardFacts ==
    ASSUME TypeOK, NEW p \in Procs, BoardTransfer(p)
    PROVE  /\ toBoard[p] # <<>>
           /\ \E result \in TransResults : Answer(p, Head(toBoard[p]), result)
              /\ \/ result = "error" /\ UNCHANGED <<tempfile, stored>>
                 \/ /\ result = "ok" /\ Head(toBoard[p]).op = "download" /\ tempfile # 0
                    /\ stored' = [stored EXCEPT ![Head(toBoard[p]).id] = tempfile] /\ UNCHANGED tempfile
                 \/ /\ result = "ok" /\ Head(toBoard[p]).op = "upload"
                    /\ tempfile' = Head(toBoard[p]).id /\ UNCHANGED stored
           /\ UNCHANGED <<callVars, m_hFileTransEvent, rcvVars, up, outages>>
  BY DEF BoardTransfer, TransResults

(* The test thread's steps keep the types. *)
LEMMA CallTypes ==
    ASSUME TypeOK
    PROVE  /\ \A p \in Procs : DownloadFile(p) \/ UploadFile(p) => TypeOK'
           /\ SendDownload \/ FileTransTimeout \/ TakeFileTransRsp \/ CopyUploaded => TypeOK'
  <1>0. 0 \in Files /\ CallIds \subseteq Files /\ Doubled \in TransIds /\ m_nFileTransId \in TransIds
    BY UAgentFileTransferAssumption, DoubledFacts DEF CallIds, Files, TypeOK
  <1>1. ASSUME NEW p \in Procs, DownloadFile(p) PROVE TypeOK'
    <2>1. Enter(p, "download") /\ "download" \in Ops
      BY <1>1 DEF DownloadFile, Ops
    <2>2. CASE Return(NewCall(p, "download"), "source", 0, 0) /\ UNCHANGED tempfile
      <3>1. pc' = "idle" /\ returned' \subseteq Returned
        BY <1>0, <2>1, <2>2, EnterFacts, ReturnFacts DEF Reasons
      <3> QED
        BY <1>1, <2>1, <2>2, <3>1, EnterFacts DEF DownloadFile, TypeOK, rcvVars, boardVars
    <2>3. CASE tempfile' = nextId /\ pc' = "send" /\ UNCHANGED returned
      BY <1>0, <1>1, <2>1, <2>3, EnterFacts DEF DownloadFile, TypeOK, rcvVars, boardVars
    <2> QED
      BY <1>1, <2>2, <2>3 DEF DownloadFile
  <1>2. ASSUME NEW p \in Procs, UploadFile(p) PROVE TypeOK'
    <2>1. Enter(p, "upload") /\ "upload" \in Ops /\ TakeTransId
      BY <1>2 DEF UploadFile, Ops
    <2>2. PICK call \in CallType : call = NewCall(p, "upload")
      BY <2>1, EnterFacts
    <2>3. pc' \in {"idle", "wait"} /\ returned' \subseteq Returned /\ toBoard' \in [Procs -> Seq(Request)]
      <3>1. CASE SendMsg_FileTransReq(call)
        BY <3>1, SendFacts DEF TypeOK
      <3>2. CASE SendFails(call)
        BY <1>0, <3>2, ReturnFacts DEF SendFails, Reasons, TypeOK
      <3> QED
        BY <1>2, <2>2, <3>1, <3>2 DEF UploadFile
    <2> QED
      BY <1>0, <1>2, <2>1, <2>3, EnterFacts DEF UploadFile, TakeTransId, TypeOK, rcvVars, boardVars
  <1>3. CASE SendDownload
    <2>1. cur \in CallType /\ pc = "send" /\ TakeTransId
      BY <1>3, FoundFacts DEF SendDownload
    <2>2. pc' \in {"idle", "wait"} /\ returned' \subseteq Returned /\ toBoard' \in [Procs -> Seq(Request)]
          /\ tempfile' \in Files
      <3>1. CASE SendMsg_FileTransReq(cur) /\ UNCHANGED tempfile
        BY <2>1, <3>1, SendFacts DEF TypeOK
      <3>2. CASE SendFails(cur) /\ DelTempFile
        BY <1>0, <2>1, <3>2, ReturnFacts DEF SendFails, DelTempFile, Reasons, TypeOK
      <3> QED
        BY <1>3, <3>1, <3>2 DEF SendDownload
    <2> QED
      BY <1>0, <1>3, <2>1, <2>2 DEF SendDownload, TakeTransId, TypeOK, rcvVars, boardVars
  <1>4. CASE FileTransTimeout
    <2>1. cur \in CallType
      BY <1>4, FoundFacts DEF FileTransTimeout
    <2>2. pc' = "idle" /\ returned' \subseteq Returned /\ tempfile' \in Files
      BY <1>0, <1>4, <2>1, ReturnFacts DEF FileTransTimeout, DelIfDownload, Reasons, TypeOK
    <2> QED
      BY <1>4, <2>2 DEF FileTransTimeout, TypeOK, rcvVars, boardVars
  <1>5. CASE TakeFileTransRsp
    <2>1. PICK rsp : rsp = m_NameFileTransRspMap[cur.proc]
      OBVIOUS
    <2>2. cur \in CallType /\ rsp.id \in Files /\ stored[cur.id] \in Files
          /\ Rejected(rsp) \in Reasons \cup {"no"} /\ pc = "wait"
      BY <1>5, <2>1, FoundFacts DEF TakeFileTransRsp
    <2>3. pc' \in {"idle", "copy"} /\ returned' \subseteq Returned /\ tempfile' \in Files
      <3>1. CASE Rejected(rsp) # "no" /\ Return(cur, Rejected(rsp), rsp.id, 0) /\ DelIfDownload
        BY <1>0, <2>2, <3>1, ReturnFacts DEF DelIfDownload, TypeOK
      <3>2. CASE Return(cur, "done", rsp.id, stored[cur.id]) /\ DelTempFile
        BY <1>0, <2>2, <3>2, ReturnFacts DEF DelTempFile, Reasons
      <3>3. CASE pc' = "copy" /\ UNCHANGED <<returned, tempfile>>
        BY <3>3 DEF TypeOK
      <3> QED
        BY <1>5, <2>1, <3>1, <3>2, <3>3 DEF TakeFileTransRsp
    <2> QED
      BY <1>5, <2>2, <2>3 DEF TakeFileTransRsp, TypeOK, rcvVars, boardVars
  <1>6. CASE CopyUploaded
    <2>1. cur \in CallType /\ m_NameFileTransRspMap[cur.proc].id \in Files /\ tempfile \in Files
      BY <1>6, FoundFacts DEF CopyUploaded, TypeOK
    <2>2. pc' = "idle" /\ returned' \subseteq Returned /\ tempfile' \in Files
      BY <1>0, <1>6, <2>1, ReturnFacts DEF CopyUploaded, DelTempFile, Reasons
    <2> QED
      BY <1>6, <2>2 DEF CopyUploaded, TypeOK, rcvVars, boardVars
  <1> QED
    BY <1>1, <1>2, <1>3, <1>4, <1>5, <1>6

(* So do the receive thread's and the boards'. *)
LEMMA OtherTypes ==
    ASSUME TypeOK, NEW p \in Procs
    PROVE  DealMsg(p) \/ SetFileTransEvent \/ BoardTransfer(p) \/ BoardDown(p) => TypeOK'
  <1>1. CASE DealMsg(p)
    <2>1. fromBoard[p] \in Seq(Rsp) /\ fromBoard[p] # <<>>
      BY <1>1 DEF DealMsg, TypeOK
    <2>2. Head(fromBoard[p]) \in Rsp /\ Tail(fromBoard[p]) \in Seq(Rsp)
      BY <2>1, TailFacts
    <2>3. fromBoard' \in [Procs -> Seq(Rsp)] /\ m_NameFileTransRspMap' \in [Procs -> Rsp \cup {NoRsp}]
      BY <1>1, <2>2 DEF DealMsg, TypeOK
    <2> QED
      BY <1>1, <2>3 DEF DealMsg, TypeOK, callVars, boardVars
  <1>2. CASE SetFileTransEvent
    BY <1>2 DEF SetFileTransEvent, TypeOK, callVars, boardVars
  <1>3. CASE BoardTransfer(p)
    <2>1. PICK req : req = Head(toBoard[p])
      OBVIOUS
    <2>2. req \in Request /\ toBoard' \in [Procs -> Seq(Request)] /\ fromBoard' \in [Procs -> Seq(Rsp)]
      BY <1>3, <2>1, BoardFacts, AnswerFacts
    <2>3. req.id \in CallIds /\ req.id \in Files
      BY <2>2 DEF Request, CallIds, Files
    <2>4. tempfile \in Files /\ stored \in [CallIds -> Files]
      BY DEF TypeOK
    <2>5. \/ tempfile' = tempfile /\ stored' = stored
          \/ tempfile' = tempfile /\ stored' = [stored EXCEPT ![req.id] = tempfile]
          \/ tempfile' = req.id /\ stored' = stored
      BY <1>3, <2>1, BoardFacts
    <2>6. tempfile' \in Files /\ stored' \in [CallIds -> Files]
      BY <2>3, <2>4, <2>5
    <2> QED
      BY <1>3, <2>2, <2>6, BoardFacts DEF TypeOK, callVars, rcvVars
  <1>4. CASE BoardDown(p)
    <2>1. toBoard' \in [Procs -> Seq(Request)] /\ outages' \in 0 .. MaxOutages /\ up' \in [Procs -> BOOLEAN]
      BY <1>4, UAgentFileTransferAssumption DEF BoardDown, TypeOK
    <2> QED
      BY <1>4, <2>1 DEF BoardDown, TypeOK, callVars, rcvVars
  <1> QED
    BY <1>1, <1>2, <1>3, <1>4

-----------------------------------------------------------------------------
(* The order of the answers *)

streams == <<toBoard, fromBoard, m_NameFileTransRspMap>>
Ordered == Calls /\ InOrder /\ Known

(* What is in the streams and the map of a board. *)
LEMMA MessageFacts ==
    ASSUME TypeOK, Ordered, NEW p \in Procs
    PROVE  /\ cur.id \in Nat /\ nextId = cur.id + 1
           /\ toBoard[p] \in Seq(Request) /\ Requests(p) \subseteq Request /\ Requests(p) \subseteq Messages(p)
           /\ fromBoard[p] \in Seq(Rsp) /\ Answers(p) \subseteq Rsp /\ Answers(p) \subseteq Messages(p)
           /\ m_NameFileTransRspMap[p] \in Rsp \cup {NoRsp}
           /\ m_NameFileTransRspMap[p] # NoRsp => m_NameFileTransRspMap[p] \in Messages(p)
           /\ m_NameFileTransRspMap[p].id \in Nat /\ NoRsp.id = 0 /\ NoRsp \notin Rsp
           /\ \A x \in Messages(p) : x.id \in Nat \ {0} /\ x.id <= cur.id
           /\ m_NameFileTransRspMap[p].id <= cur.id
  <1>1. cur.id \in Nat /\ nextId = cur.id + 1
    BY UAgentFileTransferAssumption DEF TypeOK, Ordered, Calls, Files
  <1>2. /\ toBoard[p] \in Seq(Request) /\ fromBoard[p] \in Seq(Rsp)
        /\ m_NameFileTransRspMap[p] \in Rsp \cup {NoRsp}
    BY DEF TypeOK
  <1>3. Requests(p) \subseteq Request /\ Answers(p) \subseteq Rsp
    BY <1>2, ElementFacts DEF Requests, Answers
  <1>4. NoRsp.id = 0 /\ \A rsp \in Rsp : rsp.id \in Nat \ {0}
    BY DEF NoRsp, Rsp, CallIds
  <1>5. \A x \in Messages(p) : x.id \in Nat \ {0} /\ x.id <= cur.id
    BY <1>1 DEF Ordered, Known
  <1> QED
    BY <1>1, <1>2, <1>3, <1>4, <1>5 DEF Messages

(* A step that leaves the streams alone keeps their order. *)
LEMMA SameStreams ==
    ASSUME TypeOK, Ordered, UNCHANGED streams,
           \/ cur' = cur /\ pc' \in {pc, "idle", "copy"}
           \/ cur'.id = nextId
    PROVE  InOrder' /\ Known'
  <1>1. \A p : /\ Requests(p)' = Requests(p) /\ Answers(p)' = Answers(p) /\ Messages(p)' = Messages(p)
    BY DEF streams, Requests, Answers, Messages
  <1>2. InOrder'
    BY <1>1 DEF streams, Ordered, InOrder
  <1>3. Known'
    <2>1. CASE cur' = cur /\ pc' \in {pc, "idle", "copy"}
      BY <1>1, <2>1 DEF Ordered, Known
    <2>2. CASE cur'.id = nextId
      <3> SUFFICES ASSUME NEW p \in Procs, NEW x \in Messages(p)
                   PROVE  x.id \in 1 .. cur'.id /\ x.id # cur'.id
        <4>1. \A p \in Procs : \A x \in Requests(p) : x \in Messages(p)
          BY MessageFacts
        <4> QED
          BY <1>1, <4>1 DEF Known
      <3> QED
        BY <2>2, MessageFacts
    <2> QED
      BY <2>1, <2>2
  <1> QED
    BY <1>2, <1>3

(* Nor does a request that follows all that is under way disturb it. *)
LEMMA SendingKeepsOrder ==
    ASSUME TypeOK, Ordered, NEW call \in CallType, SendMsg_FileTransReq(call),
           cur' = call, UNCHANGED <<fromBoard, m_NameFileTransRspMap>>,
           \A p \in Procs : \A x \in Messages(p) : x.id < call.id
    PROVE  InOrder' /\ Known'
  <1>1. call.proc \in Procs /\ call.id \in Nat \ {0} /\ pc' = "wait"
    BY SendFacts DEF CallType, CallIds
  <1>2. CASE toBoard' = toBoard
    <2>1. \A p : /\ Requests(p)' = Requests(p) /\ Answers(p)' = Answers(p) /\ Messages(p)' = Messages(p)
      BY <1>2 DEF Requests, Answers, Messages
    <2>2. InOrder'
      BY <1>2, <2>1 DEF Ordered, InOrder
    <2>3. \A p \in Procs : \A x \in Messages(p) : x.id \in 1 .. call.id /\ x.id # call.id
      BY <1>1, MessageFacts
    <2>4. \A p \in Procs : \A x \in Requests(p) : x \in Messages(p)
      BY MessageFacts
    <2> QED
      BY <2>1, <2>2, <2>3, <2>4 DEF Known
  <1>3. ASSUME NEW req \in Request, req = [id |-> call.id, op |-> call.op, transId |-> Doubled],
               toBoard' = [toBoard EXCEPT ![call.proc] = Append(@, req)]
        PROVE  InOrder' /\ Known'
    <2>0. req.id = call.id /\ req.op = call.op
      BY <1>3
    <2> SUFFICES ASSUME NEW p \in Procs
                 PROVE  /\ Rising(toBoard'[p]) /\ Rising(fromBoard'[p])
                        /\ \A rsp \in Answers(p)' : m_NameFileTransRspMap'[p].id < rsp.id
                        /\ \A r \in Requests(p)' : /\ m_NameFileTransRspMap'[p].id < r.id
                                                   /\ \A rsp \in Answers(p)' : rsp.id < r.id
                        /\ \A x \in Messages(p)' : /\ x.id \in 1 .. call.id
                                                   /\ x.id = call.id => p = call.proc
                        /\ \A r \in Requests(p)' : r.id = call.id => r.op = call.op
      BY <1>1 DEF InOrder, Known
    <2>1. /\ Rising(toBoard[p]) /\ Rising(fromBoard[p])
          /\ \A rsp \in Answers(p) : m_NameFileTransRspMap[p].id < rsp.id
          /\ \A r \in Requests(p) : /\ m_NameFileTransRspMap[p].id < r.id
                                    /\ \A rsp \in Answers(p) : rsp.id < r.id
      BY DEF Ordered, InOrder
    <2>2. \A x \in Messages(p) : x.id \in 1 .. call.id /\ x.id < call.id
      BY <1>1, MessageFacts
    <2>3. Answers(p)' = Answers(p) /\ Requests(p) \subseteq Messages(p) /\ Answers(p) \subseteq Messages(p)
      BY MessageFacts DEF Answers
    <2>4. m_NameFileTransRspMap[p].id < call.id
      BY <1>1, <2>2, MessageFacts
    <2>5. CASE p = call.proc
      <3>1. toBoard'[p] = Append(toBoard[p], req)
        BY <1>1, <1>3, <2>5 DEF TypeOK
      <3>2. /\ Requests(p)' = Requests(p) \cup {req} /\ Rising(toBoard'[p])
        BY <2>0, <2>1, <2>2, <2>3, <3>1, MessageFacts, AppendFacts DEF Requests
      <3>3. Messages(p)' = Messages(p) \cup {req}
        BY <2>3, <3>2 DEF Messages
      <3>4. \A r \in Requests(p)' : r.id = call.id => r = req
        BY <1>1, <2>2, <2>3, <3>2
      <3> QED
        BY <1>1, <2>0, <2>1, <2>2, <2>3, <2>4, <2>5, <3>2, <3>3, <3>4
    <2>6. CASE p # call.proc
      <3>1. toBoard'[p] = toBoard[p]
        BY <1>3, <2>6 DEF TypeOK
      <3>2. Requests(p)' = Requests(p) /\ Messages(p)' = Messages(p)
        BY <2>3, <3>1 DEF Requests, Messages
      <3>3. \A x \in Messages(p) : x.id # call.id
        BY <1>1, <2>2
      <3> QED
        BY <2>1, <2>2, <2>3, <3>1, <3>2, <3>3
    <2> QED
      BY <2>5, <2>6
  <1> QED
    BY <1>2, <1>3, SendFacts

(* The receive thread takes the oldest answer. *)
LEMMA DealKeepsOrder ==
    ASSUME TypeOK, Ordered, NEW p \in Procs, DealMsg(p)
    PROVE  /\ InOrder' /\ Known'
           /\ \A q \in Procs : Messages(q)' \subseteq Messages(q) /\ Requests(q)' = Requests(q)
  <1>0. fromBoard[p] \in Seq(Rsp) /\ fromBoard[p] # <<>>
    BY DEF DealMsg, TypeOK
  <1>1. PICK rsp \in Rsp : rsp = Head(fromBoard[p]) /\ rsp \in Answers(p)
    BY <1>0, TailFacts DEF Answers
  <1>2. /\ m_NameFileTransRspMap' = [m_NameFileTransRspMap EXCEPT ![p] = rsp]
        /\ fromBoard' = [fromBoard EXCEPT ![p] = Tail(@)]
        /\ UNCHANGED <<cur, pc, toBoard>>
    BY <1>1 DEF DealMsg, callVars
  <1>3. ASSUME NEW q \in Procs
        PROVE  /\ Rising(toBoard'[q]) /\ Rising(fromBoard'[q])
               /\ \A r \in Answers(q)' : m_NameFileTransRspMap'[q].id < r.id
               /\ \A r \in Requests(q)' : /\ m_NameFileTransRspMap'[q].id < r.id
                                          /\ \A a \in Answers(q)' : a.id < r.id
               /\ Messages(q)' \subseteq Messages(q) /\ Requests(q)' = Requests(q)
    <2>1. /\ Rising(toBoard[q]) /\ Rising(fromBoard[q])
          /\ \A r \in Answers(q) : m_NameFileTransRspMap[q].id < r.id
          /\ \A r \in Requests(q) : /\ m_NameFileTransRspMap[q].id < r.id
                                    /\ \A a \in Answers(q) : a.id < r.id
      BY DEF Ordered, InOrder
    <2>2. toBoard' = toBoard /\ Requests(q)' = Requests(q)
      BY <1>2 DEF Requests
    <2>3. CASE q = p
      <3>1. m_NameFileTransRspMap'[q] = rsp /\ fromBoard'[q] = Tail(fromBoard[q])
        BY <1>2, <2>3 DEF TypeOK
      <3>2. /\ Rising(fromBoard'[q]) /\ Answers(q)' \subseteq Answers(q)
            /\ \A r \in Answers(q)' : rsp.id < r.id
        BY <1>0, <1>1, <2>1, <2>3, <3>1, TailFacts DEF Answers
      <3>3. Messages(q)' \subseteq Messages(q)
        BY <1>1, <2>2, <2>3, <3>1, <3>2 DEF Messages
      <3> QED
        BY <1>1, <2>1, <2>2, <2>3, <3>1, <3>2, <3>3
    <2>4. CASE q # p
      <3>1. m_NameFileTransRspMap'[q] = m_NameFileTransRspMap[q] /\ fromBoard'[q] = fromBoard[q]
        BY <1>2, <2>4 DEF TypeOK
      <3>2. Answers(q)' = Answers(q) /\ Messages(q)' = Messages(q)
        BY <2>2, <3>1 DEF Answers, Messages
      <3> QED
        BY <2>1, <2>2, <3>1, <3>2
    <2> QED
      BY <2>3, <2>4
  <1>4. InOrder'
    BY <1>3 DEF InOrder
  <1>5. Known'
    BY <1>2, <1>3 DEF Ordered, Known
  <1> QED
    BY <1>3, <1>4, <1>5

(* A board answers its oldest request. *)
LEMMA AnswerKeepsOrder ==
    ASSUME TypeOK, Ordered, NEW p \in Procs, BoardTransfer(p)
    PROVE  /\ InOrder' /\ Known'
           /\ \A q \in Procs : /\ Requests(q)' \subseteq Requests(q)
                               /\ \A x \in Messages(q)' :
                                    \E y \in Messages(q) : x.id = y.id /\ x.transId = y.transId
  <1>0. toBoard[p] # <<>> /\ toBoard[p] \in Seq(Request) /\ fromBoard[p] \in Seq(Rsp)
        /\ UNCHANGED <<pc, cur, m_NameFileTransRspMap>>
    BY BoardFacts, MessageFacts DEF callVars, rcvVars
  <1>1. PICK req \in Request : req = Head(toBoard[p]) /\ req \in Requests(p)
    BY <1>0, TailFacts DEF Requests
  <1>2. PICK rsp \in Rsp : /\ rsp.id = req.id /\ rsp.transId = req.transId
                           /\ toBoard' = [toBoard EXCEPT ![p] = Tail(@)]
                           /\ fromBoard' = [fromBoard EXCEPT ![p] = Append(@, rsp)]
    <2>1. PICK result \in TransResults : Answer(p, Head(toBoard[p]), result)
      BY BoardFacts
    <2>2. PICK rsp \in Rsp :
            /\ rsp = [id |-> req.id, transId |-> req.transId, result |-> result]
            /\ toBoard' = [toBoard EXCEPT ![p] = Tail(@)]
            /\ fromBoard' = [fromBoard EXCEPT ![p] = Append(@, rsp)]
      BY <1>0, <1>1, <2>1, AnswerFacts
    <2> QED
      BY <2>2
  <1>3. ASSUME NEW q \in Procs
        PROVE  /\ Rising(toBoard'[q]) /\ Rising(fromBoard'[q])
               /\ \A r \in Answers(q)' : m_NameFileTransRspMap'[q].id < r.id
               /\ \A r \in Requests(q)' : /\ m_NameFileTransRspMap'[q].id < r.id
                                          /\ \A a \in Answers(q)' : a.id < r.id
               /\ Requests(q)' \subseteq Requests(q)
               /\ \A x \in Messages(q)' : \E y \in Messages(q) : x.id = y.id /\ x.transId = y.transId
    <2>1. /\ Rising(toBoard[q]) /\ Rising(fromBoard[q])
          /\ \A r \in Answers(q) : m_NameFileTransRspMap[q].id < r.id
          /\ \A r \in Requests(q) : /\ m_NameFileTransRspMap[q].id < r.id
                                    /\ \A a \in Answers(q) : a.id < r.id
      BY DEF Ordered, InOrder
    <2>2. m_NameFileTransRspMap' = m_NameFileTransRspMap
      BY <1>0
    <2>3. CASE q = p
      <3>1. toBoard'[q] = Tail(toBoard[q]) /\ fromBoard'[q] = Append(fromBoard[q], rsp)
        BY <1>2, <2>3 DEF TypeOK
      <3>2. /\ Rising(toBoard'[q]) /\ Requests(q)' \subseteq Requests(q)
            /\ \A r \in Requests(q)' : rsp.id < r.id
        BY <1>0, <1>1, <1>2, <2>1, <2>3, <3>1, TailFacts DEF Requests
      <3>3. Rising(fromBoard'[q]) /\ Answers(q)' = Answers(q) \cup {rsp}
        BY <1>0, <1>1, <1>2, <2>1, <2>3, <3>1, AppendFacts DEF Answers
      <3>4. Messages(q)' \subseteq Messages(q) \cup {rsp} /\ req \in Messages(q)
        BY <1>1, <2>2, <2>3, <3>2, <3>3 DEF Messages
      <3>5. \A x \in Messages(q)' : \E y \in Messages(q) : x.id = y.id /\ x.transId = y.transId
        BY <1>2, <3>4
      <3> QED
        BY <1>1, <1>2, <2>1, <2>2, <2>3, <3>2, <3>3, <3>5
    <2>4. CASE q # p
      <3>1. toBoard'[q] = toBoard[q] /\ fromBoard'[q] = fromBoard[q]
        BY <1>2, <2>4 DEF TypeOK
      <3>2. Answers(q)' = Answers(q) /\ Requests(q)' = Requests(q) /\ Messages(q)' = Messages(q)
        BY <2>2, <3>1 DEF Answers, Requests, Messages
      <3> QED
        BY <2>1, <2>2, <3>1, <3>2
    <2> QED
      BY <2>3, <2>4
  <1>4. InOrder'
    BY <1>3 DEF InOrder
  <1>5. Known'
    BY <1>0, <1>3 DEF Ordered, Known
  <1> QED
    BY <1>3, <1>4, <1>5

(* A board that goes down takes its requests with it. *)
LEMMA DownKeepsOrder ==
    ASSUME TypeOK, Ordered, NEW p \in Procs, BoardDown(p)
    PROVE  /\ InOrder' /\ Known'
           /\ \A q \in Procs : Messages(q)' \subseteq Messages(q) /\ Requests(q)' \subseteq Requests(q)
  <1>1. ASSUME NEW q \in Procs
        PROVE  /\ toBoard'[q] \in {toBoard[q], <<>>} /\ fromBoard'[q] = fromBoard[q]
               /\ m_NameFileTransRspMap'[q] = m_NameFileTransRspMap[q]
    BY DEF BoardDown, TypeOK, rcvVars
  <1>2. ASSUME NEW q \in Procs
        PROVE  /\ Requests(q)' \subseteq Requests(q) /\ Answers(q)' = Answers(q)
               /\ Messages(q)' \subseteq Messages(q)
               /\ Rising(toBoard[q]) => Rising(toBoard'[q])
    <2>1. Requests(q)' \subseteq Requests(q) /\ Answers(q)' = Answers(q)
      BY <1>1, ElementFacts DEF Requests, Answers
    <2> QED
      BY <1>1, <2>1, ElementFacts DEF Messages
  <1>3. InOrder'
    BY <1>1, <1>2 DEF Ordered, InOrder
  <1>4. Known'
    BY <1>2 DEF Ordered, Known, BoardDown, callVars
  <1> QED
    BY <1>2, <1>3, <1>4

(* A step within a call: it goes on or returns. *)
LEMMA CallGoesOn ==
    ASSUME TypeOK, Ordered, pc # "idle", UNCHANGED <<cur, nextId>>,
           \/ UNCHANGED returned
           \/ \E why \in Reasons : \E answer, got \in Files : Return(cur, why, answer, got)
    PROVE  Calls'
  <1>1. cur \in CallType /\ cur.id \in Nat
    BY FoundFacts, MessageFacts, UAgentFileTransferAssumption DEF CallType, CallIds
  <1>2. /\ cur.id = nextId - 1
        /\ \A c \in returned : c.id <= cur.id /\ c.id # cur.id
    BY DEF Ordered, Calls
  <1>3. CASE UNCHANGED returned
    BY <1>2, <1>3 DEF Calls
  <1>4. ASSUME NEW why \in Reasons, NEW answer \in Files, NEW got \in Files, Return(cur, why, answer, got)
        PROVE  Calls'
    <2>1. pc' = "idle" /\ \A c \in returned' \ returned : c.id = cur.id
      BY <1>1, <1>4, ReturnFacts
    <2> QED
      BY <1>1, <1>2, <2>1 DEF Calls
  <1> QED
    BY <1>3, <1>4

(* The next call is entered, and goes on or returns at once. *)
LEMMA CallBegins ==
    ASSUME TypeOK, Ordered, NEW p \in Procs, NEW op \in Ops, Enter(p, op),
           \/ UNCHANGED returned
           \/ \E why \in Reasons : \E answer, got \in Files : Return(NewCall(p, op), why, answer, got)
    PROVE  Calls'
  <1>1. /\ NewCall(p, op) \in CallType /\ NewCall(p, op).id = nextId /\ cur'.id = nextId
        /\ nextId' = nextId + 1 /\ nextId \in Nat /\ cur.id \in Int
    BY EnterFacts, MessageFacts DEF CallIds
  <1>2. /\ cur.id = nextId - 1
        /\ \A c \in returned : c.id <= cur.id /\ c.id \in Nat
    BY DEF Ordered, Calls, TypeOK, Returned, CallIds
  <1>3. cur'.id = nextId' - 1 /\ \A c \in returned : c.id <= cur'.id /\ c.id # cur'.id
    <2>1. \A c \in returned : c.id <= nextId /\ c.id # nextId
      BY <1>1, <1>2
    <2> QED
      BY <1>1, <2>1
  <1>4. CASE UNCHANGED returned
    BY <1>3, <1>4 DEF Calls
  <1>5. ASSUME NEW why \in Reasons, NEW answer \in Files, NEW got \in Files,
               Return(NewCall(p, op), why, answer, got)
        PROVE  Calls'
    <2>1. pc' = "idle" /\ \A c \in returned' \ returned : c.id = nextId
      BY <1>1, <1>5, ReturnFacts
    <2> QED
      BY <1>1, <1>2, <1>3, <2>1 DEF Calls
  <1> QED
    BY <1>4, <1>5

(* No step disturbs the order of calls and answers. *)
LEMMA OrderStep == TypeOK /\ Ordered /\ [Next]_vars => Ordered'
  <1> SUFFICES ASSUME TypeOK, Ordered, [Next]_vars PROVE Ordered'
    OBVIOUS
  <1>0. 0 \in Files /\ \A p \in Procs : m_NameFileTransRspMap[p].id \in Files
    <2>1. 0 \in Files /\ CallIds \subseteq Files
      BY UAgentFileTransferAssumption DEF Files, CallIds
    <2>2. \A rsp \in Rsp \cup {NoRsp} : rsp.id \in Files
      BY <2>1 DEF Rsp, NoRsp
    <2> QED
      BY <2>1, <2>2 DEF TypeOK
  <1>1. ASSUME NEW p \in Procs, DownloadFile(p) PROVE Ordered'
    <2>1. Enter(p, "download") /\ "download" \in Ops /\ UNCHANGED streams
      BY <1>1 DEF DownloadFile, Ops, streams, rcvVars
    <2>2. \/ UNCHANGED returned
          \/ Return(NewCall(p, "download"), "source", 0, 0)
      BY <1>1 DEF DownloadFile
    <2>3. Calls'
      BY <1>0, <2>1, <2>2, CallBegins DEF Reasons
    <2>4. cur'.id = nextId
      BY <2>1, EnterFacts
    <2> QED
      BY <2>1, <2>3, <2>4, SameStreams DEF Ordered
  <1>2. ASSUME NEW p \in Procs, UploadFile(p) PROVE Ordered'
    <2>1. Enter(p, "upload") /\ "upload" \in Ops /\ UNCHANGED <<fromBoard, m_NameFileTransRspMap>>
      BY <1>2 DEF UploadFile, Ops, rcvVars
    <2>2. PICK call \in CallType : call = NewCall(p, "upload") /\ call.id = nextId /\ cur' = call
      BY <2>1, EnterFacts
    <2>3. CASE SendMsg_FileTransReq(call)
      <3>1. \A q \in Procs : \A x \in Messages(q) : x.id < call.id
        BY <2>2, MessageFacts
      <3>2. UNCHANGED returned
        BY <2>3, SendFacts
      <3>3. Calls'
        BY <2>1, <3>2, CallBegins
      <3> QED
        BY <2>1, <2>2, <2>3, <3>1, <3>3, SendingKeepsOrder DEF Ordered
    <2>4. CASE SendFails(call)
      <3>1. Return(NewCall(p, "upload"), "send", 0, 0) /\ UNCHANGED streams
        BY <2>1, <2>2, <2>4 DEF SendFails, streams
      <3>2. Calls'
        BY <1>0, <2>1, <3>1, CallBegins DEF Reasons
      <3> QED
        BY <2>2, <3>1, <3>2, SameStreams DEF Ordered
    <2> QED
      BY <1>2, <2>2, <2>3, <2>4 DEF UploadFile
  <1>3. CASE SendDownload
    <2>1. pc = "send" /\ cur \in CallType /\ UNCHANGED <<cur, nextId, fromBoard, m_NameFileTransRspMap>>
      BY <1>3, FoundFacts DEF SendDownload, rcvVars
    <2>2. CASE SendMsg_FileTransReq(cur)
      <3>1. \A q \in Procs : \A x \in Messages(q) : x.id # cur.id
        BY <2>1 DEF Ordered, Known
      <3>2. \A q \in Procs : \A x \in Messages(q) : x.id < cur.id
        BY <3>1, MessageFacts
      <3>3. Calls'
        BY <2>1, <2>2, SendFacts, CallGoesOn
      <3> QED
        BY <2>1, <2>2, <3>2, <3>3, SendingKeepsOrder DEF Ordered
    <2>3. CASE SendFails(cur)
      <3>1. Return(cur, "send", 0, 0) /\ pc' = "idle" /\ UNCHANGED streams
        BY <2>1, <2>3 DEF SendFails, Return, streams
      <3>2. Calls'
        BY <1>0, <2>1, <3>1, CallGoesOn DEF Reasons
      <3> QED
        BY <2>1, <3>1, <3>2, SameStreams DEF Ordered
    <2> QED
      BY <1>3, <2>2, <2>3 DEF SendDownload
  <1>4. CASE FileTransTimeout
    <2>1. /\ pc # "idle" /\ Return(cur, "timeout", 0, 0) /\ pc' = "idle"
          /\ UNCHANGED <<cur, nextId>> /\ UNCHANGED streams
      BY <1>4 DEF FileTransTimeout, Return, rcvVars, streams
    <2>2. Calls'
      BY <1>0, <2>1, CallGoesOn DEF Reasons
    <2> QED
      BY <2>1, <2>2, SameStreams DEF Ordered
  <1>5. CASE TakeFileTransRsp
    <2>1. PICK rsp : rsp = m_NameFileTransRspMap[cur.proc]
      OBVIOUS
    <2>2. /\ pc # "idle" /\ rsp.id \in Files /\ stored[cur.id] \in Files
          /\ UNCHANGED <<cur, nextId>> /\ UNCHANGED streams
      BY <1>5, <2>1, FoundFacts DEF TakeFileTransRsp, rcvVars, streams
    <2>3. \/ pc' = "copy" /\ UNCHANGED returned
          \/ Rejected(rsp) # "no" /\ Return(cur, Rejected(rsp), rsp.id, 0)
          \/ Return(cur, "done", rsp.id, stored[cur.id])
      BY <1>5, <2>1 DEF TakeFileTransRsp
    <2>4. Rejected(rsp) # "no" => Rejected(rsp) \in Reasons
      BY <2>1, <2>2, FoundFacts
    <2>5. Calls' /\ pc' \in {"idle", "copy"}
      BY <1>0, <2>2, <2>3, <2>4, CallGoesOn DEF Reasons, Return
    <2> QED
      BY <2>2, <2>5, SameStreams DEF Ordered
  <1>6. CASE CopyUploaded
    <2>1. PICK rsp : rsp = m_NameFileTransRspMap[cur.proc]
      OBVIOUS
    <2>2. /\ pc # "idle" /\ rsp.id \in Files /\ tempfile \in Files
          /\ UNCHANGED <<cur, nextId>> /\ UNCHANGED streams
      BY <1>6, <2>1, FoundFacts DEF CopyUploaded, rcvVars, streams, TypeOK
    <2>3. \/ Return(cur, "done", rsp.id, tempfile)
          \/ Return(cur, "copy", 0, 0)
      BY <1>6, <2>1 DEF CopyUploaded
    <2>4. Calls' /\ pc' = "idle"
      BY <1>0, <2>2, <2>3, CallGoesOn DEF Reasons, Return
    <2> QED
      BY <2>2, <2>4, SameStreams DEF Ordered
  <1>7. CASE SetFileTransEvent
    <2>1. UNCHANGED <<pc, cur, nextId, returned>> /\ UNCHANGED streams
      BY <1>7 DEF SetFileTransEvent, callVars, streams
    <2> QED
      BY <2>1, SameStreams DEF Ordered, Calls
  <1>8. ASSUME NEW p \in Procs, DealMsg(p) PROVE Ordered'
    BY <1>8, DealKeepsOrder DEF Ordered, Calls, DealMsg, callVars
  <1>9. ASSUME NEW p \in Procs, BoardTransfer(p) PROVE Ordered'
    BY <1>9, AnswerKeepsOrder DEF Ordered, Calls, BoardTransfer, callVars
  <1>10. ASSUME NEW p \in Procs, BoardDown(p) PROVE Ordered'
    BY <1>10, DownKeepsOrder DEF Ordered, Calls, BoardDown, callVars
  <1>11. CASE UNCHANGED vars
    <2>1. UNCHANGED <<pc, cur, nextId, returned>> /\ UNCHANGED streams
      BY <1>11 DEF vars, callVars, rcvVars, streams
    <2> QED
      BY <2>1, SameStreams DEF Ordered, Calls
  <1> QED
    BY <1>1, <1>2, <1>3, <1>4, <1>5, <1>6, <1>7, <1>8, <1>9, <1>10, <1>11 DEF Next

-----------------------------------------------------------------------------
(* The file of a transfer, as long as nothing times out *)

(* An answer that is not rejected says ok to the id that is waited for. *)
LEMMA AcceptedFacts ==
    ASSUME NEW rsp, Rejected(rsp) = "no"
    PROVE  rsp # NoRsp /\ rsp.result = "ok" /\ rsp.transId = (nSendTransId * 2) % TwoTo[IdBits]
  BY DEF Rejected

(* All the board's streams are empty and the receive thread waits. *)
Still == Silent /\ \A p \in Procs : toBoard[p] = <<>> /\ fromBoard[p] = <<>>

(* A request sent into the silence is the only one. *)
LEMMA SentAlone ==
    ASSUME TypeOK, Still, NEW call \in CallType, SendMsg_FileTransReq(call), cur' = call,
           UNCHANGED <<fromBoard, rcv, m_hFileTransEvent>>
    PROVE  /\ \A p \in Procs : p # cur'.proc => toBoard'[p] = <<>> /\ fromBoard'[p] = <<>>
           /\ Lost' \/ Asked'
  <1>1. call.proc \in Procs /\ Silent'
    BY DEF CallType, Still, Silent
  <1>2. CASE toBoard' = toBoard
    BY <1>1, <1>2 DEF Still, Lost
  <1>3. ASSUME NEW req \in Request, req = [id |-> call.id, op |-> call.op, transId |-> Doubled],
               toBoard' = [toBoard EXCEPT ![call.proc] = Append(@, req)]
        PROVE  /\ \A p \in Procs : p # call.proc => toBoard'[p] = <<>> /\ fromBoard'[p] = <<>>
               /\ Asked'
    <2>1. toBoard'[call.proc] = Append(toBoard[call.proc], req) /\ toBoard[call.proc] = <<>>
      BY <1>1, <1>3 DEF TypeOK, Still
    <2>2. toBoard'[call.proc] = <<req>>
      BY <2>1
    <2>3. \A p \in Procs : p # call.proc => toBoard'[p] = <<>> /\ fromBoard'[p] = <<>>
      BY <1>3 DEF TypeOK, Still
    <2>4. fromBoard'[call.proc] = <<>> /\ Doubled \in TransIds
      BY <1>1, DoubledFacts DEF Still
    <2> QED
      BY <1>1, <1>3, <2>2, <2>3, <2>4 DEF Asked
  <1> QED
    BY <1>2, <1>3, SendFacts

(* While the call is not waiting, nothing is under way. *)
LEMMA StillFacts ==
    ASSUME Alone, NoTimeout, pc # "wait"
    PROVE  Still
  BY DEF Alone, Still

(* The call that waits is the only one the streams know of. *)
LEMMA WaitFacts ==
    ASSUME Alone, NoTimeout, pc = "wait"
    PROVE  /\ \A p \in Procs : p # cur.proc => toBoard[p] = <<>> /\ fromBoard[p] = <<>>
           /\ Lost \/ Asked \/ Coming \/ There
           /\ cur.op = "download" => tempfile = cur.id
  BY DEF Alone

(* The test thread's steps leave at most the present transfer under way. *)
LEMMA CallsAlone ==
    ASSUME TypeOK, Alone, NoTimeout'
    PROVE  /\ \A p \in Procs : DownloadFile(p) \/ UploadFile(p) => Alone'
           /\ SendDownload \/ FileTransTimeout \/ TakeFileTransRsp \/ CopyUploaded => Alone'
  <1>0. 0 \in Files
    BY UAgentFileTransferAssumption DEF Files
  <1>1. ASSUME NEW p \in Procs, DownloadFile(p) PROVE Alone'
    <2>1. Enter(p, "download") /\ "download" \in Ops /\ pc = "idle"
          /\ UNCHANGED <<toBoard, fromBoard, rcv, m_hFileTransEvent>>
      BY <1>1 DEF DownloadFile, Ops, Enter, rcvVars
    <2>2. cur'.id = nextId /\ NewCall(p, "download") \in CallType
      BY <2>1, EnterFacts
    <2>3. \/ pc' = "idle" /\ NoTimeout
          \/ pc' = "send" /\ tempfile' = nextId /\ NoTimeout
      BY <1>0, <1>1, <2>2, ReturnFacts DEF DownloadFile, Reasons, NoTimeout
    <2>4. Still'
      BY <2>1, <2>3, StillFacts DEF Still, Silent
    <2> QED
      BY <2>2, <2>3, <2>4 DEF Alone, Still
  <1>2. ASSUME NEW p \in Procs, UploadFile(p) PROVE Alone'
    <2>1. Enter(p, "upload") /\ "upload" \in Ops /\ pc = "idle"
          /\ UNCHANGED <<fromBoard, rcv, m_hFileTransEvent>>
      BY <1>2 DEF UploadFile, Ops, Enter, rcvVars
    <2>2. PICK call \in CallType : call = NewCall(p, "upload") /\ cur' = call /\ cur'.op = "upload"
      BY <2>1, EnterFacts
    <2>3. CASE SendMsg_FileTransReq(call)
      <3>1. NoTimeout /\ pc' = "wait"
        BY <2>3, SendFacts DEF NoTimeout
      <3>2. Still
        BY <2>1, <3>1, StillFacts
      <3> QED
        BY <2>1, <2>2, <2>3, <3>1, <3>2, SentAlone DEF Alone
    <2>4. CASE SendFails(call)
      <3>1. NoTimeout /\ pc' = "idle" /\ toBoard' = toBoard
        BY <1>0, <2>4, ReturnFacts DEF SendFails, Reasons
      <3>2. Still'
        BY <2>1, <3>1, StillFacts DEF Still, Silent
      <3> QED
        BY <3>1, <3>2 DEF Alone, Still
    <2> QED
      BY <1>2, <2>2, <2>3, <2>4 DEF UploadFile
  <1>3. CASE SendDownload
    <2>1. pc = "send" /\ cur \in CallType /\ UNCHANGED <<cur, fromBoard, rcv, m_hFileTransEvent>>
      BY <1>3, FoundFacts DEF SendDownload, rcvVars
    <2>2. CASE SendMsg_FileTransReq(cur) /\ UNCHANGED tempfile
      <3>1. NoTimeout /\ pc' = "wait"
        BY <2>1, <2>2, SendFacts DEF NoTimeout
      <3>2. Still /\ (cur.op = "download" => tempfile = cur.id)
        BY <2>1, <3>1, StillFacts DEF Alone
      <3> QED
        BY <2>1, <2>2, <3>1, <3>2, SentAlone DEF Alone
    <2>3. CASE SendFails(cur)
      <3>1. NoTimeout /\ pc' = "idle" /\ toBoard' = toBoard
        BY <1>0, <2>1, <2>3, ReturnFacts DEF SendFails, Reasons
      <3>2. Still'
        BY <2>1, <3>1, StillFacts DEF Still, Silent
      <3> QED
        BY <3>1, <3>2 DEF Alone, Still
    <2> QED
      BY <1>3, <2>2, <2>3 DEF SendDownload
  <1>4. CASE FileTransTimeout
    <2>1. cur \in CallType /\ Return(cur, "timeout", 0, 0)
      BY <1>4, FoundFacts DEF FileTransTimeout
    <2> QED
      BY <1>0, <2>1, ReturnFacts DEF Reasons
  <1>5. CASE TakeFileTransRsp
    <2>1. PICK rsp : rsp = m_NameFileTransRspMap[cur.proc]
      OBVIOUS
    <2>2. /\ pc = "wait" /\ m_hFileTransEvent /\ m_hFileTransEvent' = FALSE
          /\ UNCHANGED <<cur, toBoard, fromBoard, rcv>>
          /\ cur \in CallType /\ rsp.id \in Files /\ stored[cur.id] \in Files
      BY <1>5, <2>1, FoundFacts DEF TakeFileTransRsp, rcvVars
    <2>3. \/ Rejected(rsp) # "no" /\ Return(cur, Rejected(rsp), rsp.id, 0)
          \/ Return(cur, "done", rsp.id, stored[cur.id])
          \/ Rejected(rsp) = "no" /\ pc' = "copy" /\ cur.op = "upload" /\ UNCHANGED <<returned, tempfile>>
      BY <1>5, <2>1 DEF TakeFileTransRsp
    <2>4. Rejected(rsp) # "no" => Rejected(rsp) \in Reasons
      BY <2>1, <2>2, FoundFacts
    <2>5. /\ NoTimeout
          /\ pc' = "idle" \/ (Rejected(rsp) = "no" /\ pc' = "copy" /\ cur.op = "upload" /\ tempfile' = tempfile)
      BY <1>0, <2>2, <2>3, <2>4, ReturnFacts DEF NoTimeout, Reasons
    <2>6. There /\ \A p \in Procs : p # cur.proc => toBoard[p] = <<>> /\ fromBoard[p] = <<>>
      BY <2>2, <2>5, WaitFacts DEF Lost, Asked, Coming, Silent
    <2>7. Still'
      BY <2>2, <2>6 DEF There, Still, Silent, TypeOK
    <2>8. pc' = "copy" => tempfile' = cur'.id
      BY <2>1, <2>2, <2>5, <2>6, AcceptedFacts DEF There, Delivered
    <2> QED
      BY <2>5, <2>7, <2>8 DEF Alone, Still
  <1>6. CASE CopyUploaded
    <2>1. /\ pc = "copy" /\ cur \in CallType /\ m_NameFileTransRspMap[cur.proc].id \in Files /\ tempfile \in Files
          /\ UNCHANGED <<toBoard, fromBoard, rcv, m_hFileTransEvent>>
      BY <1>6, FoundFacts DEF CopyUploaded, rcvVars, TypeOK
    <2>2. NoTimeout /\ pc' = "idle"
      BY <1>0, <1>6, <2>1, ReturnFacts DEF CopyUploaded, Reasons
    <2>3. Still'
      BY <2>1, <2>2, StillFacts DEF Still, Silent
    <2> QED
      BY <2>2, <2>3 DEF Alone, Still
  <1> QED
    BY <1>1, <1>2, <1>3, <1>4, <1>5, <1>6

(* The others move it along. *)
LEMMA OthersAlone ==
    ASSUME TypeOK, Alone, NoTimeout', NEW p \in Procs
    PROVE  DealMsg(p) \/ SetFileTransEvent \/ BoardTransfer(p) \/ BoardDown(p) => Alone'
  <1>1. CASE DealMsg(p)
    <2>1. /\ fromBoard[p] # <<>> /\ NoTimeout /\ UNCHANGED <<pc, cur, tempfile, stored, toBoard, m_hFileTransEvent>>
          /\ rcv' = "stored"
      BY <1>1 DEF DealMsg, callVars, boardVars, NoTimeout
    <2>2. pc = "wait"
      BY <2>1, StillFacts DEF Still
    <2>3. /\ p = cur.proc /\ Coming
          /\ \A q \in Procs : q # cur.proc => toBoard[q] = <<>> /\ fromBoard[q] = <<>>
      BY <2>1, <2>2, WaitFacts DEF Lost, Asked, There
    <2>4. PICK rsp \in Rsp : fromBoard[p] = <<rsp>> /\ Delivered(rsp)
      BY <2>3 DEF Coming
    <2>5. m_NameFileTransRspMap'[p] = rsp /\ fromBoard'[p] = <<>>
      <3>1. Head(<<rsp>>) = rsp /\ Tail(<<rsp>>) = <<>>
        OBVIOUS
      <3> QED
        BY <1>1, <2>4, <3>1 DEF DealMsg, TypeOK
    <2>6. \A q \in Procs : q # cur.proc => fromBoard'[q] = <<>>
      BY <1>1, <2>3 DEF DealMsg, TypeOK
    <2>7. There'
      BY <2>1, <2>3, <2>4, <2>5 DEF There, Coming, Silent, Delivered
    <2> QED
      BY <2>1, <2>2, <2>3, <2>6, <2>7, WaitFacts DEF Alone
  <1>2. CASE SetFileTransEvent
    <2>1. /\ rcv = "stored" /\ rcv' = "select" /\ m_hFileTransEvent' = TRUE /\ NoTimeout
          /\ UNCHANGED <<pc, cur, tempfile, stored, toBoard, fromBoard, m_NameFileTransRspMap>>
      BY <1>2 DEF SetFileTransEvent, callVars, boardVars, NoTimeout
    <2>2. pc = "wait"
      BY <2>1, StillFacts DEF Still, Silent
    <2>3. There /\ \A q \in Procs : q # cur.proc => toBoard[q] = <<>> /\ fromBoard[q] = <<>>
      BY <2>1, <2>2, WaitFacts DEF Lost, Asked, Coming, Silent
    <2>4. There'
      BY <2>1, <2>3 DEF There, Delivered
    <2> QED
      BY <2>1, <2>2, <2>3, <2>4, WaitFacts DEF Alone
  <1>3. CASE BoardTransfer(p)
    <2>1. /\ toBoard[p] # <<>> /\ NoTimeout
          /\ UNCHANGED <<pc, cur, m_hFileTransEvent, m_NameFileTransRspMap, rcv>>
      BY <1>3, BoardFacts DEF callVars, rcvVars, NoTimeout
    <2>2. pc = "wait"
      BY <2>1, StillFacts DEF Still
    <2>3. /\ p = cur.proc /\ Asked
          /\ \A q \in Procs : q # cur.proc => toBoard[q] = <<>> /\ fromBoard[q] = <<>>
      BY <2>1, <2>2, WaitFacts DEF Lost, Coming, There
    <2>4. PICK req : toBoard[p] = <<req>> /\ req.id = cur.id /\ req.op = cur.op
      BY <2>3 DEF Asked
    <2>5. Head(toBoard[p]) = req /\ Tail(toBoard[p]) = <<>> /\ fromBoard[p] = <<>>
      <3>1. Head(<<req>>) = req /\ Tail(<<req>>) = <<>>
        OBVIOUS
      <3> QED
        BY <2>3, <2>4, <3>1 DEF Asked
    <2>6. PICK result \in TransResults :
            /\ Answer(p, Head(toBoard[p]), result)
            /\ \/ result = "error" /\ UNCHANGED <<tempfile, stored>>
               \/ /\ result = "ok" /\ req.op = "download" /\ tempfile # 0
                  /\ stored' = [stored EXCEPT ![req.id] = tempfile] /\ UNCHANGED tempfile
               \/ /\ result = "ok" /\ req.op = "upload"
                  /\ tempfile' = req.id /\ UNCHANGED stored
      BY <1>3, <2>5, BoardFacts
    <2>7. PICK rsp \in Rsp : /\ rsp.result = result
                             /\ toBoard' = [toBoard EXCEPT ![p] = Tail(@)]
                             /\ fromBoard' = [fromBoard EXCEPT ![p] = Append(@, rsp)]
      <3>1. PICK rsp \in Rsp :
              /\ rsp = [id |-> req.id, transId |-> req.transId, result |-> result]
              /\ toBoard' = [toBoard EXCEPT ![p] = Tail(@)]
              /\ fromBoard' = [fromBoard EXCEPT ![p] = Append(@, rsp)]
        BY <2>1, <2>5, <2>6, AnswerFacts
      <3> QED
        BY <3>1
    <2>8. toBoard'[p] = <<>> /\ fromBoard'[p] = <<rsp>>
          /\ \A q \in Procs : q # p => toBoard'[q] = toBoard[q] /\ fromBoard'[q] = fromBoard[q]
      <3>1. Append(<<>>, rsp) = <<rsp>>
        OBVIOUS
      <3> QED
        BY <2>5, <2>7, <3>1 DEF TypeOK
    <2>9. cur.id \in CallIds /\ (cur.op = "download" => tempfile = cur.id)
      BY <2>1, <2>2, WaitFacts DEF TypeOK
    <2>10. cur.op = "download" => tempfile' = cur.id
      BY <2>4, <2>6, <2>9
    <2>11. Delivered(rsp)'
      <3>1. CASE result = "error"
        BY <2>7, <3>1 DEF Delivered
      <3>2. CASE result = "ok" /\ req.op = "download"
        <4>1. stored \in [CallIds -> Files] /\ stored' = [stored EXCEPT ![cur.id] = tempfile] /\ cur.op = "download"
          BY <2>4, <2>6, <3>2 DEF TypeOK
        <4>2. stored'[cur.id] = cur.id
          BY <2>9, <4>1
        <4> QED
          BY <2>1, <4>1, <4>2 DEF Delivered
      <3>3. CASE result = "ok" /\ req.op = "upload"
        <4>1. tempfile' = cur.id /\ cur'.op = "upload" /\ cur'.id = cur.id
          BY <2>1, <2>4, <2>6, <3>3
        <4> QED
          BY <4>1 DEF Delivered
      <3> QED
        BY <2>6, <3>1, <3>2, <3>3
    <2>12. Coming'
      BY <2>1, <2>3, <2>8, <2>11 DEF Coming, Asked, Silent
    <2> QED
      BY <2>1, <2>2, <2>3, <2>8, <2>10, <2>12 DEF Alone
  <1>4. CASE BoardDown(p)
    <2>1. /\ NoTimeout /\ toBoard' = [toBoard EXCEPT ![p] = <<>>]
          /\ UNCHANGED <<pc, cur, tempfile, stored, fromBoard, m_hFileTransEvent, m_NameFileTransRspMap, rcv>>
      BY <1>4 DEF BoardDown, callVars, rcvVars, NoTimeout
    <2>2. \A q \in Procs : toBoard[q] = <<>> => toBoard'[q] = <<>>
      BY <2>1 DEF TypeOK
    <2>3. CASE pc # "wait"
      BY <2>1, <2>2, <2>3 DEF Alone, Silent
    <2>4. CASE pc = "wait"
      <3>1. toBoard'[cur.proc] = toBoard[cur.proc] \/ toBoard'[cur.proc] = <<>>
        BY <2>1 DEF TypeOK
      <3>2. Lost' \/ Asked' \/ Coming' \/ There'
        BY <2>1, <2>4, <3>1, WaitFacts DEF Lost, Asked, Coming, There, Silent, Delivered
      <3> QED
        BY <2>1, <2>2, <2>4, <3>2, WaitFacts DEF Alone
    <2> QED
      BY <2>3, <2>4
  <1> QED
    BY <1>1, <1>2, <1>3, <1>4

(* A transfer that succeeds while nothing has timed out has its own file. *)
LEMMA OwnFileStep ==
    ASSUME TypeOK, Alone, OwnFileWhileNoTimeout, [Next]_vars
    PROVE  OwnFileWhileNoTimeout'
  <1>0. 0 \in Files
    BY UAgentFileTransferAssumption DEF Files
  <1>1. CASE returned' = returned
    BY <1>1 DEF OwnFileWhileNoTimeout, NoTimeout, Succeeded
  <1>2. ASSUME NEW call \in CallType, NEW why \in Reasons, NEW answer \in Files, NEW got \in Files,
               Return(call, why, answer, got), NoTimeout /\ why = "done" => got = call.id
        PROVE  OwnFileWhileNoTimeout'
    <2> SUFFICES ASSUME NoTimeout', NEW c \in returned', c.code = TESTCASE_SUCCESS
                 PROVE  c.got = c.id
      BY DEF OwnFileWhileNoTimeout, Succeeded
    <2>1. NoTimeout /\ (c \notin returned => c.id = call.id /\ c.got = got /\ why = "done")
      BY <1>2, ReturnFacts
    <2> QED
      BY <1>2, <2>1 DEF OwnFileWhileNoTimeout, Succeeded
  <1>3. ASSUME NEW p \in Procs, DownloadFile(p) PROVE OwnFileWhileNoTimeout'
    <2>1. NewCall(p, "download") \in CallType
      BY <1>3, EnterFacts DEF DownloadFile, Ops
    <2> QED
      BY <1>0, <1>1, <1>2, <1>3, <2>1 DEF DownloadFile, Reasons
  <1>4. ASSUME NEW p \in Procs, UploadFile(p) PROVE OwnFileWhileNoTimeout'
    <2>1. NewCall(p, "upload") \in CallType
      BY <1>4, EnterFacts DEF UploadFile, Ops
    <2> QED
      BY <1>0, <1>1, <1>2, <1>4, <2>1, SendFacts DEF UploadFile, SendFails, Reasons
  <1>5. CASE SendDownload
    <2>1. cur \in CallType
      BY <1>5, FoundFacts DEF SendDownload
    <2> QED
      BY <1>0, <1>1, <1>2, <1>5, <2>1, SendFacts DEF SendDownload, SendFails, Reasons
  <1>6. CASE FileTransTimeout
    <2>1. cur \in CallType
      BY <1>6, FoundFacts DEF FileTransTimeout
    <2> QED
      BY <1>0, <1>2, <1>6, <2>1 DEF FileTransTimeout, Reasons
  <1>7. CASE TakeFileTransRsp
    <2>1. PICK rsp : rsp = m_NameFileTransRspMap[cur.proc]
      OBVIOUS
    <2>2. /\ pc = "wait" /\ m_hFileTransEvent
          /\ cur \in CallType /\ rsp.id \in Files /\ stored[cur.id] \in Files
          /\ Rejected(rsp) # "no" => Rejected(rsp) \in Reasons \ {"done"}
      BY <1>7, <2>1, FoundFacts DEF TakeFileTransRsp
    <2>3. CASE Rejected(rsp) # "no" /\ Return(cur, Rejected(rsp), rsp.id, 0)
      BY <1>0, <1>2, <2>2, <2>3
    <2>4. CASE Rejected(rsp) = "no" /\ cur.op = "download" /\ Return(cur, "done", rsp.id, stored[cur.id])
      <3>1. NoTimeout => stored[cur.id] = cur.id
        <4>1. NoTimeout => There
          BY <2>2, WaitFacts DEF Lost, Asked, Coming, Silent
        <4> QED
          BY <2>1, <2>4, <4>1, AcceptedFacts DEF There, Delivered
      <3> QED
        BY <1>2, <2>2, <2>4, <3>1 DEF Reasons
    <2>5. CASE UNCHANGED returned
      BY <1>1, <2>5
    <2> QED
      BY <1>7, <2>1, <2>3, <2>4, <2>5 DEF TakeFileTransRsp
  <1>8. CASE CopyUploaded
    <2>1. PICK rsp : rsp = m_NameFileTransRspMap[cur.proc]
      OBVIOUS
    <2>2. pc = "copy" /\ cur \in CallType /\ rsp.id \in Files /\ tempfile \in Files
      BY <1>8, <2>1, FoundFacts DEF CopyUploaded, TypeOK
    <2>3. NoTimeout => tempfile = cur.id
      BY <2>2 DEF Alone
    <2>4. Return(cur, "done", rsp.id, tempfile) \/ Return(cur, "copy", 0, 0)
      BY <1>8, <2>1 DEF CopyUploaded
    <2> QED
      BY <1>0, <1>2, <2>2, <2>3, <2>4 DEF Reasons
  <1>9. CASE \E p \in Procs : DealMsg(p) \/ SetFileTransEvent \/ BoardTransfer(p) \/ BoardDown(p)
    BY <1>1, <1>9 DEF DealMsg, SetFileTransEvent, BoardTransfer, BoardDown, callVars
  <1>10. CASE UNCHANGED vars
    BY <1>1, <1>10 DEF vars, callVars
  <1> QED
    BY <1>3, <1>4, <1>5, <1>6, <1>7, <1>8, <1>9, <1>10, UAgentFileTransferAssumption DEF Next

-----------------------------------------------------------------------------
(* The first invariant holds of every behaviour. *)
LEMMA InitIInv == Init => IInv
  <1> SUFFICES ASSUME Init PROVE IInv
    OBVIOUS
  <1>1. MaxCalls \in Nat /\ MaxOutages \in Nat /\ 0 \in Files /\ 1 \in 1 .. MaxCalls + 1
    BY UAgentFileTransferAssumption DEF Files
  <1>2. 3 \in TransIds /\ 0 \in TransIds
    <2>1. PICK n \in Nat : n + 2 = IdBits
      <3>1. IdBits \in Nat /\ IdBits - 2 \in Nat /\ (IdBits - 2) + 2 = IdBits
        BY UAgentFileTransferAssumption
      <3> QED
        BY <3>1
    <2>2. TwoTo[0 + 1] = 2 /\ TwoTo[1 + 1] = 4
      <3>1. TwoTo[0 + 1] = 2 * TwoTo[0] /\ TwoTo[1 + 1] = 2 * TwoTo[1] /\ TwoTo[0] = 1
        BY TwoToFacts
      <3> QED
        BY <3>1
    <2>3. \E e \in Nat \ {0} : TwoTo[2 + n] = TwoTo[2] * e
      BY TwoToDivides
    <2>4. 2 + n = IdBits /\ TwoTo[2] = 4
      BY <2>1, <2>2
    <2>5. PICK w \in Nat : w = TwoTo[IdBits] /\ w >= 4
      BY <2>3, <2>4
    <2> QED
      BY <2>5 DEF TransIds
  <1>3. TypeOK
    <2>1. cur \in [id : Files, proc : Procs, op : Ops]
      BY <1>1 DEF Init, Ops
    <2>2. /\ m_NameFileTransRspMap \in [Procs -> Rsp \cup {NoRsp}]
          /\ toBoard \in [Procs -> Seq(Request)] /\ fromBoard \in [Procs -> Seq(Rsp)]
          /\ up \in [Procs -> BOOLEAN] /\ stored \in [CallIds -> Files]
      BY <1>1 DEF Init
    <2>3. outages \in 0 .. MaxOutages /\ returned \subseteq Returned /\ nextId \in 1 .. MaxCalls + 1
      BY <1>1 DEF Init
    <2> QED
      BY <1>1, <1>2, <2>1, <2>2, <2>3 DEF Init, TypeOK
  <1>4. \A p \in Procs : Messages(p) = {} /\ Requests(p) = {} /\ Answers(p) = {}
    BY ElementFacts DEF Init, Messages, Requests, Answers
  <1>5. Calls /\ InOrder /\ Known
    BY <1>4, ElementFacts DEF Init, Calls, InOrder, Known
  <1>6. Alone /\ OwnFileWhileNoTimeout
    BY DEF Init, Alone, Silent, OwnFileWhileNoTimeout, Succeeded
  <1> QED
    BY <1>3, <1>5, <1>6 DEF IInv

(* Each step keeps the invariant. *)
LEMMA NextIInv == IInv /\ [Next]_vars => IInv'
  <1> SUFFICES ASSUME IInv, [Next]_vars PROVE IInv'
    OBVIOUS
  <1>1. TypeOK /\ Ordered /\ Alone /\ OwnFileWhileNoTimeout
    BY DEF IInv, Ordered
  <1>2. TypeOK'
    BY <1>1, CallTypes, OtherTypes, UAgentFileTransferAssumption
       DEF Next, TypeOK, vars, callVars, rcvVars, boardVars
  <1>3. Ordered'
    BY <1>1, OrderStep
  <1>4. Alone'
    <2>1. CASE UNCHANGED vars
      BY <1>1, <2>1 DEF Alone, NoTimeout, Silent, Lost, Asked, Coming, There, Delivered,
                        vars, callVars, rcvVars, boardVars
    <2>2. CASE Next /\ NoTimeout'
      BY <1>1, <2>2, CallsAlone, OthersAlone, UAgentFileTransferAssumption DEF Next
    <2>3. CASE ~NoTimeout'
      BY <2>3 DEF Alone
    <2> QED
      BY <2>1, <2>2, <2>3
  <1>5. OwnFileWhileNoTimeout'
    BY <1>1, OwnFileStep
  <1> QED
    BY <1>2, <1>3, <1>4, <1>5 DEF IInv, Ordered

(* So it holds in every state. *)
LEMMA SpecIInv == Spec => []IInv
  BY InitIInv, NextIInv, PTL DEF Spec

(* The types of the transfers' state. *)
THEOREM TypeCorrect == Spec => []TypeOK
  <1>1. IInv => TypeOK
    BY DEF IInv
  <1> QED
    BY <1>1, SpecIInv, PTL

(* As long as no transfer has timed out, one that succeeds has delivered    *)
(* its own file, whatever else has failed, and even where the ids wrap      *)
(* (WorkManager.cpp:378, 505).                                              *)
THEOREM OwnFileDelivered == Spec => []OwnFileWhileNoTimeout
  <1>1. IInv => OwnFileWhileNoTimeout
    BY DEF IInv
  <1> QED
    BY <1>1, SpecIInv, PTL

-----------------------------------------------------------------------------
(* The ids, while they do not wrap *)

(* What a request adds to what is under way. *)
LEMMA SentMessages ==
    ASSUME TypeOK, NEW call \in CallType, SendMsg_FileTransReq(call),
           UNCHANGED <<fromBoard, m_NameFileTransRspMap>>, NEW p \in Procs
    PROVE  /\ \A x \in Messages(p)' : x \in Messages(p) \/ (x.id = call.id /\ x.transId = Doubled)
           /\ \A x \in Requests(p)' : x \in Requests(p) \/ (x.id = call.id /\ x.op = call.op)
  <1>1. CASE toBoard' = toBoard
    BY <1>1 DEF Messages, Requests, Answers
  <1>2. ASSUME NEW req \in Request, req = [id |-> call.id, op |-> call.op, transId |-> Doubled],
               toBoard' = [toBoard EXCEPT ![call.proc] = Append(@, req)]
        PROVE  /\ \A x \in Messages(p)' : x \in Messages(p) \/ (x.id = call.id /\ x.transId = Doubled)
               /\ \A x \in Requests(p)' : x \in Requests(p) \/ (x.id = call.id /\ x.op = call.op)
    <2>0. req.id = call.id /\ req.op = call.op /\ req.transId = Doubled
      BY <1>2
    <2>1. toBoard[p] \in Seq(Request)
      BY DEF TypeOK
    <2>2. toBoard'[p] = toBoard[p] \/ toBoard'[p] = Append(toBoard[p], req)
      BY <1>2 DEF TypeOK
    <2>3. Requests(p)' \subseteq Requests(p) \cup {req}
      BY <2>1, <2>2, AppendFacts DEF Requests
    <2> QED
      BY <2>0, <2>3 DEF Messages, Answers
  <1> QED
    BY <1>1, <1>2, SendFacts

(* What the receive thread and the boards do to it: they add nothing. *)
Moves ==
    /\ \A p \in Procs : /\ Requests(p)' \subseteq Requests(p)
                        /\ \A x \in Messages(p)' : \E y \in Messages(p) : x.id = y.id /\ x.transId = y.transId
    /\ UNCHANGED callVars

(* Those steps are such moves. *)
LEMMA OthersMove ==
    ASSUME TypeOK, Ordered, NEW p \in Procs
    PROVE  DealMsg(p) \/ SetFileTransEvent \/ BoardTransfer(p) \/ BoardDown(p) => Moves
  <1>1. CASE DealMsg(p)
    BY <1>1, DealKeepsOrder DEF DealMsg, Moves
  <1>2. CASE SetFileTransEvent
    BY <1>2 DEF SetFileTransEvent, Moves, Messages, Requests, Answers
  <1>3. CASE BoardTransfer(p)
    BY <1>3, AnswerKeepsOrder DEF BoardTransfer, Moves
  <1>4. CASE BoardDown(p)
    BY <1>4, DownKeepsOrder DEF BoardDown, Moves
  <1> QED
    BY <1>1, <1>2, <1>3, <1>4

(* The test thread sends, or leaves what is under way alone. *)
Sends(call) ==
    /\ SendMsg_FileTransReq(call) /\ TakeTransId /\ cur' = call
    /\ UNCHANGED <<fromBoard, m_NameFileTransRspMap>>

(* The id of a call that fails at send() is taken all the same. *)
LEMMA CallsMove ==
    ASSUME TypeOK, Ordered
    PROVE  /\ \A p \in Procs : DownloadFile(p) =>
                 UNCHANGED streams /\ UNCHANGED <<m_nFileTransId, nSendTransId>> /\ cur'.id = nextId
                 /\ pc = "idle" /\ pc' \in {"idle", "send"} /\ cur'.op = "download"
           /\ \A p \in Procs : UploadFile(p) =>
                 \E call \in CallType :
                    /\ call.id = nextId /\ pc = "idle" /\ call.op = "upload" /\ call = NewCall(p, "upload")
                    /\ Sends(call) \/ (SendFails(call) /\ pc' = "idle" /\ TakeTransId /\ UNCHANGED streams /\ cur' = call)
           /\ SendDownload =>
                 /\ pc = "send" /\ cur \in CallType
                 /\ Sends(cur) \/ (SendFails(cur) /\ pc' = "idle" /\ TakeTransId /\ UNCHANGED streams /\ cur' = cur)
           /\ FileTransTimeout \/ TakeFileTransRsp \/ CopyUploaded =>
                 UNCHANGED streams /\ UNCHANGED <<cur, m_nFileTransId, nSendTransId>> /\ pc' \in {"idle", "copy"}
  <1>1. ASSUME NEW p \in Procs, DownloadFile(p)
        PROVE  UNCHANGED streams /\ UNCHANGED <<m_nFileTransId, nSendTransId>> /\ cur'.id = nextId
               /\ pc = "idle" /\ pc' \in {"idle", "send"} /\ cur'.op = "download"
    <2>1. Enter(p, "download") /\ "download" \in Ops
      BY <1>1 DEF DownloadFile, Ops
    <2> QED
      BY <1>1, <2>1, EnterFacts DEF DownloadFile, Return, rcvVars, streams
  <1>2. ASSUME NEW p \in Procs, UploadFile(p)
        PROVE  \E call \in CallType :
                  /\ call.id = nextId /\ pc = "idle" /\ call.op = "upload" /\ call = NewCall(p, "upload")
                  /\ Sends(call) \/ (SendFails(call) /\ pc' = "idle" /\ TakeTransId /\ UNCHANGED streams /\ cur' = call)
    <2>1. Enter(p, "upload") /\ "upload" \in Ops /\ TakeTransId /\ UNCHANGED <<fromBoard, m_NameFileTransRspMap>>
      BY <1>2 DEF UploadFile, Ops, rcvVars
    <2>2. PICK call \in CallType : /\ call = NewCall(p, "upload") /\ cur' = call /\ pc = "idle"
                                   /\ call.id = nextId /\ call.op = "upload"
      BY <2>1, EnterFacts
    <2>3. SendMsg_FileTransReq(call) \/ (SendFails(call) /\ pc' = "idle" /\ UNCHANGED streams)
      BY <1>2, <2>1, <2>2 DEF UploadFile, SendFails, Return, streams
    <2> QED
      BY <2>1, <2>2, <2>3 DEF Sends
  <1>3. ASSUME SendDownload
        PROVE  /\ pc = "send" /\ cur \in CallType
               /\ Sends(cur) \/ (SendFails(cur) /\ pc' = "idle" /\ TakeTransId /\ UNCHANGED streams /\ cur' = cur)
    <2>1. pc = "send" /\ cur \in CallType /\ TakeTransId /\ UNCHANGED <<cur, fromBoard, m_NameFileTransRspMap>>
      BY <1>3, FoundFacts DEF SendDownload, rcvVars
    <2>2. SendMsg_FileTransReq(cur) \/ (SendFails(cur) /\ pc' = "idle" /\ UNCHANGED streams)
      BY <1>3, <2>1 DEF SendDownload, SendFails, Return, streams
    <2> QED
      BY <2>1, <2>2 DEF Sends
  <1>4. ASSUME FileTransTimeout
        PROVE  UNCHANGED streams /\ UNCHANGED <<cur, m_nFileTransId, nSendTransId>> /\ pc' \in {"idle", "copy"}
    BY <1>4 DEF FileTransTimeout, Return, rcvVars, streams
  <1>5. ASSUME TakeFileTransRsp
        PROVE  UNCHANGED streams /\ UNCHANGED <<cur, m_nFileTransId, nSendTransId>> /\ pc' \in {"idle", "copy"}
    BY <1>5 DEF TakeFileTransRsp, Return, rcvVars, streams
  <1>6. ASSUME CopyUploaded
        PROVE  UNCHANGED streams /\ UNCHANGED <<cur, m_nFileTransId, nSendTransId>> /\ pc' \in {"idle", "copy"}
    BY <1>6 DEF CopyUploaded, Return, rcvVars, streams
  <1> QED
    BY <1>1, <1>2, <1>3, <1>4, <1>5, <1>6

(* Untouched streams hold the same messages. *)
LEMMA SameMessages ==
    ASSUME UNCHANGED streams
    PROVE  \A p : Requests(p)' = Requests(p) /\ Messages(p)' = Messages(p)
  BY DEF streams, Requests, Answers, Messages

(* A taken id is the next one, and a message that has it already is one of  *)
(* the time when all ids are 0.                                             *)
LEMMA TakenFacts ==
    ASSUME TypeOK, Ordered, Fresh, NEW id \in CallIds,
           pc = "send" => id = cur.id, pc # "send" => id = cur.id + 1
    PROVE  \E k \in 0 .. id :
              /\ Doubled = Id(k) /\ k # 0
              /\ \A p \in Procs : \A x \in Messages(p) : /\ x.transId = Doubled => x.id >= IdBits
                                                         /\ GivenOut(x, k)
  <1>1. PICK k \in 0 .. cur.id :
           /\ m_nFileTransId = Id(k) /\ (pc = "send" => k < cur.id)
           /\ \A p \in Procs : \A x \in Messages(p) : GivenOut(x, k)
    BY DEF Fresh
  <1>2. cur.id \in Nat /\ id \in Nat /\ IdBits \in Nat
    BY UAgentFileTransferAssumption DEF TypeOK, Files, CallIds
  <1>3. k \in Nat /\ k + 1 \in 0 .. id /\ k + 1 # 0
    BY <1>1, <1>2
  <1>4. Doubled = Id(k + 1)
    BY <1>1, <1>3, NextId DEF Doubled
  <1>5. ASSUME NEW p \in Procs, NEW x \in Messages(p)
        PROVE  (x.transId = Doubled => x.id >= IdBits) /\ GivenOut(x, k + 1)
    <2>1. PICK i \in 1 .. k : x.transId = Id(i) /\ i <= x.id
      BY <1>1, <1>5 DEF GivenOut
    <2>2. i \in Nat /\ k + 1 \in Nat /\ i < k + 1 /\ i \in 1 .. k + 1
      BY <1>3
    <2>3. x.id \in Nat
      BY MessageFacts
    <2>4. PICK j \in Nat : j = k + 1 /\ i < j
      BY <2>2
    <2>5. Id(i) = Id(j) => i >= IdBits
      BY <2>2, <2>4, RepeatedId
    <2>6. x.transId = Doubled => x.id >= IdBits
      BY <1>2, <1>4, <2>1, <2>2, <2>3, <2>4, <2>5
    <2> QED
      BY <2>1, <2>2, <2>6 DEF GivenOut
  <1> QED
    BY <1>3, <1>4, <1>5

(* The ids under way stay among those given out. *)
LEMMA FreshStep ==
    ASSUME TypeOK, Ordered, Fresh, [Next]_vars
    PROVE  Fresh'
  <1>0. PICK k \in 0 .. cur.id :
           /\ m_nFileTransId = Id(k) /\ (pc = "send" => k < cur.id)
           /\ \A p \in Procs : \A x \in Messages(p) : GivenOut(x, k)
    BY DEF Fresh
  <1>1. cur.id \in Nat /\ nextId = cur.id + 1 /\ k \in Nat /\ k <= cur.id
    BY UAgentFileTransferAssumption DEF TypeOK, Files, Ordered, Calls
  <1>2. ASSUME UNCHANGED streams, m_nFileTransId' = m_nFileTransId, cur' = cur, pc' = "send" => pc = "send"
        PROVE  Fresh'
    BY <1>0, <1>2, SameMessages DEF Fresh
  <1>3. ASSUME UNCHANGED streams, m_nFileTransId' = m_nFileTransId, cur'.id = nextId
        PROVE  Fresh'
    <2>1. k \in 0 .. cur'.id /\ k < cur'.id
      BY <1>1, <1>3
    <2> QED
      BY <1>0, <1>3, <2>1, SameMessages DEF Fresh
  <1>4. ASSUME NEW call \in CallType, TakeTransId, cur' = call, pc' # "send",
               pc = "send" => call.id = cur.id, pc # "send" => call.id = cur.id + 1,
               \A p \in Procs : \A x \in Messages(p)' :
                  x \in Messages(p) \/ (x.id = call.id /\ x.transId = Doubled)
        PROVE  Fresh'
    <2>1. call.id \in CallIds
      BY DEF CallType
    <2>2. PICK j \in 0 .. call.id :
              /\ Doubled = Id(j) /\ j # 0
              /\ \A p \in Procs : \A x \in Messages(p) : GivenOut(x, j)
      BY <1>4, <2>1, TakenFacts
    <2>3. \A x : x.id = call.id /\ x.transId = Doubled => GivenOut(x, j)
      <3>1. j \in 1 .. j /\ j <= call.id
        BY <2>1, <2>2, UAgentFileTransferAssumption DEF CallIds
      <3> QED
        BY <2>2, <3>1 DEF GivenOut
    <2>4. \A p \in Procs : \A x \in Messages(p)' : GivenOut(x, j)
      BY <1>4, <2>2, <2>3
    <2> QED
      BY <1>4, <2>2, <2>4 DEF Fresh, TakeTransId
  <1>5. ASSUME Moves PROVE Fresh'
    <2>1. \A p \in Procs : \A x \in Messages(p)' : GivenOut(x, k)
      BY <1>0, <1>5 DEF Moves, GivenOut
    <2> QED
      BY <1>0, <1>5, <2>1 DEF Fresh, Moves, callVars
  <1>6. ASSUME NEW p \in Procs, DownloadFile(p) PROVE Fresh'
    BY <1>3, <1>6, CallsMove
  <1>7. ASSUME NEW p \in Procs, UploadFile(p) PROVE Fresh'
    <2>1. PICK call \in CallType :
             /\ call.id = nextId /\ pc = "idle"
             /\ Sends(call) \/ (pc' = "idle" /\ TakeTransId /\ UNCHANGED streams /\ cur' = call)
      BY <1>7, CallsMove
    <2>2. pc # "send" /\ call.id = cur.id + 1 /\ TakeTransId /\ cur' = call /\ pc' # "send"
      BY <1>1, <2>1, SendFacts DEF Sends
    <2>3. \A q \in Procs : \A x \in Messages(q)' : x \in Messages(q) \/ (x.id = call.id /\ x.transId = Doubled)
      BY <2>1, SentMessages, SameMessages DEF Sends
    <2> QED
      BY <1>4, <2>2, <2>3
  <1>8. CASE SendDownload
    <2>1. /\ pc = "send" /\ cur \in CallType
          /\ Sends(cur) \/ (pc' = "idle" /\ TakeTransId /\ UNCHANGED streams /\ cur' = cur)
      BY <1>8, CallsMove
    <2>2. TakeTransId /\ cur' = cur /\ pc' # "send"
      BY <2>1, SendFacts DEF Sends
    <2>3. \A q \in Procs : \A x \in Messages(q)' : x \in Messages(q) \/ (x.id = cur.id /\ x.transId = Doubled)
      BY <2>1, SentMessages, SameMessages DEF Sends
    <2> QED
      BY <1>4, <2>1, <2>2, <2>3
  <1>9. CASE FileTransTimeout \/ TakeFileTransRsp \/ CopyUploaded
    BY <1>2, <1>9, CallsMove
  <1>10. CASE \E p \in Procs : DealMsg(p) \/ SetFileTransEvent \/ BoardTransfer(p) \/ BoardDown(p)
    BY <1>5, <1>10, OthersMove
  <1>11. CASE UNCHANGED vars
    BY <1>2, <1>11 DEF vars, callVars, rcvVars, streams
  <1> QED
    BY <1>6, <1>7, <1>8, <1>9, <1>10, <1>11, UAgentFileTransferAssumption DEF Next

(* Whoever waits for an id finds it on his own answer only. *)
LEMMA MineStep ==
    ASSUME TypeOK, Ordered, Fresh, Mine, [Next]_vars
    PROVE  Mine'
  <1>1. ASSUME NEW call \in CallType, Sends(call),
               pc = "send" => call.id = cur.id, pc # "send" => call.id = cur.id + 1
        PROVE  Mine'
    <2>1. call.id \in CallIds
      BY DEF CallType
    <2>2. \A p \in Procs : \A x \in Messages(p) : x.transId = Doubled => x.id >= IdBits
      BY <1>1, <2>1, TakenFacts
    <2>3. \A p \in Procs : \A x \in Messages(p)' : x \in Messages(p) \/ (x.id = call.id /\ x.transId = Doubled)
      BY <1>1, SentMessages DEF Sends
    <2>4. /\ pc' = "wait" /\ cur' = call
          /\ nSendTransId' = m_nFileTransId /\ m_nFileTransId' = Doubled
      BY <1>1, SendFacts DEF Sends, TakeTransId
    <2> QED
      BY <2>2, <2>3, <2>4 DEF Mine, Doubled, OwnOrWrapped
  <1>2. ASSUME pc' \notin {"wait", "copy"} PROVE Mine'
    BY <1>2 DEF Mine
  <1>3. ASSUME Moves, m_NameFileTransRspMap'[cur.proc] = m_NameFileTransRspMap[cur.proc]
        PROVE  Mine'
    BY <1>3 DEF Mine, Moves, callVars, OwnOrWrapped
  <1>4. ASSUME Moves, pc = "wait"
        PROVE  Mine'
    BY <1>4 DEF Mine, Moves, callVars, OwnOrWrapped
  <1>5. ASSUME NEW p \in Procs, DownloadFile(p) PROVE Mine'
    BY <1>2, <1>5, CallsMove
  <1>6. ASSUME NEW p \in Procs, UploadFile(p) PROVE Mine'
    <2>1. PICK call \in CallType : call.id = nextId /\ pc = "idle" /\ (Sends(call) \/ pc' = "idle")
      BY <1>6, CallsMove
    <2>2. call.id = cur.id + 1
      BY <2>1, MessageFacts, UAgentFileTransferAssumption
    <2> QED
      BY <1>1, <1>2, <2>1, <2>2
  <1>7. CASE SendDownload
    BY <1>1, <1>2, <1>7, CallsMove
  <1>8. CASE FileTransTimeout
    BY <1>2, <1>8 DEF FileTransTimeout, Return
  <1>9. CASE TakeFileTransRsp
    <2>1. PICK rsp : rsp = m_NameFileTransRspMap[cur.proc]
      OBVIOUS
    <2>2. pc = "wait" /\ cur.proc \in Procs /\ UNCHANGED <<cur, m_NameFileTransRspMap>>
      BY <1>9 DEF TakeFileTransRsp, TypeOK, rcvVars
    <2>3. pc' = "idle" \/ (Rejected(rsp) = "no" /\ cur.op = "upload" /\ pc' = "copy")
      BY <1>9, <2>1 DEF TakeFileTransRsp, Return
    <2>4. Rejected(rsp) = "no" => OwnOrWrapped(rsp.id)
      <3>1. Rejected(rsp) = "no" => rsp \in Messages(cur.proc) /\ rsp.transId = m_nFileTransId
        BY <2>1, <2>2, AcceptedFacts DEF Messages, Mine
      <3> QED
        BY <2>2, <3>1 DEF Mine
    <2> QED
      BY <2>1, <2>2, <2>3, <2>4 DEF Mine, OwnOrWrapped
  <1>10. CASE CopyUploaded
    BY <1>2, <1>10 DEF CopyUploaded, Return
  <1>11. ASSUME NEW p \in Procs, DealMsg(p) PROVE Mine'
    <2>1. Moves
      BY <1>11, OthersMove
    <2>2. CASE pc # "copy" /\ pc # "wait"
      BY <1>2, <2>1, <2>2 DEF Moves, callVars
    <2>3. CASE pc = "copy"
      <3>1. fromBoard[p] # <<>> /\ fromBoard[p] \in Seq(Rsp)
        BY <1>11 DEF DealMsg, TypeOK
      <3>2. PICK rsp \in Rsp : rsp = Head(fromBoard[p]) /\ rsp \in Answers(p)
        BY <3>1, TailFacts DEF Answers
      <3>3. m_NameFileTransRspMap[p].id < rsp.id /\ rsp.id <= cur.id /\ rsp.id \in Nat /\ cur.id \in Nat
        BY <3>2, MessageFacts DEF Ordered, InOrder
      <3>4. CASE p # cur.proc
        <4>1. m_NameFileTransRspMap'[cur.proc] = m_NameFileTransRspMap[cur.proc]
          BY <1>11, <3>4 DEF DealMsg, TypeOK
        <4> QED
          BY <1>3, <2>1, <4>1
      <3>5. CASE p = cur.proc
        <4>1. m_NameFileTransRspMap'[p] = rsp
          BY <1>11, <3>2 DEF DealMsg, TypeOK
        <4>2. m_NameFileTransRspMap[p].id \in Nat /\ IdBits \in Nat
          BY UAgentFileTransferAssumption DEF TypeOK, Rsp, NoRsp, CallIds
        <4>3. rsp.id >= IdBits
          BY <2>3, <3>3, <3>5, <4>2 DEF Mine, OwnOrWrapped
        <4> QED
          BY <2>1, <2>3, <3>5, <4>1, <4>3 DEF Mine, Moves, callVars, OwnOrWrapped
      <3> QED
        BY <3>4, <3>5
    <2> QED
      BY <1>4, <2>1, <2>2, <2>3
  <1>12. CASE \E p \in Procs : SetFileTransEvent \/ BoardTransfer(p) \/ BoardDown(p)
    BY <1>3, <1>12, OthersMove DEF SetFileTransEvent, BoardTransfer, BoardDown, rcvVars
  <1>13. CASE UNCHANGED vars
    BY <1>13, SameMessages DEF vars, callVars, rcvVars, streams, Mine, OwnOrWrapped
  <1> QED
    BY <1>5, <1>6, <1>7, <1>8, <1>9, <1>10, <1>11, <1>12, <1>13, UAgentFileTransferAssumption DEF Next

(* Success is only ever told by the own answer. *)
LEMMA SuccessStep ==
    ASSUME TypeOK, Ordered, Mine, SuccessOnOwnAnswer, [Next]_vars
    PROVE  SuccessOnOwnAnswer'
  <1>0. 0 \in Files
    BY UAgentFileTransferAssumption DEF Files
  <1>1. CASE returned' = returned
    BY <1>1 DEF SuccessOnOwnAnswer, Succeeded
  <1>2. ASSUME NEW call \in CallType, NEW why \in Reasons, NEW answer \in Files, NEW got \in Files,
               Return(call, why, answer, got), why = "done" => answer = call.id \/ answer >= IdBits
        PROVE  SuccessOnOwnAnswer'
    BY <1>2, ReturnFacts DEF SuccessOnOwnAnswer, Succeeded
  <1>3. ASSUME NEW p \in Procs, DownloadFile(p) PROVE SuccessOnOwnAnswer'
    <2>1. NewCall(p, "download") \in CallType
      BY <1>3, EnterFacts DEF DownloadFile, Ops
    <2> QED
      BY <1>0, <1>1, <1>2, <1>3, <2>1 DEF DownloadFile, Reasons
  <1>4. ASSUME NEW p \in Procs, UploadFile(p) PROVE SuccessOnOwnAnswer'
    <2>1. NewCall(p, "upload") \in CallType
      BY <1>4, EnterFacts DEF UploadFile, Ops
    <2> QED
      BY <1>0, <1>1, <1>2, <1>4, <2>1, SendFacts DEF UploadFile, SendFails, Reasons
  <1>5. CASE SendDownload
    <2>1. cur \in CallType
      BY <1>5, FoundFacts DEF SendDownload
    <2> QED
      BY <1>0, <1>1, <1>2, <1>5, <2>1, SendFacts DEF SendDownload, SendFails, Reasons
  <1>6. CASE FileTransTimeout
    <2>1. cur \in CallType
      BY <1>6, FoundFacts DEF FileTransTimeout
    <2> QED
      BY <1>0, <1>2, <1>6, <2>1 DEF FileTransTimeout, Reasons
  <1>7. CASE TakeFileTransRsp
    <2>1. PICK rsp : rsp = m_NameFileTransRspMap[cur.proc]
      OBVIOUS
    <2>2. /\ pc = "wait" /\ cur \in CallType /\ rsp.id \in Files /\ stored[cur.id] \in Files
          /\ Rejected(rsp) # "no" => Rejected(rsp) \in Reasons \ {"done"}
      BY <1>7, <2>1, FoundFacts DEF TakeFileTransRsp
    <2>3. Rejected(rsp) = "no" => rsp.id = cur.id \/ rsp.id >= IdBits
      <3>1. cur.proc \in Procs
        BY <2>2 DEF CallType
      <3>2. Rejected(rsp) = "no" => rsp \in Messages(cur.proc) /\ rsp.transId = m_nFileTransId
        BY <2>1, <2>2, AcceptedFacts DEF Messages, Mine
      <3> QED
        BY <2>2, <3>1, <3>2 DEF Mine, OwnOrWrapped
    <2>4. \/ Rejected(rsp) # "no" /\ Return(cur, Rejected(rsp), rsp.id, 0)
          \/ Rejected(rsp) = "no" /\ Return(cur, "done", rsp.id, stored[cur.id])
          \/ UNCHANGED returned
      BY <1>7, <2>1 DEF TakeFileTransRsp
    <2> QED
      BY <1>0, <1>1, <1>2, <2>2, <2>3, <2>4 DEF Reasons
  <1>8. CASE CopyUploaded
    <2>1. PICK rsp : rsp = m_NameFileTransRspMap[cur.proc]
      OBVIOUS
    <2>2. pc = "copy" /\ cur \in CallType /\ rsp.id \in Files /\ tempfile \in Files
      BY <1>8, <2>1, FoundFacts DEF CopyUploaded, TypeOK
    <2>3. Return(cur, "done", rsp.id, tempfile) \/ Return(cur, "copy", 0, 0)
      BY <1>8, <2>1 DEF CopyUploaded
    <2> QED
      BY <1>0, <1>2, <2>1, <2>2, <2>3 DEF Mine, Reasons, OwnOrWrapped
  <1>9. CASE \E p \in Procs : DealMsg(p) \/ SetFileTransEvent \/ BoardTransfer(p) \/ BoardDown(p)
    BY <1>1, <1>9 DEF DealMsg, SetFileTransEvent, BoardTransfer, BoardDown, callVars
  <1>10. CASE UNCHANGED vars
    BY <1>1, <1>10 DEF vars, callVars
  <1> QED
    BY <1>3, <1>4, <1>5, <1>6, <1>7, <1>8, <1>9, <1>10, UAgentFileTransferAssumption DEF Next

-----------------------------------------------------------------------------
(* The files that are done with *)

(* What makes a call one whose file is gone when it returns. *)
Finished(call, why, answer) == call.op = "download" \/ (why = "done" /\ answer = call.id)

(* The calls whose files are gone after one has returned. *)
LEMMA ReturnDone ==
    ASSUME TypeOK, NEW call \in CallType, NEW why \in Reasons, NEW answer \in Files, NEW got \in Files,
           Return(call, why, answer, got)
    PROVE  \A id : Done(id)' => Done(id) \/ (id = call.id /\ Finished(call, why, answer))
  <1> SUFFICES ASSUME NEW id, Done(id)'
               PROVE  Done(id) \/ (id = call.id /\ Finished(call, why, answer))
    OBVIOUS
  <1>1. PICK c \in returned' : c.id = id /\ Over(c)
    BY DEF Done
  <1>2. CASE c \in returned
    BY <1>1, <1>2 DEF Done
  <1>3. CASE c \notin returned
    BY <1>1, <1>3, ReturnFacts DEF Over, Finished
  <1> QED
    BY <1>2, <1>3

(* No file is gone before its call has been made and has returned. *)
LEMMA DoneFacts ==
    ASSUME TypeOK, Ordered, NEW id, Done(id)
    PROVE  id \in Nat \ {0} /\ id <= cur.id /\ (id = cur.id => pc = "idle")
  <1>1. PICK c \in returned : c.id = id
    BY DEF Done
  <1> QED
    BY <1>1 DEF TypeOK, Returned, CallIds, Ordered, Calls

(* What is left of Gone when a call returns. *)
LEMMA ReturnGone ==
    ASSUME TypeOK, Ordered, Gone, NEW call \in CallType, cur' = call, call.id >= cur.id, UNCHANGED toBoard,
           NEW why \in Reasons, NEW answer \in Files, NEW got \in Files, Return(call, why, answer, got),
           \/ tempfile' = 0
           \/ tempfile' = tempfile /\ (call.id # cur.id \/ ~Finished(call, why, answer)),
           \/ ~Finished(call, why, answer)
           \/ \A p \in Procs : \A req \in Requests(p) : req.op = "upload" => req.id # call.id
    PROVE  Gone'
  <1>1. cur.id \in Nat /\ call.id \in Nat /\ tempfile \in Nat /\ tempfile <= cur.id /\ ~Done(tempfile)
    BY UAgentFileTransferAssumption DEF Gone, TypeOK, Files, CallType, CallIds
  <1>2. \A id : Done(id)' => Done(id) \/ (id = call.id /\ Finished(call, why, answer))
    BY ReturnDone
  <1>3. ~Done(0)
    BY DoneFacts
  <1>4. call.id # 0
    BY DEF CallType, CallIds
  <1>5. tempfile' <= cur'.id
    <2>1. tempfile' = 0 \/ tempfile' = tempfile
      OBVIOUS
    <2>2. cur'.id = call.id
      OBVIOUS
    <2> QED
      BY <1>1, <2>1, <2>2
  <1>6. ~Done(tempfile)'
    <2>1. CASE tempfile' = 0
      BY <1>2, <1>3, <1>4, <2>1 DEF Done
    <2>2. CASE tempfile' = tempfile /\ (call.id # cur.id \/ ~Finished(call, why, answer))
      <3>1. tempfile = call.id => ~Finished(call, why, answer)
        BY <1>1, <2>2
      <3>2. ~(Done(tempfile)')
        <4>1. \A c \in returned' : c \notin returned =>
                 c.id = call.id /\ (Over(c) => Finished(call, why, answer))
          BY ReturnFacts DEF Over, Finished
        <4> QED
          BY <1>1, <2>2, <3>1, <4>1 DEF Done
      <3> QED
        BY <3>2
    <2> QED
      BY <2>1, <2>2
  <1>7. ASSUME NEW p \in Procs, NEW req \in Requests(p)', req.op = "upload"
        PROVE  ~(Done(req.id)')
    <2>1. req \in Requests(p) /\ ~Done(req.id)
      BY <1>7 DEF Requests, Gone
    <2>2. \A c \in returned' : c \notin returned =>
             c.id = call.id /\ (Over(c) => Finished(call, why, answer))
      BY ReturnFacts DEF Over, Finished
    <2> QED
      BY <1>7, <2>1, <2>2 DEF Done
  <1> QED
    BY <1>5, <1>6, <1>7 DEF Gone, Done

(* A request of a call that has not returned. *)
LEMMA SendGone ==
    ASSUME TypeOK, Ordered, Gone, NEW call \in CallType, SendMsg_FileTransReq(call),
           cur' = call, call.id >= cur.id, call.id = cur.id => pc # "idle",
           UNCHANGED <<tempfile, fromBoard, m_NameFileTransRspMap>>
    PROVE  Gone'
  <1>1. returned' = returned /\ ~Done(call.id)
    <2>1. call.id \in Nat /\ cur.id \in Nat
      BY UAgentFileTransferAssumption DEF CallType, CallIds, TypeOK, Files
    <2> QED
      BY <2>1, SendFacts, DoneFacts
  <1>2. \A p \in Procs : \A x \in Requests(p)' : x \in Requests(p) \/ x.id = call.id
    BY SentMessages
  <1>3. tempfile' <= cur'.id
    BY UAgentFileTransferAssumption DEF CallType, CallIds, TypeOK, Files, Gone
  <1> QED
    BY <1>1, <1>2, <1>3 DEF Gone, Done

(* No step of the test thread brings a file back. *)
LEMMA CallsGone ==
    ASSUME TypeOK, Ordered, Mine, Gone
    PROVE  /\ \A p \in Procs : DownloadFile(p) \/ UploadFile(p) => Gone'
           /\ SendDownload \/ FileTransTimeout \/ TakeFileTransRsp \/ CopyUploaded => Gone'
  <1>0. /\ 0 \in Files /\ cur.id \in Nat /\ nextId = cur.id + 1 /\ tempfile \in Nat /\ tempfile <= cur.id
        /\ \A p \in Procs : \A req \in Requests(p) :
              /\ req.id \in Nat /\ req.id <= cur.id
              /\ req.id = cur.id => p = cur.proc /\ pc # "send" /\ req.op = cur.op
              /\ m_NameFileTransRspMap[p].id < req.id
    <2>1. 0 \in Files /\ cur.id \in Nat /\ nextId = cur.id + 1 /\ tempfile \in Nat /\ tempfile <= cur.id
      BY UAgentFileTransferAssumption DEF TypeOK, Files, Ordered, Calls, Gone
    <2>2. ASSUME NEW p \in Procs, NEW req \in Requests(p)
          PROVE  /\ req.id \in Nat /\ req.id <= cur.id
                 /\ req.id = cur.id => p = cur.proc /\ pc # "send" /\ req.op = cur.op
                 /\ m_NameFileTransRspMap[p].id < req.id
      <3>1. req \in Messages(p)
        BY MessageFacts
      <3> QED
        BY <3>1, MessageFacts DEF Ordered, Known, InOrder
    <2> QED
      BY <2>1, <2>2
  <1>1. ASSUME NEW p \in Procs, DownloadFile(p) PROVE Gone'
    <2>1. Enter(p, "download") /\ "download" \in Ops /\ UNCHANGED toBoard
      BY <1>1 DEF DownloadFile, Ops
    <2>2. PICK call \in CallType : call = NewCall(p, "download") /\ cur' = call /\ call.id = nextId
      BY <2>1, EnterFacts
    <2>3. CASE Return(call, "source", 0, 0) /\ UNCHANGED tempfile
      <3>1. call.id >= cur.id /\ call.id # cur.id
        BY <1>0, <2>2
      <3>2. \A q \in Procs : \A req \in Requests(q) : req.id # call.id
        BY <1>0, <2>2
      <3> QED
        BY <1>0, <2>1, <2>2, <2>3, <3>1, <3>2, ReturnGone DEF Reasons
    <2>4. CASE tempfile' = nextId /\ UNCHANGED returned
      <3>1. ~Done(nextId) /\ \A q \in Procs : Requests(q)' = Requests(q)
        BY <1>0, <2>1, DoneFacts DEF Requests
      <3> QED
        BY <1>0, <2>2, <2>4, <3>1 DEF Gone, Done
    <2> QED
      BY <1>1, <2>2, <2>3, <2>4 DEF DownloadFile
  <1>2. ASSUME NEW p \in Procs, UploadFile(p) PROVE Gone'
    <2>1. PICK call \in CallType :
             /\ call.id = nextId /\ call.op = "upload"
             /\ Sends(call) \/ (SendFails(call) /\ UNCHANGED streams /\ cur' = call)
      BY <1>2, CallsMove
    <2>2. UNCHANGED tempfile /\ call.id >= cur.id /\ call.id # cur.id
      BY <1>0, <1>2, <2>1 DEF UploadFile
    <2>3. CASE Sends(call)
      BY <2>2, <2>3, SendGone DEF Sends
    <2>4. CASE SendFails(call) /\ UNCHANGED streams /\ cur' = call
      BY <1>0, <2>1, <2>2, <2>4, ReturnGone DEF SendFails, Reasons, streams, Finished
    <2> QED
      BY <2>1, <2>3, <2>4
  <1>3. CASE SendDownload
    <2>1. pc = "send" /\ cur \in CallType /\ UNCHANGED <<cur, fromBoard, m_NameFileTransRspMap>>
      BY <1>3, FoundFacts DEF SendDownload, rcvVars
    <2>2. CASE SendMsg_FileTransReq(cur) /\ UNCHANGED tempfile
      BY <1>0, <2>1, <2>2, SendGone
    <2>3. CASE SendFails(cur) /\ tempfile' = 0
      <3>1. \A p \in Procs : \A req \in Requests(p) : req.id # cur.id
        BY <1>0, <2>1
      <3> QED
        BY <1>0, <2>1, <2>3, <3>1, ReturnGone DEF SendFails, Reasons
    <2> QED
      BY <1>3, <2>2, <2>3 DEF SendDownload, DelTempFile
  <1>4. ASSUME NEW why \in Reasons \ {"done"}, NEW answer \in Files, cur \in CallType,
               Return(cur, why, answer, 0), DelIfDownload, UNCHANGED <<cur, toBoard>>
        PROVE  Gone'
    <2>1. CASE cur.op = "download"
      <3>1. tempfile' = 0 /\ \A p \in Procs : \A req \in Requests(p) : req.op = "upload" => req.id # cur.id
        BY <1>0, <1>4, <2>1 DEF DelIfDownload
      <3> QED
        BY <1>0, <1>4, <3>1, ReturnGone
    <2>2. CASE cur.op # "download"
      BY <1>0, <1>4, <2>2, ReturnGone DEF DelIfDownload, Finished
    <2> QED
      BY <2>1, <2>2
  <1>5. CASE FileTransTimeout
    <2>1. cur \in CallType
      BY <1>5, FoundFacts DEF FileTransTimeout
    <2> QED
      BY <1>0, <1>4, <1>5, <2>1 DEF FileTransTimeout, Reasons
  <1>6. CASE TakeFileTransRsp
    <2>1. PICK rsp : rsp = m_NameFileTransRspMap[cur.proc]
      OBVIOUS
    <2>2. /\ pc = "wait" /\ cur \in CallType /\ rsp.id \in Files /\ stored[cur.id] \in Files
          /\ Rejected(rsp) # "no" => Rejected(rsp) \in Reasons \ {"done"}
          /\ UNCHANGED <<cur, toBoard>>
      BY <1>6, <2>1, FoundFacts DEF TakeFileTransRsp
    <2>3. CASE Rejected(rsp) # "no" /\ Return(cur, Rejected(rsp), rsp.id, 0) /\ DelIfDownload
      BY <1>4, <2>2, <2>3
    <2>4. CASE cur.op = "download" /\ Return(cur, "done", rsp.id, stored[cur.id]) /\ DelTempFile
      <3>1. \A p \in Procs : \A req \in Requests(p) : req.op = "upload" => req.id # cur.id
        BY <1>0, <2>4
      <3> QED
        BY <1>0, <2>2, <2>4, <3>1, ReturnGone DEF DelTempFile, Reasons
    <2>5. CASE UNCHANGED <<returned, tempfile>>
      BY <2>2, <2>5 DEF Gone, Done, Requests
    <2> QED
      BY <1>6, <2>1, <2>3, <2>4, <2>5 DEF TakeFileTransRsp
  <1>7. CASE CopyUploaded
    <2>1. PICK rsp : rsp = m_NameFileTransRspMap[cur.proc]
      OBVIOUS
    <2>2. /\ pc = "copy" /\ cur \in CallType /\ rsp.id \in Files /\ tempfile \in Files
          /\ UNCHANGED <<cur, toBoard>>
      BY <1>7, <2>1, FoundFacts DEF CopyUploaded, TypeOK
    <2>3. cur.op = "upload"
      BY <2>2 DEF Mine
    <2>4. rsp.id = cur.id => \A p \in Procs : \A req \in Requests(p) : req.id # cur.id
      BY <1>0, <2>1
    <2>5. CASE Return(cur, "done", rsp.id, tempfile) /\ DelTempFile
      <3>1. PICK got \in Files : got = tempfile
        BY <2>2
      <3>2. Return(cur, "done", rsp.id, got) /\ tempfile' = 0 /\ cur.id >= cur.id /\ "done" \in Reasons
        BY <1>0, <2>5, <3>1 DEF DelTempFile, Reasons
      <3> QED
        BY <2>2, <2>3, <2>4, <3>2, ReturnGone DEF Finished
    <2>6. CASE Return(cur, "copy", 0, 0) /\ UNCHANGED tempfile
      BY <1>0, <2>2, <2>3, <2>6, ReturnGone DEF Reasons, Finished
    <2> QED
      BY <1>7, <2>1, <2>5, <2>6 DEF CopyUploaded
  <1> QED
    BY <1>1, <1>2, <1>3, <1>5, <1>6, <1>7

(* The receive thread never touches it, and a board only stores the file of *)
(* a request it has before it.                                              *)
LEMMA OthersGone ==
    ASSUME TypeOK, Ordered, Gone, NEW p \in Procs
    PROVE  DealMsg(p) \/ SetFileTransEvent \/ BoardTransfer(p) \/ BoardDown(p) => Gone'
  <1>1. ASSUME Moves, tempfile' = tempfile
        PROVE  Gone'
    <2>1. returned' = returned /\ cur' = cur /\ \A q \in Procs : Requests(q)' \subseteq Requests(q)
      BY <1>1 DEF Moves, callVars
    <2> QED
      BY <1>1, <2>1 DEF Gone, Done
  <1>2. CASE BoardTransfer(p)
    <2>1. toBoard[p] # <<>> /\ Moves
      BY <1>2, BoardFacts, OthersMove
    <2>2. PICK req \in Requests(p) : req = Head(toBoard[p])
      <3>1. toBoard[p] \in Seq(Request)
        BY DEF TypeOK
      <3> QED
        BY <2>1, <3>1, TailFacts DEF Requests
    <2>3. tempfile' = tempfile \/ (req.op = "upload" /\ tempfile' = req.id)
      BY <1>2, <2>2, BoardFacts
    <2>4. CASE req.op = "upload" /\ tempfile' = req.id
      <3>1. ~Done(req.id) /\ req.id <= cur.id
        BY <2>2, <2>4, MessageFacts DEF Gone
      <3>2. returned' = returned /\ cur' = cur /\ \A q \in Procs : Requests(q)' \subseteq Requests(q)
        BY <2>1 DEF Moves, callVars
      <3> QED
        BY <2>4, <3>1, <3>2 DEF Gone, Done
    <2> QED
      BY <1>1, <2>1, <2>3, <2>4
  <1>3. CASE DealMsg(p) \/ SetFileTransEvent \/ BoardDown(p)
    BY <1>1, <1>3, OthersMove DEF DealMsg, SetFileTransEvent, BoardDown
  <1> QED
    BY <1>2, <1>3

-----------------------------------------------------------------------------
(* The second invariant holds at first. *)
LEMMA InitIds == Init => IdsInv
  <1> SUFFICES ASSUME Init PROVE IdsInv
    OBVIOUS
  <1>1. \A p \in Procs : Messages(p) = {} /\ Requests(p) = {}
    BY ElementFacts DEF Init, Messages, Requests, Answers
  <1>2. \A id : ~Done(id)
    BY DEF Init, Done
  <1>3. Id(0) = 3
    <2>1. PICK w \in Nat \ {0} : w = TwoTo[IdBits]
      BY TwoToFacts, UAgentFileTransferAssumption
    <2>2. 3 \in 0 .. w - 1
      <3>1. 3 \in TransIds
        BY InitIInv DEF Init, IInv, TypeOK
      <3> QED
        BY <2>1, <3>1 DEF TransIds
    <2>3. 3 % w = 3
      <3>1. 3 = w * 0 + 3
        OBVIOUS
      <3> QED
        BY <2>2, <3>1, Rest
    <2> QED
      BY <2>1, <2>3, TwoToFacts DEF Id
  <1>4. Fresh
    <2>1. 0 \in 0 .. cur.id /\ pc # "send" /\ m_nFileTransId = 3
      BY DEF Init
    <2> QED
      BY <1>1, <1>3, <2>1 DEF Fresh
  <1>5. Mine /\ SuccessOnOwnAnswer
    BY DEF Init, Mine, SuccessOnOwnAnswer, Succeeded
  <1>6. Gone
    BY <1>1, <1>2 DEF Init, Gone
  <1> QED
    BY <1>4, <1>5, <1>6 DEF IdsInv

(* Every step keeps it. *)
LEMMA NextIds == IInv /\ IdsInv /\ [Next]_vars => IdsInv'
  <1> SUFFICES ASSUME IInv, IdsInv, [Next]_vars PROVE IdsInv'
    OBVIOUS
  <1>1. TypeOK /\ Ordered /\ Fresh /\ Mine /\ Gone /\ SuccessOnOwnAnswer
    BY DEF IInv, Ordered, IdsInv
  <1>2. Fresh' /\ Mine' /\ SuccessOnOwnAnswer'
    BY <1>1, FreshStep, MineStep, SuccessStep
  <1>3. Gone'
    <2>1. CASE UNCHANGED vars
      BY <1>1, <2>1 DEF Gone, Done, Requests, vars, callVars
    <2>2. CASE Next
      BY <1>1, <2>2, CallsGone, OthersGone, UAgentFileTransferAssumption DEF Next
    <2> QED
      BY <2>1, <2>2
  <1> QED
    BY <1>2, <1>3 DEF IdsInv

(* Both hold of every behaviour. *)
LEMMA SpecIds == Spec => [](IInv /\ IdsInv)
  <1>1. IInv /\ IdsInv /\ [Next]_vars => (IInv /\ IdsInv)'
    BY NextIInv, NextIds
  <1>2. Init => IInv /\ IdsInv
    BY InitIInv, InitIds
  <1> QED
    BY <1>1, <1>2, PTL DEF Spec

(* A transfer succeeds only on the answer to its own request, whatever      *)
(* timed out before, until as many ids have been given out as an id has     *)
(* bits, 32 in the code; and then only on the answer to one that had, like  *)
(* itself, the id 0 (WorkManager.cpp:397, 440).                             *)
THEOREM SuccessIsOwn == Spec => []SuccessOnOwnAnswer
  <1>1. IdsInv => SuccessOnOwnAnswer
    BY DEF IdsInv
  <1> QED
    BY <1>1, SpecIds, PTL

(* Nor does the file of a transfer that is over come back: between calls it *)
(* is neither one that a download has put there nor one that an upload has  *)
(* copied away after its own answer, whatever timed out before              *)
(* (WorkManager.cpp:411-446, 1665-1677).                                    *)
THEOREM NoFileComesBack == Spec => []TempFileDeleted
  <1>1. IdsInv => TempFileDeleted
    BY DEF IdsInv, Gone, Done, Over, TempFileDeleted
  <1> QED
    BY <1>1, SpecIds, PTL

=============================================================================
