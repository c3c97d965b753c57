--------------------------- MODULE PacketTestProofs ---------------------------
(***************************************************************************)
(* Theorems about the answers of the packet tests, for every number of     *)
(* keywords, flows, fragments and frames the board holds.                  *)
(***************************************************************************)
EXTENDS PacketTest, FiniteSetTheorems, SequenceTheorems, TLAPS

As == {"asked", "unasked", "bad_sum"}

(* What the argument needs of the types. *)
Types ==
  /\ round \in Rounds /\ pc \in {"start", "join", "answer", "done"}
  /\ calls \in Suites
  /\ send \in {"no", "sending", "ended"} /\ sent \in Nat
  /\ sniff \in {"no", "opening", "open", "ended"} /\ ret \in Nat
  /\ pkgs \subseteq Frame /\ IsFiniteSet(pkgs) /\ net \subseteq Frame
  /\ stat \in Seq(BOOLEAN)
  /\ DOMAIN pcap = Flows \X (0 .. 1)

(* A keyword has as many answers as rounds behind it, unless a check has    *)
(* raised.                                                                  *)
Answers ==
  /\ pc \in {"start", "join"} => Len(stat) = Mf(round)
  /\ pc \in {"answer", "done"} => Len(stat) <= 2 /\ Mf(round) = 1
  /\ pc # "join" => pkgs = {} /\ ret = 0 /\ sniff = "no" /\ send = "no" /\ sent = 0
  /\ sniff \in {"no", "opening"} => pkgs = {} /\ ret = 0
  /\ \A f \in net : f.round <= round

(* While a capture has not counted its packets it has returned 0, and once *)
(* it has, they are what the file holds.                                   *)
Capture ==
  /\ ret # 0 => sniff = "ended" /\ pcap[File(round)] = pkgs
  /\ sniff = "ended" => round \in faulty \/ (ret = Cardinality(pkgs) /\ pcap[File(round)] = pkgs)

(* Where a packet of the capture comes from. *)
Source ==
  \A f \in pkgs : \/ round \in strayed
                  \/ f.round = round /\ (f.as = "asked" \/ round \in faulty)
                     /\ (f.as = "asked" /\ f.piece = 1 => round \in heard)

(* Where a fragment that has been sent has gone. *)
GoneTo(p) ==
  \/ round \in faulty \cup missed
  \/ \E f \in net : f.round = round /\ f.piece = p
  \/ \E f \in pkgs : f.flow = Call.flow /\ f.piece = p /\ f.as = "asked"

Sending ==
  /\ \A p \in 1 .. sent : GoneTo(p)
  /\ send = "ended" => sent >= 1 \/ round \in faulty
  /\ send = "sending" => sent < LastPiece(round)

(* What the board holds of this round is what its sniffer waits for. *)
Asked ==
  \A f \in net : f.round = round =>
    f.flow = Call.flow /\ f.mf = Mf(round) /\ f.port = SniffPort(Call.flag)

(* A round whose answer needs an excuse. *)
Excused(k) == k \in faulty \cup missed \cup strayed \/ \E f \in net : f.round = k

Settled ==
  \A i \in 1 .. Len(stat) :
    IF stat[i] THEN RoundOf(i) \in heard \cup strayed ELSE Excused(RoundOf(i))

IInv == Types /\ Answers /\ Capture /\ Source /\ Sending /\ Asked /\ Settled

-----------------------------------------------------------------------------
(* The two rounds of keyword c are 2c - 1 and 2c.                           *)
LEMMA RoundFacts ==
    ASSUME NEW k \in Rounds
    PROVE  /\ k \in Nat /\ CallOf(k) \in 1 .. Calls /\ Mf(k) \in 0 .. 1
           /\ k = 2 * CallOf(k) - 1 + Mf(k)
  BY PacketTestAssumption DEF Rounds, CallOf, Mf

LEMMA PieceFacts ==
    ASSUME NEW k \in Rounds
    PROVE  LastPiece(k) \in 1 .. Pieces
  BY PacketTestAssumption DEF LastPiece

LEMMA CallFacts ==
    ASSUME Types
    PROVE  /\ Call.flow \in Flows /\ Call.flag \in 0 .. 1
           /\ File(round) \in DOMAIN pcap
  <1>1. calls \in [1 .. Calls -> [flow : Flows, flag : 0 .. 1]]
    BY PacketTestAssumption DEF Types
  <1>2. CallOf(round) \in 1 .. Calls /\ Mf(round) \in 0 .. 1
    BY RoundFacts DEF Types
  <1> QED
    BY <1>1, <1>2 DEF Call, File, Types

LEMMA AnswerFacts ==
    ASSUME Types, Answers
    PROVE  /\ Len(stat) \in 0 .. 2
           /\ pc \in {"start", "join"} => RoundOf(Len(stat) + 1) = round
           /\ \A i \in 1 .. 2 : RoundOf(i) \in Int /\ CallOf(RoundOf(i)) = CallOf(round)
           /\ \A i \in 1 .. Len(stat) :
                i \in 1 .. 2 /\ (pc \in {"start", "join"} => RoundOf(i) < round)
  <1>1. round \in Rounds /\ Len(stat) \in Nat
    BY DEF Types
  <1>2. /\ CallOf(round) \in Nat /\ Mf(round) \in 0 .. 1 /\ round \in Nat
        /\ round = 2 * CallOf(round) - 1 + Mf(round)
    BY <1>1, RoundFacts, PacketTestAssumption
  <1>a. PICK m \in 0 .. 1, len \in Nat : m = Mf(round) /\ len = Len(stat)
    BY <1>1, <1>2
  <1>b. len = m \/ (len <= 2 /\ m = 1)
    BY <1>a DEF Answers, Types
  <1>3. Len(stat) \in 0 .. 2
    BY <1>a, <1>b
  <1>4. pc \in {"start", "join"} => RoundOf(Len(stat) + 1) = round
    BY <1>2 DEF Answers, RoundOf
  <1>5. ASSUME NEW i \in 1 .. 2
        PROVE  RoundOf(i) \in Int /\ CallOf(RoundOf(i)) = CallOf(round)
    <2>1. PICK c \in Nat : c = CallOf(round)
      BY <1>2
    <2>2. RoundOf(i) = 2 * c - 2 + i
      BY <2>1 DEF RoundOf
    <2>3. (2 * c - 2 + i + 1) \div 2 = c
      BY <2>1
    <2> QED
      BY <2>1, <2>2, <2>3 DEF CallOf
  <1>6. ASSUME NEW i \in 1 .. Len(stat)
        PROVE  i \in 1 .. 2 /\ (pc \in {"start", "join"} => RoundOf(i) < round)
    <2>1. i \in 1 .. 2 /\ (pc \in {"start", "join"} => i <= m)
      BY <1>a, <1>b DEF Answers
    <2>2. RoundOf(i) = 2 * CallOf(round) - 2 + i
      BY DEF RoundOf
    <2> QED
      BY <1>2, <1>a, <2>1, <2>2
  <1> QED
    BY <1>3, <1>4, <1>5, <1>6

-----------------------------------------------------------------------------
LEMMA InitHolds == Init => IInv
  <1> SUFFICES ASSUME Init PROVE IInv
    OBVIOUS
  <1>1. round = 1 /\ 1 \in Rounds /\ Mf(1) = 0
    BY PacketTestAssumption DEF Init, Rounds, Mf
  <1>2. Types
    BY <1>1, FS_EmptySet DEF Init, Types
  <1>3. Answers /\ Capture /\ Source /\ Asked
    BY <1>1 DEF Init, Answers, Capture, Source, Asked
  <1>4. Sending /\ Settled
    BY <1>1 DEF Init, Sending, Settled
  <1> QED
    BY <1>2, <1>3, <1>4 DEF IInv

(* An answer stays explained while its excuses stay.                        *)
LEMMA SettledStays ==
    ASSUME Types, Answers, Settled, UNCHANGED <<round, stat>>,
           heard \subseteq heard', strayed \subseteq strayed',
           \A k \in Int : /\ CallOf(k) = CallOf(round) /\ Excused(k)
                          /\ pc \in {"start", "join"} => k < round
                          => Excused(k)'
    PROVE  Settled'
  <1> SUFFICES ASSUME NEW i \in 1 .. Len(stat)
               PROVE  (IF stat[i] THEN RoundOf(i) \in heard \cup strayed ELSE Excused(RoundOf(i)))'
    BY DEF Settled
  <1>1. /\ RoundOf(i) \in Int /\ CallOf(RoundOf(i)) = CallOf(round)
        /\ pc \in {"start", "join"} => RoundOf(i) < round
    <2>1. i \in 1 .. 2
      BY AnswerFacts
    <2> QED
      BY <2>1, AnswerFacts
  <1>2. PICK k \in Int : k = RoundOf(i) /\ k = RoundOf(i)'
    BY <1>1 DEF RoundOf
  <1>3. IF stat[i] THEN k \in heard' \cup strayed' ELSE Excused(k)'
    BY <1>1, <1>2 DEF Settled
  <1> QED
    BY <1>2, <1>3 DEF Excused

(* Steps of the threads that leave the captured packets and the board alone. *)
LEMMA StartStep == IInv /\ Start => IInv'
  <1> SUFFICES ASSUME IInv, Start PROVE IInv'
    OBVIOUS
  <1>1. Types' /\ Answers' /\ Capture' /\ Source' /\ Asked'
    BY DEF IInv, Start, history, Types, Answers, Capture, Source, Asked, Call, File
  <1>2. Sending'
    BY PieceFacts DEF IInv, Start, history, Types, Answers, Sending
  <1>3. Settled'
    BY SettledStays DEF IInv, Start, history, Excused
  <1> QED
    BY <1>1, <1>2, <1>3 DEF IInv

LEMMA SniffOpenStep == IInv /\ SniffOpen => IInv'
  <1> SUFFICES ASSUME IInv, SniffOpen PROVE IInv'
    OBVIOUS
  <1>1. Types' /\ Answers' /\ Capture' /\ Source' /\ Asked'
    BY DEF IInv, SniffOpen, history, Types, Answers, Capture, Source, Asked, Call, File
  <1>2. Sending'
    BY DEF IInv, SniffOpen, history, Sending, GoneTo, Call
  <1>3. Settled'
    BY SettledStays DEF IInv, SniffOpen, history, Excused
  <1> QED
    BY <1>1, <1>2, <1>3 DEF IInv

LEMMA SendRaisesStep == IInv /\ SendRaises => IInv'
  <1> SUFFICES ASSUME IInv, SendRaises PROVE IInv'
    OBVIOUS
  <1>1. Types' /\ Answers' /\ Capture' /\ Source' /\ Asked'
    BY DEF IInv, SendRaises, Types, Answers, Capture, Source, Asked, Call, File
  <1>2. Sending'
    BY DEF IInv, SendRaises, Sending, GoneTo, Call
  <1>3. Settled'
    BY SettledStays DEF IInv, SendRaises, Excused
  <1> QED
    BY <1>1, <1>2, <1>3 DEF IInv

LEMMA SniffRaisesStep == IInv /\ SniffRaises => IInv'
  <1> SUFFICES ASSUME IInv, SniffRaises PROVE IInv'
    OBVIOUS
  <1>1. Types' /\ Answers' /\ Capture' /\ Source' /\ Asked'
    BY DEF IInv, SniffRaises, Types, Answers, Capture, Source, Asked, Call, File
  <1>2. Sending'
    BY DEF IInv, SniffRaises, Sending, GoneTo, Call
  <1>3. Settled'
    BY SettledStays DEF IInv, SniffRaises, Excused
  <1> QED
    BY <1>1, <1>2, <1>3 DEF IInv

(* The file is written, and then the number of packets returned.            *)
LEMMA SniffEndsStep == IInv /\ SniffEnds => IInv'
  <1> SUFFICES ASSUME IInv, SniffEnds PROVE IInv'
    OBVIOUS
  <1>1. Types' /\ Answers'
    BY FS_CardinalityType DEF IInv, SniffEnds, history, Types, Answers
  <1>2. Capture'
    BY CallFacts DEF IInv, SniffEnds, Capture, File
  <1>3. Source' /\ Asked' /\ Sending'
    BY DEF IInv, SniffEnds, history, Source, Asked, Call, Sending, GoneTo
  <1>4. Settled'
    BY SettledStays DEF IInv, SniffEnds, history, Excused
  <1> QED
    BY <1>1, <1>2, <1>3, <1>4 DEF IInv

(* A fragment goes into the board, or is lost for the board holds too much. *)
LEMMA SendFrameStep == IInv /\ SendFrame => IInv'
  <1> SUFFICES ASSUME IInv, SendFrame PROVE IInv'
    OBVIOUS
  <1> DEFINE new == [round |-> round, flow |-> Call.flow, mf |-> Mf(round), piece |-> sent + 1,
                     port |-> 1 - SendPort(Call.flag), as |-> "asked"]
  <1>1. /\ send = "sending" /\ sent' = sent + 1
        /\ send' = IF sent' = LastPiece(round) THEN "ended" ELSE send
        /\ UNCHANGED <<calls, round, pc, sniff, pkgs, ret, pcap, stat, missed, strayed, heard>>
        /\ \/ net' = net \cup {new} /\ faulty' = faulty
           \/ net' = net /\ faulty' = faulty \cup {round}
    BY DEF SendFrame
  <1>2. /\ round \in Rounds /\ round \in Nat /\ Mf(round) \in 0 .. 1 /\ sent \in Nat
        /\ LastPiece(round) \in 1 .. Pieces /\ sent < LastPiece(round)
        /\ pc = "join"
    BY <1>1, RoundFacts, PieceFacts DEF IInv, Types, Sending, Answers
  <1>3. Call.flow \in Flows /\ Call.flag \in 0 .. 1
    BY CallFacts DEF IInv
  <1>4. /\ new \in Frame /\ new.round = round /\ new.piece = sent + 1 /\ new.flow = Call.flow
        /\ new.mf = Mf(round) /\ new.port = SniffPort(Call.flag)
    <2>1. round \in 0 .. 2 * Calls /\ sent + 1 \in 1 .. Pieces
      BY <1>2, PacketTestAssumption DEF Rounds
    <2>2. 1 - SendPort(Call.flag) \in 0 .. 1 /\ 1 - SendPort(Call.flag) = SniffPort(Call.flag)
      BY <1>3 DEF SendPort, SniffPort
    <2> QED
      BY <1>2, <1>3, <2>1, <2>2 DEF Frame
  <1> HIDE DEF new
  <1>5. Types'
    BY <1>1, <1>2, <1>4 DEF IInv, Types
  <1>6. Answers' /\ Capture' /\ Source'
    BY <1>1, <1>2, <1>4 DEF IInv, Answers, Capture, Source, Call, File
  <1>7. Asked'
    BY <1>1, <1>4 DEF IInv, Asked, Call
  <1>8. Sending'
    <2>1. ASSUME NEW p \in 1 .. sent'
          PROVE  GoneTo(p)'
      <3>1. CASE p = sent + 1
        BY <1>1, <1>4, <3>1 DEF GoneTo
      <3>2. CASE p \in 1 .. sent
        BY <1>1, <3>2 DEF IInv, Sending, GoneTo, Call
      <3> QED
        BY <1>1, <1>2, <3>1, <3>2
    <2> QED
      BY <1>1, <1>2, <2>1 DEF Sending
  <1>9. Settled'
    <2>1. \A k \in Int : Excused(k) => Excused(k)'
      BY <1>1 DEF Excused
    <2> QED
      BY <1>1, <2>1, SettledStays DEF IInv
  <1> QED
    BY <1>5, <1>6, <1>7, <1>8, <1>9 DEF IInv

LEMMA LoseStep == ASSUME IInv, NEW f \in net, Lose(f) PROVE IInv'
  <1>1. /\ net' = net \ {f} /\ faulty' = faulty \cup Own(f)
        /\ UNCHANGED <<calls, round, pc, threads, pcap, stat, missed, strayed, heard>>
    BY DEF Lose
  <1>2. round \in Rounds /\ f.round \in Int
    BY PacketTestAssumption DEF IInv, Types, Frame
  <1>3. \A k \in Int : k = f.round /\ CallOf(k) = CallOf(round) => k \in faulty'
    BY <1>1 DEF Own
  <1>4. f.round = round => round \in faulty'
    BY <1>2, <1>3
  <1>5. Types' /\ Answers' /\ Capture' /\ Source' /\ Asked'
    BY <1>1 DEF IInv, Types, Answers, Capture, Source, Asked, Call, File, threads
  <1>6. Sending'
    BY <1>1, <1>4 DEF IInv, Sending, GoneTo, Call, threads
  <1>7. Settled'
    <2>1. \A k \in Int : CallOf(k) = CallOf(round) /\ Excused(k) => Excused(k)'
      BY <1>1, <1>3 DEF Excused
    <2> QED
      BY <1>1, <2>1, SettledStays DEF IInv
  <1> QED
    BY <1>5, <1>6, <1>7 DEF IInv

(* The board lets a packet out, and the sniffer captures it or does not.    *)
LEMMA ForwardStep ==
    ASSUME IInv, NEW f \in net, NEW as \in As, Forward(f, as)
    PROVE  IInv'
  <1> DEFINE own == sniff = "open" /\ f.round = round
             got == [f EXCEPT !.as = as]
  <1>1. /\ net' = net \ {f}
        /\ pkgs' = IF Captured(f) THEN pkgs \cup {got} ELSE pkgs
        /\ faulty' = IF as = "asked" THEN faulty ELSE faulty \cup Own(f)
        /\ missed' = IF own THEN missed ELSE missed \cup Own(f)
        /\ strayed' = IF Captured(f) /\ ~own THEN strayed \cup {round} ELSE strayed
        /\ heard' = IF own /\ as = "asked" /\ f.piece = 1 THEN heard \cup {round} ELSE heard
        /\ UNCHANGED <<calls, round, pc, send, sent, sniff, ret, pcap, stat>>
    BY DEF Forward
  <1>2. round \in Rounds /\ f \in Frame /\ f.round \in Int
    BY PacketTestAssumption DEF IInv, Types, Frame
  <1>3. /\ got \in Frame /\ got.round = f.round /\ got.piece = f.piece
        /\ got.flow = f.flow /\ got.as = as
    BY <1>2 DEF Frame, As
  <1> HIDE DEF got
  <1>4. \A k \in Int : k = f.round /\ CallOf(k) = CallOf(round) => k \in Own(f)
    BY DEF Own
  <1>5. own => Captured(f) /\ f.flow = Call.flow
    BY DEF IInv, Asked, Captured, Filter
  <1>6. Captured(f) => sniff = "open"
    BY DEF Captured
  <1> HIDE DEF own
  <1>7. Types'
    BY <1>1, <1>3, FS_AddElement DEF IInv, Types
  <1>8. Answers' /\ Capture' /\ Asked'
    BY <1>1, <1>6 DEF IInv, Answers, Capture, Asked, Call, File
  <1>9. Source'
    <2> SUFFICES ASSUME NEW g \in pkgs'
                 PROVE  \/ round \in strayed'
                        \/ g.round = round /\ (g.as = "asked" \/ round \in faulty')
                           /\ (g.as = "asked" /\ g.piece = 1 => round \in heard')
      BY <1>1 DEF Source
    <2>1. CASE g \in pkgs
      BY <1>1, <2>1 DEF IInv, Source
    <2>2. CASE Captured(f) /\ g = got /\ own
      <3>1. f.round = round
        BY <2>2 DEF own
      <3>2. as # "asked" => round \in faulty'
        BY <1>1, <1>2, <1>4, <3>1
      <3> QED
        BY <1>1, <1>3, <2>2, <3>1, <3>2
    <2>3. CASE Captured(f) /\ g = got /\ ~own
      BY <1>1, <2>3
    <2> QED
      BY <1>1, <2>1, <2>2, <2>3
  <1>10. ASSUME NEW p \in 1 .. sent
         PROVE  GoneTo(p)'
    <2>1. CASE f.round = round /\ f.piece = p
      <3>1. CASE own /\ as = "asked"
        BY <1>1, <1>3, <1>5, <2>1, <3>1 DEF GoneTo, Call
      <3>2. CASE ~(own /\ as = "asked")
        BY <1>1, <1>2, <1>4, <2>1, <3>2 DEF GoneTo
      <3> QED
        BY <3>1, <3>2
    <2>2. CASE ~(f.round = round /\ f.piece = p)
      BY <1>1, <2>2 DEF IInv, Sending, GoneTo, Call
    <2> QED
      BY <2>1, <2>2
  <1>11. Sending'
    BY <1>1, <1>10 DEF IInv, Sending
  <1>12. Settled'
    <2>1. ASSUME NEW k \in Int, CallOf(k) = CallOf(round), Excused(k),
                 pc \in {"start", "join"} => k < round
          PROVE  Excused(k)'
      <3>1. CASE f.round = k /\ own
        <4>1. k = round /\ pc = "join"
          BY <1>5, <1>6, <3>1 DEF own, IInv, Answers, Types
        <4> QED
          BY <1>2, <2>1, <4>1
      <3>2. CASE f.round = k /\ ~own
        BY <1>1, <1>4, <2>1, <3>2 DEF Excused
      <3>3. CASE f.round # k
        BY <1>1, <2>1, <3>3 DEF Excused
      <3> QED
        BY <3>1, <3>2, <3>3
    <2> QED
      BY <1>1, <2>1, SettledStays DEF IInv
  <1> QED
    BY <1>7, <1>8, <1>9, <1>11, <1>12 DEF IInv

(* A capture that is checked holds what it has counted, or a thread died.   *)
LEMMA TrueHeard ==
    ASSUME Types, Capture, Source, ret # 0, CheckPcap
    PROVE  round \in heard \cup strayed
  <1> DEFINE good == {f \in pkgs : f.flow = Call.flow /\ f.piece = 1 /\ f.as # "unasked"}
             bad == {f \in pkgs : f.as = "bad_sum"}
  <1>1. pcap[File(round)] = pkgs
    BY DEF Capture
  <1>2. Cardinality(good) > 0 /\ Cardinality(bad) = 0
    BY <1>1 DEF CheckPcap, Count, ChecksumError
  <1>3. IsFiniteSet(bad)
    BY FS_Subset DEF Types
  <1>4. good # {} /\ bad = {}
    BY <1>2, <1>3, FS_EmptySet
  <1>5. PICK f \in pkgs : f.piece = 1 /\ f.as # "unasked" /\ f.as # "bad_sum"
    BY <1>4
  <1>6. f.as = "asked"
    BY <1>5 DEF Types, Frame
  <1> QED
    BY <1>5, <1>6 DEF Source

LEMMA FalseExcused ==
    ASSUME Types, Capture, Source, Sending, send = "ended", sniff = "ended",
           ~(ret # 0 /\ CheckPcap)
    PROVE  Excused(round)
  <1> SUFFICES ASSUME ~Excused(round) PROVE FALSE
    OBVIOUS
  <1> DEFINE good == {f \in pkgs : f.flow = Call.flow /\ f.piece = 1 /\ f.as # "unasked"}
             bad == {f \in pkgs : f.as = "bad_sum"}
  <1>1. ret = Cardinality(pkgs) /\ pcap[File(round)] = pkgs /\ sent >= 1
    BY DEF Excused, Capture, Sending
  <1>2. PICK f \in pkgs : f.flow = Call.flow /\ f.piece = 1 /\ f.as = "asked"
    <2>1. GoneTo(1)
      BY <1>1 DEF Sending, Types
    <2> QED
      BY <2>1 DEF GoneTo, Excused
  <1>3. \A g \in pkgs : g.as = "asked"
    BY DEF Source, Excused
  <1>4. good # {} /\ bad = {} /\ pkgs # {}
    BY <1>2, <1>3
  <1>5. IsFiniteSet(good) /\ IsFiniteSet(pkgs)
    BY FS_Subset DEF Types
  <1>6. Cardinality(good) \in Nat /\ Cardinality(good) # 0 /\ Cardinality(pkgs) # 0
    BY <1>4, <1>5, FS_EmptySet, FS_CardinalityType
  <1>7. Cardinality(bad) = 0
    BY <1>4, FS_EmptySet
  <1> HIDE DEF good, bad
  <1>8. Count(pkgs) = Cardinality(good) /\ ChecksumError(pkgs) = Cardinality(bad)
    BY DEF Count, ChecksumError, good, bad
  <1> QED
    BY <1>1, <1>6, <1>7, <1>8 DEF CheckPcap

LEMMA CheckStep == IInv /\ Check => IInv'
  <1> SUFFICES ASSUME IInv, Check PROVE IInv'
    OBVIOUS
  <1> DEFINE answer == ret # 0 /\ CheckPcap
  <1>1. /\ pc = "join" /\ send = "ended" /\ sniff = "ended"
        /\ stat' = Append(stat, answer)
        /\ pc' = IF Mf(round) = 1 THEN "answer" ELSE "start"
        /\ round' = IF Mf(round) = 1 THEN round ELSE round + 1
        /\ send' = "no" /\ sent' = 0 /\ sniff' = "no" /\ pkgs' = {} /\ ret' = 0
        /\ UNCHANGED <<calls, pcap, net, history>>
    BY DEF Check
  <1>2. /\ answer \in BOOLEAN
        /\ IF answer THEN round \in heard \cup strayed ELSE Excused(round)
    BY <1>1, TrueHeard, FalseExcused DEF IInv
  <1> HIDE DEF answer
  <1>3. PICK c \in 1 .. Calls, m \in 0 .. 1 :
          /\ c = CallOf(round) /\ m = Mf(round) /\ Len(stat) = m
          /\ round \in Nat /\ round = 2 * c - 1 + m
    BY <1>1, RoundFacts DEF IInv, Types, Answers
  <1>4. /\ round' \in Rounds /\ CallOf(round') = c /\ Mf(round') = 1
        /\ round <= round' /\ (m = 0 => round < round')
    <2>1. CASE m = 0
      <3>1. round' = 2 * c /\ 2 * c \in Rounds
        BY <1>1, <1>3, <2>1, PacketTestAssumption DEF Rounds
      <3>2. (2 * c + 1) \div 2 = c /\ (2 * c + 1) % 2 = 1
        OBVIOUS
      <3> QED
        BY <1>3, <2>1, <3>1, <3>2 DEF CallOf, Mf
    <2>2. CASE m = 1
      BY <1>1, <1>3, <2>2 DEF IInv, Types
    <2> QED
      BY <2>1, <2>2
  <1>5. Types'
    <2>1. stat' \in Seq(BOOLEAN)
      BY <1>1, <1>2, AppendProperties DEF IInv, Types
    <2> QED
      BY <1>1, <1>4, <2>1, FS_EmptySet DEF IInv, Types
  <1>6. Len(stat') = m + 1
    <2>1. stat' = Append(stat, answer) /\ stat \in Seq(BOOLEAN)
      BY <1>1 DEF IInv, Types
    <2>2. Len(Append(stat, answer)) = Len(stat) + 1
      BY <1>2, <2>1, AppendProperties
    <2> QED
      BY <1>3, <2>1, <2>2
  <1>7. Answers'
    <2>1. \A f \in net : f.round \in Nat /\ f.round <= round
      BY PacketTestAssumption DEF IInv, Answers, Types, Frame
    <2>2. \A f \in net' : f.round <= round'
      <3>1. round \in Nat /\ round' \in Nat /\ round <= round'
        BY <1>3, <1>4 DEF Rounds
      <3> QED
        BY <1>1, <2>1, <3>1
    <2>3. CASE m = 0
      BY <1>1, <1>3, <1>4, <1>6, <2>2, <2>3 DEF Answers
    <2>4. CASE m = 1
      BY <1>1, <1>3, <1>4, <1>6, <2>2, <2>4 DEF Answers
    <2> QED
      BY <2>3, <2>4
  <1>8. Capture' /\ Source' /\ Sending'
    BY <1>1 DEF Capture, Source, Sending
  <1>9. Asked'
    <2>1. CASE m = 0
      <3>1. \A f \in net : f.round # round'
        BY <1>3, <1>4, <2>1, PacketTestAssumption DEF IInv, Answers, Types, Frame
      <3> QED
        BY <1>1, <3>1 DEF Asked
    <2>2. CASE m = 1
      BY <1>1, <1>3, <2>2 DEF IInv, Asked, Call
    <2> QED
      BY <2>1, <2>2
  <1>10. Settled'
    <2> SUFFICES ASSUME NEW i \in 1 .. m + 1
                 PROVE  (IF stat[i] THEN RoundOf(i) \in heard \cup strayed ELSE Excused(RoundOf(i)))'
      BY <1>6 DEF Settled
    <2>1. RoundOf(i)' = RoundOf(i) /\ RoundOf(i) = 2 * c - 2 + i
      BY <1>3, <1>4 DEF RoundOf
    <2>2. \A k : Excused(k) => Excused(k)'
      BY <1>1 DEF Excused, history
    <2>3. CASE i \in 1 .. m
      <3>1. stat'[i] = stat[i]
        BY <1>1, <1>2, <1>3, <2>3, AppendProperties DEF IInv, Types
      <3>2. IF stat[i] THEN RoundOf(i) \in heard \cup strayed ELSE Excused(RoundOf(i))
        BY <1>3, <2>3 DEF IInv, Settled
      <3> QED
        BY <1>1, <2>1, <2>2, <3>1, <3>2 DEF history, Excused
    <2>4. CASE i = m + 1
      <3>1. stat'[i] = answer
        <4>1. Append(stat, answer)[Len(stat) + 1] = answer
          BY <1>2, AppendProperties DEF IInv, Types
        <4> QED
          BY <1>1, <1>3, <2>4, <4>1
      <3>2. RoundOf(i) = round
        <4>1. 2 * c - 2 + i = round
          <5>1. c \in Int /\ m \in Int /\ round = 2 * c - 1 + m
            BY <1>3, PacketTestAssumption
          <5> QED
            BY <2>4, <5>1
        <4> QED
          BY <2>1, <4>1
      <3> QED
        BY <1>1, <1>2, <2>1, <2>2, <3>1, <3>2 DEF history, Excused
    <2> QED
      BY <1>3, <2>3, <2>4
  <1> QED
    BY <1>5, <1>7, <1>8, <1>9, <1>10 DEF IInv

(* A check that raises ends the keyword with the answers there are. *)
LEMMA CheckRaisesStep == IInv /\ CheckRaises => IInv'
  <1> SUFFICES ASSUME IInv, CheckRaises PROVE IInv'
    OBVIOUS
  <1>1. /\ pc = "join" /\ pc' = "answer" /\ round' = 2 * CallOf(round)
        /\ send' = "no" /\ sent' = 0 /\ sniff' = "no" /\ pkgs' = {} /\ ret' = 0
        /\ UNCHANGED <<calls, pcap, net, stat, history>>
    BY DEF CheckRaises
  <1>2. PICK c \in 1 .. Calls, m \in 0 .. 1 :
          /\ c = CallOf(round) /\ m = Mf(round) /\ Len(stat) = m
          /\ round \in Nat /\ round = 2 * c - 1 + m
    BY <1>1, RoundFacts DEF IInv, Types, Answers
  <1>3. /\ round' = 2 * c /\ round' \in Rounds /\ CallOf(round') = c /\ Mf(round') = 1
        /\ round <= round' /\ (m = 0 => round < round')
    <2>1. 2 * c \in Rounds /\ 2 * c - 1 + m <= 2 * c /\ (m = 0 => 2 * c - 1 + m < 2 * c)
      BY PacketTestAssumption DEF Rounds
    <2>2. (2 * c + 1) \div 2 = c /\ (2 * c + 1) % 2 = 1
      OBVIOUS
    <2> QED
      BY <1>1, <1>2, <2>1, <2>2 DEF CallOf, Mf
  <1>4. Types'
    BY <1>1, <1>3, FS_EmptySet DEF IInv, Types
  <1>5. Answers'
    <2>1. \A f \in net : f.round \in Nat /\ f.round <= round
      BY PacketTestAssumption DEF IInv, Answers, Types, Frame
    <2>2. \A f \in net' : f.round <= round'
      <3>1. round \in Nat /\ round' \in Nat /\ round <= round'
        BY <1>2, <1>3 DEF Rounds
      <3> QED
        BY <1>1, <2>1, <3>1
    <2>3. Len(stat') <= 2
      BY <1>1, <1>2
    <2> QED
      BY <1>1, <1>3, <2>2, <2>3 DEF Answers
  <1>6. Capture' /\ Source' /\ Sending'
    BY <1>1 DEF Capture, Source, Sending
  <1>7. Asked'
    <2>1. CASE m = 0
      <3>1. \A f \in net : f.round # round'
        BY <1>2, <1>3, <2>1, PacketTestAssumption DEF IInv, Answers, Types, Frame
      <3> QED
        BY <1>1, <3>1 DEF Asked
    <2>2. CASE m = 1
      <3>1. round' = round
        <4>1. c \in Int /\ m \in Int /\ round = 2 * c - 1 + m /\ m = 1
          BY <1>2, <2>2, PacketTestAssumption
        <4>2. 2 * c - 1 + m = 2 * c
          BY <4>1
        <4> QED
          BY <1>3, <4>1, <4>2
      <3> QED
        BY <1>1, <3>1 DEF IInv, Asked, Call
    <2> QED
      BY <2>1, <2>2
  <1>8. Settled'
    <2>1. \A i : RoundOf(i)' = RoundOf(i)
      BY <1>2, <1>3 DEF RoundOf
    <2> QED
      BY <1>1, <2>1 DEF IInv, Settled, Excused, history
  <1> QED
    BY <1>4, <1>5, <1>6, <1>7, <1>8 DEF IInv

(* The next keyword begins with no answers, and with what is still on its   *)
(* way of earlier rounds.                                                   *)
LEMMA NextKeywordStep == IInv /\ NextKeyword => IInv'
  <1> SUFFICES ASSUME IInv, NextKeyword PROVE IInv'
    OBVIOUS
  <1>1. CASE round = 2 * Calls
    <2>1. pc' = "done" /\ UNCHANGED <<round, stat, history, calls, threads, pcap, net>> /\ pc = "answer"
      BY <1>1 DEF NextKeyword
    <2>2. Types' /\ Answers' /\ Capture' /\ Source' /\ Asked' /\ Sending'
      BY <2>1 DEF IInv, Types, Answers, Capture, Source, Asked, Sending, GoneTo, Call, File, threads, history
    <2>3. Settled'
      BY <2>1, SettledStays DEF IInv, Excused, history
    <2> QED
      BY <2>2, <2>3 DEF IInv
  <1>2. CASE round # 2 * Calls
    <2>1. /\ pc = "answer" /\ pc' = "start" /\ round' = round + 1 /\ stat' = <<>>
          /\ UNCHANGED <<calls, threads, pcap, net>>
      BY <1>2 DEF NextKeyword
    <2>2. PICK c \in 1 .. Calls : round = 2 * c /\ round \in Nat /\ c < Calls
      <3>1. /\ round \in Nat /\ CallOf(round) \in 1 .. Calls /\ Mf(round) = 1
            /\ round = 2 * CallOf(round) - 1 + Mf(round)
        BY <2>1, RoundFacts DEF IInv, Types, Answers
      <3>2. PICK c \in 1 .. Calls : c = CallOf(round) /\ round = 2 * c
        BY <3>1
      <3> QED
        BY <1>2, <3>1, <3>2, PacketTestAssumption
    <2>3. round' \in Rounds /\ Mf(round') = 0
      <3>1. round' = 2 * c + 1 /\ 2 * c + 1 \in Rounds
        BY <2>1, <2>2, PacketTestAssumption DEF Rounds
      <3>2. (2 * c + 1 + 1) % 2 = 0
        OBVIOUS
      <3> QED
        BY <3>1, <3>2 DEF Mf
    <2>4. \A f \in net : f.round \in Nat /\ f.round < round'
      BY <2>1, <2>2, PacketTestAssumption DEF IInv, Answers, Types, Frame
    <2>5. stat' \in Seq(BOOLEAN) /\ Len(stat') = 0
      BY <2>1
    <2>6. pkgs = {} /\ ret = 0 /\ sniff = "no" /\ send = "no"
      BY <2>1 DEF IInv, Answers
    <2>7. sent = 0
      BY <2>1 DEF IInv, Answers
    <2> QED
      BY <2>1, <2>3, <2>4, <2>5, <2>6, <2>7
         DEF IInv, Types, Answers, Capture, Source, Asked, Sending, Settled, threads
  <1> QED
    BY <1>1, <1>2

-----------------------------------------------------------------------------
THEOREM PacketTestInductive == Spec => []IInv
  <1>1. IInv /\ [Next]_vars => IInv'
    <2> SUFFICES ASSUME IInv, [Next]_vars PROVE IInv'
      OBVIOUS
    <2>1. CASE UNCHANGED vars
      <3>1. Types' /\ Answers' /\ Capture' /\ Source' /\ Asked' /\ Sending'
        BY <2>1 DEF IInv, vars, threads, history, Types, Answers, Capture, Source, Asked,
                    Sending, GoneTo, Call, File
      <3>2. Settled'
        BY <2>1, SettledStays DEF IInv, vars, threads, history, Excused
      <3> QED
        BY <3>1, <3>2 DEF IInv
    <2>2. CASE Board
      BY <2>2, LoseStep, ForwardStep DEF Board, As
    <2>3. CASE Test
      BY <2>3, StartStep, CheckStep, CheckRaisesStep, NextKeywordStep DEF Test
    <2>4. CASE Sender
      BY <2>4, SendFrameStep, SendRaisesStep DEF Sender
    <2>5. CASE Sniffer
      BY <2>5, SniffOpenStep, SniffEndsStep, SniffRaisesStep DEF Sniffer
    <2> QED
      BY <2>1, <2>2, <2>3, <2>4, <2>5 DEF Next
  <1> QED
    BY InitHolds, <1>1, PTL DEF Spec

(* True is never said for what an earlier capture left in the file: in each *)
(* round the board forwarded the packet as asked, or one strayed in.        *)
THEOREM TruthIsForwarded == Spec => []TrueMeansForwarded
  <1>1. IInv => TrueMeansForwarded
    BY DEF IInv, Settled, TrueMeansForwarded
  <1> QED
    BY <1>1, PacketTestInductive, PTL

(* False is never said without a cause.                                     *)
THEOREM FalsehoodHasACause == Spec => []FalseHasACause
  <1>1. IInv => FalseHasACause
    BY DEF IInv, Settled, FalseHasACause, Excused
  <1> QED
    BY <1>1, PacketTestInductive, PTL

-----------------------------------------------------------------------------
\* A round of the keyword under way is a round.
LEMMA OwnRounds ==
  ASSUME Types, NEW f \in net
  PROVE  Own(f) \subseteq Rounds
  <1>1. PICK c \in Nat \ {0} : c = Calls
    BY PacketTestAssumption
  <1>2. PICK k \in 0 .. 2 * c : k = f.round
    BY <1>1 DEF Types, Frame
  <1>3. PICK n \in 1 .. 2 * c : n = round
    BY <1>1 DEF Types, Rounds
  <1>4. (k + 1) \div 2 = (n + 1) \div 2 => k # 0
    BY <1>1
  <1> QED
    BY <1>1, <1>2, <1>3, <1>4 DEF Own, CallOf, Rounds

\* The files, the pieces and the rounds of the history stay in range.
LEMMA RestOfTypes ==
  ASSUME IInv, IInv', TypeOK, [Next]_vars
  PROVE  TypeOK'
  <1>1. Types' /\ Types
    BY DEF IInv
  <1>2. sent' \in 0 .. Pieces
    <2>1. CASE SendFrame
      <3>1. PICK p \in Nat \ {0} : p = Pieces
        BY PacketTestAssumption
      <3>2. sent \in 0 .. p /\ sent < LastPiece(round) /\ sent' = sent + 1
        BY <2>1, <3>1 DEF SendFrame, TypeOK, IInv, Sending
      <3>3. LastPiece(round) = 1 \/ LastPiece(round) = p
        BY <3>1 DEF LastPiece
      <3> QED
        BY <3>1, <3>2, <3>3
    <2>2. CASE sent' = sent \/ sent' = 0
      BY <2>2, PacketTestAssumption DEF TypeOK
    <2> QED
      BY <2>1, <2>2 DEF Next, Test, Start, Check, CheckRaises, NextKeyword, Sender, SendRaises, Sniffer, SniffOpen,
                        SniffEnds, SniffRaises, Board, Lose, Forward, threads, vars
  <1>3. pcap' \in [Flows \X (0 .. 1) -> SUBSET Frame]
    <2>1. CASE SniffEnds
      BY <1>1, <2>1 DEF SniffEnds, TypeOK, Types
    <2>2. CASE pcap' = pcap
      BY <2>2 DEF TypeOK
    <2> QED
      BY <2>1, <2>2 DEF Next, Test, Start, Check, CheckRaises, NextKeyword, Sender, SendFrame, SendRaises, Sniffer,
                        SniffOpen, SniffRaises, Board, Lose, Forward, vars
  <1>4. (faulty \cup missed \cup strayed \cup heard)' \subseteq Rounds
    <2>1. round \in Rounds /\ faulty \cup missed \cup strayed \cup heard \subseteq Rounds
      BY <1>1 DEF Types, TypeOK
    <2>2. CASE Board
      <3>1. PICK f \in net : Lose(f) \/ \E as \in {"asked", "unasked", "bad_sum"} : Forward(f, as)
        BY <2>2 DEF Board
      <3>2. Own(f) \subseteq Rounds
        BY <1>1, OwnRounds
      <3>3. CASE Lose(f)
        BY <2>1, <3>2, <3>3 DEF Lose
      <3>4. CASE \E as \in {"asked", "unasked", "bad_sum"} : Forward(f, as)
        BY <2>1, <3>2, <3>4 DEF Forward
      <3> QED
        BY <3>1, <3>3, <3>4
    <2>3. CASE Test \/ Sender \/ Sniffer \/ UNCHANGED vars
      BY <2>1, <2>3 DEF Test, Start, Check, CheckRaises, NextKeyword, Sender, SendFrame, SendRaises, Sniffer, SniffOpen,
                        SniffEnds, SniffRaises, vars, history
    <2> QED
      BY <2>2, <2>3 DEF Next
  <1> QED
    BY <1>1, <1>2, <1>3, <1>4 DEF Types, TypeOK

(* The test, its two threads, the files and the board stay in range: no     *)
(* more pieces are sent than a packet has, and only rounds of the suite are *)
(* spoken of.                                                               *)
THEOREM TypeCorrect == Spec => []TypeOK
  <1>1. Init => TypeOK
    <2> SUFFICES ASSUME Init PROVE TypeOK
      OBVIOUS
    <2>1. \A name \in Flows \X (0 .. 1) : OldFile(name) \subseteq Frame
      BY PacketTestAssumption DEF OldFile, Frame
    <2>2. pcap \in [Flows \X (0 .. 1) -> SUBSET Frame]
      BY <2>1 DEF Init
    <2>3. 0 \in 0 .. Pieces /\ 1 \in Rounds
      BY PacketTestAssumption DEF Rounds
    <2> QED
      BY <2>2, <2>3 DEF Init, TypeOK
  <1>2. IInv /\ IInv' /\ TypeOK /\ [Next]_vars => TypeOK'
    BY RestOfTypes
  <1> QED
    BY <1>1, <1>2, PacketTestInductive, PTL DEF Spec

=============================================================================
