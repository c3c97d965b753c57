----------------------------- MODULE PacketTest -----------------------------
(***************************************************************************)
(* Packet tests (ScpLibrary): forward_udp_check_udp and its three sisters  *)
(* send a packet into the board at one network card and capture what it    *)
(* forwards at the other, once with a single packet (mf = 0) and once with *)
(* a fragmented one (mf = 1).  A round starts the thread that captures and *)
(* the thread that sends with nothing between the two, waits for both, and *)
(* checks the file of the capture.  The board forwards, loses or spoils.   *)
(***************************************************************************)
EXTENDS Integers, Sequences, FiniteSets, SequencesExt

CONSTANTS Flows,    \* addresses, ports and tunnel: a protocol's flows
          Calls,    \* how many forward_* keywords a suite calls
          Suites,   \* what it may call: a flow and an updownflag each
          Pieces,   \* the fragments of a fragmented packet
          Hold      \* how many frames the board holds: what comes on top is lost

ASSUME PacketTestAssumption ==
  /\ Suites \subseteq [1 .. Calls -> [flow : Flows, flag : 0 .. 1]]
  /\ Calls \in Nat \ {0} /\ Pieces \in Nat \ {0} /\ Hold \in Nat \ {0}

\* A keyword has two rounds: 2c - 1 is the first of keyword c.
Rounds == 1 .. 2 * Calls
CallOf(k) == (k + 1) \div 2
Mf(k) == (k + 1) % 2
LastPiece(k) == IF Mf(k) = 0 THEN 1 ELSE Pieces

Frame == [round : 0 .. 2 * Calls, flow : Flows, mf : 0 .. 1, piece : 1 .. Pieces,
          port : 0 .. 1, as : {"asked", "unasked", "bad_sum"}]

VARIABLES calls,     \* the flow and the updownflag of each keyword
          round,     \* the round under way
          pc,        \* of the test: start, join, answer or done
          send,      \* the sending thread: no, sending or ended
          sent,      \* the pieces it has sent
          sniff,     \* the capturing thread: no, opening, open or ended
          pkgs,      \* what it captured
          ret,       \* ret[0]: how many they were
          pcap,      \* the frames in each file
          net,       \* frames inside the board
          stat,      \* a and b: the answers of the rounds of this keyword
          \* history, of the rounds of this keyword
          faulty,    \* those with a frame lost or spoiled, or a thread dead
          missed,    \* those with a frame that passed outside their capture
          strayed,   \* those that captured a frame of another round
          heard      \* those whose capture was open when the board forwarded as asked

threads == <<send, sent, sniff, pkgs, ret>>
history == <<faulty, missed, strayed, heard>>
vars == <<calls, round, pc, threads, pcap, net, stat, history>>

Call == calls[CallOf(round)]
\* The cards of the bench by the flag: eth[flag ^ 1] and eth[flag ^ 0].
SendPort(flag) == 1 - flag
SniffPort(flag) == flag
File(k) == <<calls[CallOf(k)].flow, Mf(k)>>

\* A file of an earlier session, with a frame that would do.
OldFile(name) ==
  {[round |-> 0, flow |-> name[1], mf |-> name[2], piece |-> 1, port |-> 0, as |-> "asked"]}

Init ==
  /\ calls \in Suites
  /\ round = 1 /\ pc = "start"
  /\ send = "no" /\ sent = 0 /\ sniff = "no" /\ pkgs = {} /\ ret = 0
  /\ pcap = [name \in Flows \X (0 .. 1) |-> OldFile(name)]
  /\ net = {} /\ stat = <<>>
  /\ faulty = {} /\ missed = {} /\ strayed = {} /\ heard = {}

-----------------------------------------------------------------------------
\* sniff_task.start() and send_task.start(): either may be the first to run.
Start ==
  /\ pc = "start" /\ pc' = "join"
  /\ sniff' = "opening" /\ send' = "sending"
  /\ UNCHANGED <<calls, round, sent, pkgs, ret, pcap, net, stat, history>>

\* One sendp.
SendFrame ==
  /\ send = "sending"
  /\ sent' = sent + 1
  /\ send' = IF sent' = LastPiece(round) THEN "ended" ELSE send
  /\ \/ /\ Cardinality(net) < Hold
        /\ net' = net \cup {[round |-> round, flow |-> Call.flow, mf |-> Mf(round),
                             piece |-> sent + 1, port |-> 1 - SendPort(Call.flag),
                             as |-> "asked"]}
        /\ UNCHANGED faulty
     \/ /\ Cardinality(net) = Hold
        /\ faulty' = faulty \cup {round} /\ UNCHANGED net
  /\ UNCHANGED <<calls, round, pc, sniff, pkgs, ret, pcap, stat, missed, strayed, heard>>

\* sendp raises: the thread dies, and nobody is told.
SendRaises ==
  /\ send = "sending" /\ send' = "ended"
  /\ faulty' = faulty \cup {round}
  /\ UNCHANGED <<calls, round, pc, sent, sniff, pkgs, ret, pcap, net, stat, missed, strayed, heard>>

\* sniff: from here on the card is listened to.
SniffOpen ==
  /\ sniff = "opening" /\ sniff' = "open"
  /\ UNCHANGED <<calls, round, pc, send, sent, pkgs, ret, pcap, net, stat, history>>

\* Mutant: no timeout, the first packet ends the capture.
BugSniffEnds ==
  /\ sniff = "open" /\ pkgs # {} /\ sniff' = "ended"
  /\ pcap' = [pcap EXCEPT ![File(round)] = pkgs]
  /\ ret' = Cardinality(pkgs)
  /\ UNCHANGED <<calls, round, pc, send, sent, pkgs, net, stat, history>>

\* The five seconds are over: wrpcap, and only then the number of packets.
SniffEnds ==
  /\ sniff = "open" /\ sniff' = "ended"
  /\ pcap' = [pcap EXCEPT ![File(round)] = pkgs]
  /\ ret' = Cardinality(pkgs)
  /\ UNCHANGED <<calls, round, pc, send, sent, pkgs, net, stat, history>>

\* sniff or wrpcap raises: ret[0] stays 0 and the file as it was.
SniffRaises ==
  /\ sniff \in {"opening", "open"} /\ sniff' = "ended"
  /\ faulty' = faulty \cup {round}
  /\ UNCHANGED <<calls, round, pc, send, sent, pkgs, ret, pcap, net, stat, missed, strayed, heard>>

-----------------------------------------------------------------------------
\* Mutant: the tag of the single packet is looked for in both rounds.
BugFilter(f) == f.mf = 0 /\ f.port = SniffPort(Call.flag)

\* What the sniffer lets through: the tag "dtm." if mf = 0, else fragments.
Filter(f) == f.mf = Mf(round) /\ f.port = SniffPort(Call.flag)

Captured(f) == sniff = "open" /\ Filter(f)

\* The frame's round, if it is one of this keyword's.
Own(f) == {k \in {f.round} : CallOf(k) = CallOf(round)}

\* The board lets a frame out, rewritten as asked, or not as asked, or with a
\* checksum that is wrong; it is captured if the sniffer listens.
Forward(f, as) ==
  LET own == sniff = "open" /\ f.round = round
  IN /\ net' = net \ {f}
     /\ pkgs' = IF Captured(f) THEN pkgs \cup {[f EXCEPT !.as = as]}
                               ELSE pkgs
     /\ faulty' = IF as = "asked" THEN faulty ELSE faulty \cup Own(f)
     /\ missed' = IF own THEN missed ELSE missed \cup Own(f)
     /\ strayed' = IF Captured(f) /\ ~own THEN strayed \cup {round} ELSE strayed
     /\ heard' = IF own /\ as = "asked" /\ f.piece = 1 THEN heard \cup {round} ELSE heard
     /\ UNCHANGED <<calls, round, pc, send, sent, sniff, ret, pcap, stat>>

Lose(f) ==
  /\ net' = net \ {f} /\ faulty' = faulty \cup Own(f)
  /\ UNCHANGED <<calls, round, pc, threads, pcap, stat, missed, strayed, heard>>

-----------------------------------------------------------------------------
\* The ports are in the first fragment only, and so is the tunnel's number.
Count(pkt) == Cardinality({f \in pkt : f.flow = Call.flow /\ f.piece = 1 /\ f.as # "unasked"})
ChecksumError(pkt) == Cardinality({f \in pkt : f.as = "bad_sum"})

CheckPcap == LET pkt == pcap[File(round)] IN Count(pkt) > 0 /\ ChecksumError(pkt) = 0

\* Mutant: the file is checked whatever the capture returned.
BugCheck ==
  /\ pc = "join" /\ send = "ended" /\ sniff = "ended"
  /\ stat' = Append(stat, CheckPcap)
  /\ pc' = IF Mf(round) = 1 THEN "answer" ELSE "start"
  /\ round' = IF Mf(round) = 1 THEN round ELSE round + 1
  /\ send' = "no" /\ sent' = 0 /\ sniff' = "no" /\ pkgs' = {} /\ ret' = 0
  /\ UNCHANGED <<calls, pcap, net, history>>

\* Both threads joined, the rest of the round.  The second round follows, or the
\* keyword's answer.
Check ==
  /\ pc = "join" /\ send = "ended" /\ sniff = "ended"
  /\ stat' = Append(stat, ret # 0 /\ CheckPcap)
  /\ pc' = IF Mf(round) = 1 THEN "answer" ELSE "start"
  /\ round' = IF Mf(round) = 1 THEN round ELSE round + 1
  /\ send' = "no" /\ sent' = 0 /\ sniff' = "no" /\ pkgs' = {} /\ ret' = 0
  /\ UNCHANGED <<calls, pcap, net, history>>

\* rdpcap, pyshark or a packet without the layer asked for raises: the keyword
\* fails, without the answers of the round and of those to come.
CheckRaises ==
  /\ pc = "join" /\ send = "ended" /\ sniff = "ended" /\ ret # 0
  /\ pc' = "answer" /\ round' = 2 * CallOf(round)
  /\ send' = "no" /\ sent' = 0 /\ sniff' = "no" /\ pkgs' = {} /\ ret' = 0
  /\ UNCHANGED <<calls, pcap, net, stat, history>>

\* The keyword has returned: the suite goes on with the next.
NextKeyword ==
  /\ pc = "answer"
  /\ IF round = 2 * Calls THEN pc' = "done" /\ UNCHANGED <<round, stat, history>>
     ELSE /\ pc' = "start" /\ round' = round + 1 /\ stat' = <<>>
          /\ faulty' = {} /\ missed' = {} /\ strayed' = {} /\ heard' = {}
  /\ UNCHANGED <<calls, threads, pcap, net>>

-----------------------------------------------------------------------------
Test == Start \/ Check \/ CheckRaises \/ NextKeyword
Sender == SendFrame \/ SendRaises
Sniffer == SniffOpen \/ SniffEnds \/ SniffRaises
Board == \E f \in net : Lose(f) \/ \E as \in {"asked", "unasked", "bad_sum"} : Forward(f, as)

Next == Test \/ Sender \/ Sniffer \/ Board

Spec == Init /\ [][Next]_vars

\* The threads run, and a capture has a timeout.  The board need do nothing, and
\* no exception is counted on.
FairSpec ==
  Spec /\ WF_vars(Test) /\ WF_vars(SendFrame) /\ WF_vars(SniffOpen) /\ WF_vars(SniffEnds)

-----------------------------------------------------------------------------
TypeOK ==
  /\ calls \in Suites
  /\ round \in Rounds
  /\ pc \in {"start", "join", "answer", "done"}
  /\ send \in {"no", "sending", "ended"} /\ sent \in 0 .. Pieces
  /\ sniff \in {"no", "opening", "open", "ended"}
  /\ pkgs \subseteq Frame /\ ret \in Nat
  /\ pcap \in [Flows \X (0 .. 1) -> SUBSET Frame]
  /\ net \subseteq Frame /\ stat \in Seq(BOOLEAN)
  /\ faulty \cup missed \cup strayed \cup heard \subseteq Rounds

\* The rounds of this keyword, by the place of their answer in stat.
RoundOf(i) == 2 * CallOf(round) - 2 + i

(* A keyword answers True only if in each of its rounds the board forwarded*)
(* the packet as asked, and not for what an earlier capture left in the    *)
(* file; unless a packet of another round came so late that it was captured*)
(* in this one (scptool.py:47-61, SniffPacket.py:12-17).                   *)
TrueMeansForwarded ==
  Len(stat) = 2 /\ stat[1] /\ stat[2] => {RoundOf(1), RoundOf(2)} \subseteq heard \cup strayed

(* A round is False only for a cause: the board lost or spoiled a packet, a*)
(* thread died, a packet of another round strayed in, or one passed, or is *)
(* still to pass, outside its own capture (scptool.py:47-55,               *)
(* CheckPacket.py:22).                                                     *)
FalseHasACause ==
  \A k \in 1 .. Len(stat) : ~stat[k] =>
    \/ RoundOf(k) \in faulty \cup missed \cup strayed
    \/ \E f \in net : f.round = RoundOf(k)

(* The suite comes to its end whatever the board does and whichever thread *)
(* dies: a capture of nothing ends by its timeout (SniffPacket.py:13).     *)
EveryRoundEnds == <>(pc = "done")

(* A round is False only if the board, or a thread, failed.  Violated: the *)
(* packet is back before the capture is open (scptool.py:47-48).           *)
FalseIsTheBoards ==
  \A k \in 1 .. Len(stat) : ~stat[k] =>
    RoundOf(k) \in faulty \/ \E f \in net : f.round = RoundOf(k)
=============================================================================
