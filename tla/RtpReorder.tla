------------------------------ MODULE RtpReorder ------------------------------
(***************************************************************************)
(* The RTP reordering window of the native engine                          *)
(* (bridge/apps/native/src/webrtc/peer.cpp, handle_rtp_packet and          *)
(* flush_reordered_packets): packets of one camera track arrive late,      *)
(* twice, out of order or not at all; they are handed to the RTSP server   *)
(* in sequence-number order, and the video track tells the server when a   *)
(* packet has been given up.                                               *)
(*                                                                         *)
(* Sequence numbers are wire numbers: they wrap at Space.  Each packet     *)
(* also has the index at which the camera sent it, which the code cannot   *)
(* see: the properties compare what was handed on with what was sent.      *)
(*                                                                         *)
(* One thread runs the handler of a track to its end, so a delivery is one *)
(* action; what the RTSP server does meanwhile is module RtspFanout's.     *)
(***************************************************************************)
EXTENDS Integers, Sequences, FiniteSetsExt

CONSTANTS
  Half,         (* half of the sequence number space (32768)               *)
  ResyncBack,   (* farther back than this is a new stream (200)            *)
  ResyncFwd,    (* farther ahead than this is a new stream (2000)          *)
  MaxPending,   (* packets that end the wait for a missing one (8 or 6)    *)
  Delay,        (* network: a packet arrives before Delay later ones left  *)
  Burst,        (* network: packets that may pass unseen in one go         *)
  MaxRestarts,  (* bound: times the camera restarts its numbering          *)
  MaxSent       (* bound: packets sent                                     *)

ASSUME WindowAssumption ==
  /\ Half \in Nat /\ ResyncBack \in Nat /\ ResyncFwd \in Nat /\ MaxPending \in Nat
  /\ 0 < MaxPending /\ ResyncBack < Half /\ ResyncFwd + 1 < Half

ASSUME NetworkAssumption ==
  /\ Delay \in Nat \ {0} /\ Burst \in Nat \ {0} /\ MaxRestarts \in Nat /\ MaxSent \in Nat

VARIABLES
  sent,         (* packets the camera has sent                             *)
  wire,         (* the sequence number of its next one                     *)
  flight,       (* packets the network may still deliver                   *)
  restarts,     (* times the camera has restarted its numbering            *)
  rx,           (* RtpReorderState of the track                            *)
  base,         (* the index of the packet expected_seq stands for         *)
  out,          (* the packets the last step handed to the RTSP server     *)
  told          (* the last step called notify_video_discontinuity first   *)

reorderVars == <<sent, wire, flight, restarts, rx, base, out, told>>

Space == 2 * Half
Seqs == 0..(Space - 1)
RtpPacket == [idx : Nat, seq : Seqs]

(* uint16_t arithmetic: s + k, s - e, and s - e as an int16_t.             *)
Plus(s, k) == IF s + k < Space THEN s + k ELSE s + k - Space
Ahead(s, e) == IF s >= e THEN s - e ELSE s - e + Space

(* Faulty variant: the difference is not read as a signed number.          *)
DistanceUnsigned(s, e) == Ahead(s, e)

Distance(s, e) == IF Ahead(s, e) < Half THEN Ahead(s, e) ELSE Ahead(s, e) - Space

(***************************************************************************)
(* flush_reordered_packets.                                                *)
(***************************************************************************)
SeqsOf(S) == {p.seq : p \in S}

(* How many packets of S follow one another from e on.                     *)
RunLength(e, S) == Min({k \in 0..(ResyncFwd + 1) : Plus(e, k) \notin SeqsOf(S)})

Run(e, S) == [i \in 1..RunLength(e, S) |-> CHOOSE p \in S : p.seq = Plus(e, i - 1)]

RunSet(e, S) == {p \in S : Ahead(p.seq, e) < RunLength(e, S)}

AfterRun(e, S) == Plus(e, RunLength(e, S))

(* Faulty variant: the first key of the map, whatever the numbers wrap to. *)
NearestByKey(e, S) == CHOOSE p \in S : \A q \in S : p.seq <= q.seq

Nearest(e, S) == CHOOSE p \in S : \A q \in S : Ahead(p.seq, e) <= Ahead(q.seq, e)

(* Faulty variants: the window counts as full by what was in it before the *)
(* run left; a jump is never told.                                         *)
FlushCountsFirst(e, S) ==
  LET e1 == AfterRun(e, S)
      S1 == S \ RunSet(e, S)
      n  == IF Cardinality(S) < MaxPending \/ S1 = {} THEN e1 ELSE Nearest(e1, S1).seq
  IN  [ready |-> Run(e, S) \o Run(n, S1), expected |-> AfterRun(n, S1),
       pending |-> S1 \ RunSet(n, S1), discontinuity |-> Ahead(n, e1) > 0]

FlushSilent(e, S) ==
  LET e1 == AfterRun(e, S)
      S1 == S \ RunSet(e, S)
      n  == IF Cardinality(S1) < MaxPending THEN e1 ELSE Nearest(e1, S1).seq
  IN  [ready |-> Run(e, S) \o Run(n, S1), expected |-> AfterRun(n, S1),
       pending |-> S1 \ RunSet(n, S1), discontinuity |-> FALSE]

(* Hand on the run from e.  When MaxPending packets still wait behind a    *)
(* hole, give the hole up: jump to the nearest and hand on its run.        *)
Flush(e, S) ==
  LET e1 == AfterRun(e, S)
      S1 == S \ RunSet(e, S)
      n  == Nearest(e1, S1).seq
  IN  IF Cardinality(S1) < MaxPending
      THEN [ready |-> Run(e, S), expected |-> e1, pending |-> S1, discontinuity |-> FALSE]
      ELSE [ready |-> Run(e, S) \o Run(n, S1), expected |-> AfterRun(n, S1),
            pending |-> S1 \ RunSet(n, S1), discontinuity |-> Ahead(n, e1) > 0]

(***************************************************************************)
(* The camera and the network.                                             *)
(***************************************************************************)
Initial == [init |-> FALSE, expected |-> 0, pending |-> {}]

ReorderInit ==
  /\ sent = 0 /\ flight = {} /\ restarts = 0 /\ base = 0
  /\ wire \in Seqs
  /\ rx = Initial
  /\ out = <<>> /\ told = FALSE

(* The camera sends; what left Delay packets ago can no longer arrive.     *)
Send ==
  /\ sent < MaxSent
  /\ rx.init => sent - base < Burst
  /\ sent' = sent + 1
  /\ wire' = Plus(wire, 1)
  /\ flight' = {p \in flight : p.idx + Delay > sent} \union {[idx |-> sent, seq |-> wire]}
  /\ out' = <<>> /\ told' = FALSE
  /\ UNCHANGED <<restarts, rx, base>>

(* The camera starts again from another number.                            *)
Restart ==
  /\ restarts < MaxRestarts
  /\ restarts' = restarts + 1
  /\ wire' \in Seqs
  /\ out' = <<>> /\ told' = FALSE
  /\ UNCHANGED <<sent, flight, rx, base>>

(* The peer connection reports Connected: both windows start afresh.       *)
Connected ==
  /\ rx' = Initial
  /\ out' = <<>> /\ told' = FALSE
  /\ UNCHANGED <<sent, wire, flight, restarts, base>>

(***************************************************************************)
(* handle_rtp_packet.                                                      *)
(***************************************************************************)
Expected(p) == IF rx.init THEN rx.expected ELSE p.seq

Resyncs(p) ==
  \/ Distance(p.seq, Expected(p)) < -ResyncBack
  \/ Distance(p.seq, Expected(p)) > ResyncFwd

Late(p) == ~Resyncs(p) /\ Distance(p.seq, Expected(p)) < 0

(* try_emplace keeps the packet that came first.                           *)
Held(S, p) == IF p.seq \in SeqsOf(S) THEN S ELSE S \union {p}

Flushed(p) ==
  IF Resyncs(p) THEN Flush(p.seq, {p}) ELSE Flush(Expected(p), Held(rx.pending, p))

(* A packet whose number has passed only makes sure the window is open.    *)
DropLate(p) ==
  /\ p \in flight /\ Late(p)
  /\ out' = <<>> /\ told' = FALSE
  /\ UNCHANGED <<sent, wire, flight, restarts, rx, base>>

(* The network keeps the packet: it may arrive again.                      *)
Deliver(p) ==
  /\ p \in flight /\ ~Late(p)
  /\ LET f == Flushed(p)
     IN  /\ rx' = [init |-> TRUE, expected |-> f.expected, pending |-> f.pending]
         /\ out' = f.ready
         /\ told' = f.discontinuity
         /\ base' = IF f.ready = <<>> THEN base ELSE f.ready[Len(f.ready)].idx + 1
  /\ UNCHANGED <<sent, wire, flight, restarts>>

ReorderNext ==
  \/ Send \/ Restart \/ Connected
  \/ \E p \in flight : DropLate(p) \/ Deliver(p)

ReorderSpec == ReorderInit /\ [][ReorderNext]_reorderVars

(***************************************************************************)
(* Properties.                                                             *)
(***************************************************************************)

(* Type invariant.                                                         *)
ReorderTypeOK ==
  /\ sent \in Nat /\ base \in Nat /\ restarts \in Nat
  /\ wire \in Seqs
  /\ flight \in SUBSET RtpPacket
  /\ rx \in [init : BOOLEAN, expected : Seqs, pending : SUBSET RtpPacket]
  /\ out \in Seq(RtpPacket)
  /\ told \in BOOLEAN

(* What waits is strictly ahead of what is expected, under different       *)
(* numbers and within the window, also where the numbers wrap, and a       *)
(* missing packet is waited for by fewer than MaxPending others: "without  *)
(* allowing a genuinely lost packet to stall the stream forever".          *)
PendingAhead ==
  /\ \A p \in rx.pending : Ahead(p.seq, rx.expected) \in 1..ResyncFwd
  /\ \A p, q \in rx.pending : p.seq = q.seq => p = q
  /\ IsFiniteSet(rx.pending) /\ Cardinality(rx.pending) < MaxPending

(* The run handed on in one call has no holes: the flush never jumps in    *)
(* the middle of what it hands on.                                         *)
OneRun == \A i \in 1..Len(out) : out[i].seq = Plus(out[1].seq, i - 1)

(* The server is told of a hole before the packets behind it, and never    *)
(* before packets in front of it: it would make its clients wait for a     *)
(* keyframe that has just gone by.  The two loops of the flush never both  *)
(* hand on packets.                                                        *)
ToldAtTheHole ==
  [][told' => rx.init /\ out' # <<>> /\ out'[1].seq # rx.expected]_reorderVars

(* Packets go on in the order in which the camera sent them, each at most  *)
(* once in a connection, whatever the network repeats or reorders, as long *)
(* as none is later than the window looks back and the numbers are not     *)
(* restarted.                                                              *)
InOrder ==
  [][rx.init /\ restarts' = 0 => \A i \in 1..Len(out') :
       /\ out'[i].idx >= base
       /\ out'[i].idx = out'[1].idx + i - 1]_reorderVars

(* A packet is passed over only when the server is told: as long as no     *)
(* more than ResyncFwd packets in a row are missing and the numbers are    *)
(* not restarted.                                                          *)
HoleIsTold ==
  [][rx.init /\ restarts' = 0 /\ out' # <<>> /\ out'[1].idx # base => told']_reorderVars
=============================================================================
