----------------------------- MODULE MediaProofs -----------------------------
(***************************************************************************)
(* Proofs about the way of a packet from the network to the clients, for   *)
(* every window, number space, length of a keyframe and number of clients, *)
(* whatever is lost: first what the reordering window hands on             *)
(* (RtpReorder), then what the RTSP server makes of it (RtspFanout).       *)
(*                                                                         *)
(* The two meet where RtspFanout feeds packets in the camera's order and   *)
(* tells of a hole before the packet behind it: that is what KeepsOrder,   *)
(* TellsAtTheHole and TellsEveryHole prove of the window.                  *)
(***************************************************************************)
EXTENDS RtpReorder, RtspFanout, FiniteSetTheorems, SequenceTheorems, WellFoundedInduction,
        TLAPS

(***************************************************************************)
(* Arithmetic of wrapping numbers.                                         *)
(***************************************************************************)

(* The window fits into the number space.                                  *)
LEMMA WindowFits ==
  /\ Space \in Nat /\ ResyncFwd \in Nat /\ MaxPending \in Nat
  /\ 0 < MaxPending /\ ResyncFwd + 1 < Space
BY WindowAssumption DEF Space

(* The two operations stay in their ranges.                                *)
LEMMA WrapType ==
  /\ \A s \in Seqs, k \in 0..(Space - 1) : Plus(s, k) \in Seqs
  /\ \A s, e \in Seqs : Ahead(s, e) \in 0..(Space - 1)
BY WindowAssumption DEF Plus, Ahead, Seqs, Space

(* They are inverse to one another.                                        *)
LEMMA WrapInverse ==
  /\ \A s \in Seqs, k \in 0..(Space - 1) : Ahead(Plus(s, k), s) = k
  /\ \A s, e \in Seqs : Plus(e, Ahead(s, e)) = s
BY WindowAssumption DEF Plus, Ahead, Seqs, Space

(* Distances measured from a later origin.                                 *)
LEMMA WrapShift ==
  ASSUME NEW s \in Seqs, NEW e \in Seqs, NEW k \in 0..(Space - 1), k <= Ahead(s, e)
  PROVE  Ahead(s, Plus(e, k)) = Ahead(s, e) - k
BY WindowAssumption DEF Plus, Ahead, Seqs, Space

(* Steps add up.                                                           *)
LEMMA WrapAdd ==
  ASSUME NEW s \in Seqs, NEW k \in Nat, NEW j \in Nat, k + j < Space
  PROVE  Plus(Plus(s, k), j) = Plus(s, k + j)
BY WindowAssumption DEF Plus, Seqs, Space

(* A set of naturals that is not empty has a minimum.                      *)
LEMMA MinExists ==
  ASSUME NEW T \in SUBSET Nat, T # {}
  PROVE  \E x \in T : \A y \in T : x <= y
<1>1. \E x \in T : \A y \in T : ~(<<y, x>> \in OpToRel(<, Nat))
  BY NatLessThanWellFounded, WFMin, Zenon
<1>2. PICK x \in T : \A y \in T : ~(<<y, x>> \in OpToRel(<, Nat))
  BY <1>1
<1>3. \A y \in T : ~(y < x)
  BY <1>2, Zenon DEF OpToRel
<1> QED
  BY <1>3

LEMMA MinIsLeast ==
  ASSUME NEW T \in SUBSET Nat, T # {}
  PROVE  Min(T) \in T /\ \A y \in T : Min(T) <= y
BY MinExists DEF Min

(***************************************************************************)
(* The flush.                                                              *)
(***************************************************************************)

(* A run ends at the first number that is missing.                         *)
LEMMA RunLengthIs ==
  ASSUME NEW e \in Seqs, NEW S \in SUBSET RtpPacket,
         \A p \in S : Ahead(p.seq, e) <= ResyncFwd
  PROVE  /\ RunLength(e, S) \in 0..(ResyncFwd + 1)
         /\ Plus(e, RunLength(e, S)) \notin SeqsOf(S)
         /\ \A k \in 0..(RunLength(e, S) - 1) : Plus(e, k) \in SeqsOf(S)
<1> DEFINE T == {k \in 0..(ResyncFwd + 1) : Plus(e, k) \notin SeqsOf(S)}
<1>1. ResyncFwd + 1 \in T
  <2>1. ResyncFwd + 1 \in 0..(ResyncFwd + 1) /\ ResyncFwd + 1 \in 0..(Space - 1)
    BY WindowFits
  <2>2. Ahead(Plus(e, ResyncFwd + 1), e) = ResyncFwd + 1
    BY <2>1, WrapInverse
  <2>3. ASSUME NEW p \in S PROVE p.seq # Plus(e, ResyncFwd + 1)
    BY <2>2, WindowFits
  <2>4. Plus(e, ResyncFwd + 1) \notin SeqsOf(S)
    BY <2>3 DEF SeqsOf
  <2> QED
    BY <2>1, <2>4
<1>2. T \in SUBSET Nat /\ T # {}
  BY <1>1, WindowFits
<1> HIDE DEF T
<1>3. Min(T) \in T /\ \A k \in T : Min(T) <= k
  BY <1>2, MinIsLeast
<1>4. Min(T) = RunLength(e, S)
  BY DEF RunLength, T
<1>5. RunLength(e, S) \in 0..(ResyncFwd + 1) /\ Plus(e, RunLength(e, S)) \notin SeqsOf(S)
  BY <1>3, <1>4 DEF T
<1>6. ASSUME NEW k \in 0..(RunLength(e, S) - 1) PROVE Plus(e, k) \in SeqsOf(S)
  <2>1. k \in 0..(ResyncFwd + 1) /\ ~(RunLength(e, S) <= k)
    BY <1>5, WindowFits
  <2>2. k \notin T
    BY <1>3, <1>4, <2>1
  <2> QED
    BY <2>1, <2>2 DEF T
<1> QED
  BY <1>5, <1>6

(* The packets of a run, in the order of their numbers.                    *)
LEMMA RunIs ==
  ASSUME NEW e \in Seqs, NEW S \in SUBSET RtpPacket,
         \A p \in S : Ahead(p.seq, e) <= ResyncFwd
  PROVE  /\ Run(e, S) \in Seq(S)
         /\ Len(Run(e, S)) = RunLength(e, S)
         /\ \A i \in 1..RunLength(e, S) :
              Run(e, S)[i] \in S /\ Run(e, S)[i].seq = Plus(e, i - 1)
<1> DEFINE n == RunLength(e, S)
           r == Run(e, S)
<1>1. n \in Nat /\ \A k \in 0..(n - 1) : \E p \in S : p.seq = Plus(e, k)
  BY RunLengthIs, WindowFits DEF SeqsOf
<1>2. ASSUME NEW i \in 1..n PROVE r[i] \in S /\ r[i].seq = Plus(e, i - 1)
  <2>1. i - 1 \in 0..(n - 1)
    BY <1>1
  <2>2. \E p \in S : p.seq = Plus(e, i - 1)
    BY <1>1, <2>1
  <2>3. r[i] = CHOOSE p \in S : p.seq = Plus(e, i - 1)
    BY DEF Run
  <2> QED
    BY <2>2, <2>3
<1>3. r = [i \in 1..n |-> r[i]]
  BY DEF Run
<1>4. r \in [1..n -> S]
  BY <1>2, <1>3
<1>5. r \in Seq(S) /\ Len(r) = n
  BY <1>1, <1>4
<1> QED
  BY <1>2, <1>5

(* What is left when the run from e has gone.                              *)
LEMMA AfterRunIs ==
  ASSUME NEW e \in Seqs, NEW S \in SUBSET RtpPacket,
         \A p \in S : Ahead(p.seq, e) <= ResyncFwd
  PROVE  /\ AfterRun(e, S) \in Seqs
         /\ Ahead(AfterRun(e, S), e) = RunLength(e, S)
         /\ \A p \in S \ RunSet(e, S) :
              /\ Ahead(p.seq, AfterRun(e, S)) = Ahead(p.seq, e) - RunLength(e, S)
              /\ Ahead(p.seq, AfterRun(e, S)) \in 1..ResyncFwd
<1> DEFINE n == RunLength(e, S)
<1>1. n \in 0..(Space - 1) /\ n \in 0..(ResyncFwd + 1) /\ Plus(e, n) \notin SeqsOf(S)
  BY RunLengthIs, WindowFits
<1>2. AfterRun(e, S) \in Seqs /\ Ahead(AfterRun(e, S), e) = n
  BY <1>1, WrapType, WrapInverse DEF AfterRun
<1>3. ASSUME NEW p \in S \ RunSet(e, S)
      PROVE  /\ Ahead(p.seq, AfterRun(e, S)) = Ahead(p.seq, e) - n
             /\ Ahead(p.seq, AfterRun(e, S)) \in 1..ResyncFwd
  <2>1. p.seq \in Seqs /\ Ahead(p.seq, e) \in 0..(Space - 1) /\ Ahead(p.seq, e) <= ResyncFwd
    BY <1>3, WrapType DEF RtpPacket
  <2>2. ~(Ahead(p.seq, e) < n)
    BY <1>3 DEF RunSet
  <2>3. Ahead(p.seq, e) # n
    BY <1>1, <2>1, WrapInverse DEF SeqsOf
  <2>4. Ahead(p.seq, Plus(e, n)) = Ahead(p.seq, e) - n
    BY <1>1, <2>1, <2>2, WrapShift
  <2> QED
    BY <1>1, <2>1, <2>2, <2>3, <2>4, WindowFits DEF AfterRun
<1> QED
  BY <1>2, <1>3

(* The nearest of the packets that wait.                                   *)
LEMMA NearestIs ==
  ASSUME NEW e \in Seqs, NEW S \in SUBSET RtpPacket, S # {}
  PROVE  /\ Nearest(e, S) \in S
         /\ \A q \in S : Ahead(Nearest(e, S).seq, e) <= Ahead(q.seq, e)
<1> DEFINE T == {Ahead(q.seq, e) : q \in S}
<1>1. T \in SUBSET Nat /\ T # {}
  <2>1. ASSUME NEW q \in S PROVE Ahead(q.seq, e) \in Nat
    <3>1. q.seq \in Seqs
      BY DEF RtpPacket
    <3>2. Ahead(q.seq, e) \in 0..(Space - 1)
      BY <3>1, WrapType
    <3> QED
      BY <3>2, WindowFits
  <2>2. T \in SUBSET Nat
    BY <2>1
  <2>3. T # {}
    OBVIOUS
  <2> QED
    BY <2>2, <2>3
<1>2. PICK x \in T : \A y \in T : x <= y
  BY <1>1, MinExists
<1>3. PICK p \in S : x = Ahead(p.seq, e)
  BY <1>2
<1>4. \A q \in S : Ahead(p.seq, e) <= Ahead(q.seq, e)
  BY <1>2, <1>3
<1> QED
  BY <1>3, <1>4 DEF Nearest

(***************************************************************************)
(* What a flush from e hands on and keeps.                                 *)
(***************************************************************************)
FlushInput(e, S) ==
  /\ S \subseteq RtpPacket /\ IsFiniteSet(S) /\ Cardinality(S) <= MaxPending
  /\ \A p, q \in S : p.seq = q.seq => p = q
  /\ \A p \in S : Ahead(p.seq, e) <= ResyncFwd

FlushOutput(e, S, f) ==
  /\ f.expected \in Seqs /\ f.pending \subseteq S /\ f.ready \in Seq(S)
  /\ f.discontinuity \in BOOLEAN
  /\ \A p \in f.pending : Ahead(p.seq, f.expected) \in 1..ResyncFwd
  /\ IsFiniteSet(f.pending) /\ Cardinality(f.pending) < MaxPending
  /\ f.ready = <<>> => f.expected = e /\ f.pending = S /\ ~f.discontinuity
  /\ f.ready # <<>> =>
       \E k \in 0..ResyncFwd :
         /\ \A i \in 1..Len(f.ready) : f.ready[i].seq = Plus(e, k + i - 1)
         /\ k + Len(f.ready) <= ResyncFwd + 1
         /\ f.expected = Plus(e, k + Len(f.ready))
         /\ \A p \in f.pending : Ahead(p.seq, e) > k + Len(f.ready)
         /\ f.discontinuity <=> k # 0

(* One run, from e.                                                        *)
LEMMA FlushRun ==
  ASSUME NEW e \in Seqs, NEW S, FlushInput(e, S),
         Cardinality(S \ RunSet(e, S)) < MaxPending
  PROVE  FlushOutput(e, S, Flush(e, S))
<1> DEFINE f == Flush(e, S)
           n == RunLength(e, S)
           S1 == S \ RunSet(e, S)
<1>1. S \in SUBSET RtpPacket /\ \A p \in S : Ahead(p.seq, e) <= ResyncFwd
  BY DEF FlushInput
<1>2. n \in 0..(ResyncFwd + 1) /\ n \in Nat
  BY <1>1, RunLengthIs, WindowFits
<1>3. f = [ready |-> Run(e, S), expected |-> AfterRun(e, S), pending |-> S1,
           discontinuity |-> FALSE]
  BY DEF Flush
<1>4. f.ready \in Seq(S) /\ Len(f.ready) = n
      /\ \A i \in 1..n : f.ready[i].seq = Plus(e, i - 1)
  BY <1>1, <1>3, RunIs
<1>5. f.expected \in Seqs /\ f.expected = Plus(e, n)
      /\ \A p \in f.pending : Ahead(p.seq, f.expected) \in 1..ResyncFwd
                             /\ Ahead(p.seq, f.expected) = Ahead(p.seq, e) - n
  BY <1>1, <1>3, AfterRunIs DEF AfterRun
<1>6. IsFiniteSet(f.pending) /\ Cardinality(f.pending) < MaxPending /\ f.pending \subseteq S
  <2>1. IsFiniteSet(S) /\ S1 \in SUBSET S
    BY DEF FlushInput
  <2> QED
    BY <1>3, <2>1, FS_Subset
<1>7. f.ready = <<>> => f.expected = e /\ f.pending = S /\ ~f.discontinuity
  <2>1. f.ready = <<>> => n = 0
    BY <1>4
  <2>3. n = 0 => RunSet(e, S) = {}
    <3>1. \A p \in S : Ahead(p.seq, e) \in 0..(Space - 1)
      BY <1>1, WrapType DEF RtpPacket
    <3>2. \A p \in S : ~(Ahead(p.seq, e) < 0)
      BY <3>1, WindowFits
    <3> QED
      BY <3>2 DEF RunSet
  <2>2. Plus(e, 0) = e
    BY WindowFits DEF Plus, Seqs
  <2> QED
    BY <1>3, <1>5, <2>1, <2>2, <2>3
<1>8. f.ready # <<>> =>
       \E k \in 0..ResyncFwd :
         /\ \A i \in 1..Len(f.ready) : f.ready[i].seq = Plus(e, k + i - 1)
         /\ k + Len(f.ready) <= ResyncFwd + 1
         /\ f.expected = Plus(e, k + Len(f.ready))
         /\ \A p \in f.pending : Ahead(p.seq, e) > k + Len(f.ready)
         /\ f.discontinuity <=> k # 0
  <2>1. \A p \in f.pending : Ahead(p.seq, e) > n
    <3>1. \A p \in S : Ahead(p.seq, e) \in Int
      BY <1>1, WrapType, WindowFits DEF RtpPacket
    <3> QED
      BY <1>2, <1>5, <1>6, <3>1, WindowFits
  <2>2. 0 \in 0..ResyncFwd /\ 0 + n = n /\ n <= ResyncFwd + 1 /\ \A i \in 1..n : 0 + i - 1 = i - 1
    BY <1>2, WindowFits
  <2>3. f.discontinuity = FALSE
    BY <1>3
  <2> HIDE DEF f, n
  <2> QED
    BY <1>4, <1>5, <2>1, <2>2, <2>3
<1>9. f.discontinuity \in BOOLEAN
  BY <1>3
<1> HIDE DEF f
<1>10. FlushOutput(e, S, f)
  BY <1>4, <1>5, <1>6, <1>7, <1>8, <1>9 DEF FlushOutput
<1> QED
  BY <1>10 DEF f

(* MaxPending packets wait behind a hole: nothing followed e, and one run  *)
(* goes from the nearest.                                                  *)
LEMMA FlushJump ==
  ASSUME NEW e \in Seqs, NEW S, FlushInput(e, S),
         ~(Cardinality(S \ RunSet(e, S)) < MaxPending)
  PROVE  FlushOutput(e, S, Flush(e, S))
<1> DEFINE f == Flush(e, S)
           S1 == S \ RunSet(e, S)
           q == Nearest(e, S)
           k == Ahead(q.seq, e)
           m == RunLength(q.seq, S)
<1>1. S \in SUBSET RtpPacket /\ \A p \in S : Ahead(p.seq, e) <= ResyncFwd
  BY DEF FlushInput
<1>2. S1 = S /\ Cardinality(S) = MaxPending
  <2>1. IsFiniteSet(S) /\ Cardinality(S) <= MaxPending /\ S1 \in SUBSET S
    BY DEF FlushInput
  <2>2. Cardinality(S1) \in Nat /\ Cardinality(S) \in Nat /\ Cardinality(S1) <= Cardinality(S)
    BY <2>1, FS_Subset, FS_CardinalityType
  <2>3. Cardinality(S1) = Cardinality(S) /\ Cardinality(S) = MaxPending
    BY <2>1, <2>2, WindowFits
  <2> QED
    BY <2>1, <2>3, FS_Subset
<1>3. RunLength(e, S) = 0
  <2>1. RunLength(e, S) \in Nat
        /\ \A j \in 0..(RunLength(e, S) - 1) : Plus(e, j) \in SeqsOf(S)
    BY <1>1, RunLengthIs, WindowFits
  <2>2. SUFFICES ASSUME RunLength(e, S) > 0 PROVE FALSE
    BY <2>1
  <2>3. 0 \in 0..(RunLength(e, S) - 1) /\ 0 \in 0..(Space - 1)
    BY <2>1, <2>2, WindowFits
  <2>4. PICK p \in S : p.seq = Plus(e, 0)
    BY <2>1, <2>3 DEF SeqsOf
  <2>5. Ahead(p.seq, e) = 0
    BY <2>3, <2>4, WrapInverse
  <2>6. p \in RunSet(e, S)
    BY <2>2, <2>5 DEF RunSet
  <2> QED
    BY <1>2, <2>6
<1>4. Run(e, S) = <<>>
  <2>1. Run(e, S) \in Seq(S) /\ Len(Run(e, S)) = 0
    BY <1>1, <1>3, RunIs
  <2> QED
    BY <2>1, EmptySeq
<1>5. AfterRun(e, S) = e
  BY <1>3, WindowFits DEF AfterRun, Plus, Seqs
<1>6. S # {}
  BY <1>2, FS_EmptySet, WindowFits
<1>7. q \in S /\ q.seq \in Seqs /\ \A p \in S : k <= Ahead(p.seq, e)
  BY <1>1, <1>6, NearestIs DEF RtpPacket
<1>8. k \in 1..ResyncFwd /\ k \in 0..(Space - 1) /\ Plus(e, k) = q.seq
  <2>1. k \in 0..(Space - 1) /\ k <= ResyncFwd
    BY <1>1, <1>7, WrapType
  <2>2. k # 0
    <3>1. Plus(e, 0) \notin SeqsOf(S)
      BY <1>1, <1>3, RunLengthIs
    <3>2. Plus(e, k) = q.seq
      BY <1>7, WrapInverse
    <3> QED
      BY <1>7, <3>1, <3>2 DEF SeqsOf
  <2> QED
    BY <1>7, <2>1, <2>2, WrapInverse, WindowFits
<1>9. \A p \in S : /\ Ahead(p.seq, e) \in Nat
                  /\ Ahead(p.seq, q.seq) = Ahead(p.seq, e) - k
                  /\ Ahead(p.seq, q.seq) <= ResyncFwd - k
  <2> SUFFICES ASSUME NEW p \in S
               PROVE  /\ Ahead(p.seq, e) \in Nat
                      /\ Ahead(p.seq, q.seq) = Ahead(p.seq, e) - k
                      /\ Ahead(p.seq, q.seq) <= ResyncFwd - k
    OBVIOUS
  <2>1. p.seq \in Seqs /\ Ahead(p.seq, e) <= ResyncFwd /\ k <= Ahead(p.seq, e)
    BY <1>1, <1>7 DEF RtpPacket
  <2>2. Ahead(p.seq, Plus(e, k)) = Ahead(p.seq, e) - k
    BY <1>8, <2>1, WrapShift
  <2>3. Ahead(p.seq, e) \in Nat
    <3>1. Ahead(p.seq, e) \in 0..(Space - 1)
      BY <2>1, WrapType
    <3> QED
      BY <3>1
  <2> QED
    BY <1>8, <2>1, <2>2, <2>3, WindowFits
<1>10. \A p \in S : Ahead(p.seq, q.seq) <= ResyncFwd
  BY <1>8, <1>9, WindowFits
<1>11. m \in Nat /\ m >= 1 /\ k + m <= ResyncFwd + 1
  <2>1. m \in 0..(ResyncFwd + 1) /\ Plus(q.seq, m) \notin SeqsOf(S)
        /\ \A j \in 0..(m - 1) : Plus(q.seq, j) \in SeqsOf(S)
    BY <1>1, <1>7, <1>10, RunLengthIs
  <2>2. m # 0
    <3>1. Plus(q.seq, 0) = q.seq
      BY <1>7, WindowFits DEF Plus, Seqs
    <3> QED
      BY <1>7, <2>1, <3>1 DEF SeqsOf
  <2>3. m - 1 \in 0..(m - 1) /\ m - 1 \in 0..(Space - 1)
    BY <2>1, <2>2, WindowFits
  <2>4. PICK p \in S : p.seq = Plus(q.seq, m - 1)
    BY <2>1, <2>3 DEF SeqsOf
  <2>5. Ahead(p.seq, q.seq) = m - 1
    BY <1>7, <2>3, <2>4, WrapInverse
  <2> QED
    BY <1>8, <1>9, <2>1, <2>2, <2>4, <2>5, WindowFits
<1>12. f = [ready |-> Run(q.seq, S), expected |-> AfterRun(q.seq, S),
            pending |-> S \ RunSet(q.seq, S), discontinuity |-> k > 0]
  <2>1. Run(q.seq, S) \in Seq(S)
    BY <1>1, <1>7, <1>10, RunIs
  <2>2. <<>> \o Run(q.seq, S) = Run(q.seq, S)
    BY <2>1, ConcatEmptySeq
  <2> QED
    BY <1>2, <1>4, <1>5, <2>2 DEF Flush
<1>13. /\ f.ready \in Seq(S) /\ Len(f.ready) = m
       /\ \A i \in 1..m : f.ready[i].seq = Plus(q.seq, i - 1)
  BY <1>1, <1>7, <1>10, <1>12, RunIs
<1>14. /\ f.expected \in Seqs /\ f.expected = Plus(q.seq, m)
       /\ \A p \in f.pending : /\ Ahead(p.seq, f.expected) \in 1..ResyncFwd
                              /\ Ahead(p.seq, f.expected) = Ahead(p.seq, q.seq) - m
  BY <1>1, <1>7, <1>10, <1>12, AfterRunIs DEF AfterRun
<1>15. f.pending \subseteq S /\ IsFiniteSet(f.pending) /\ Cardinality(f.pending) < MaxPending
  <2>1. Ahead(q.seq, q.seq) = 0
    BY <1>7 DEF Ahead, Seqs
  <2>2. q \in RunSet(q.seq, S)
    BY <1>7, <1>11, <2>1 DEF RunSet
  <2>3. IsFiniteSet(S) /\ f.pending \in SUBSET S /\ f.pending # S
    BY <1>7, <1>12, <2>2 DEF FlushInput
  <2>4. IsFiniteSet(f.pending) /\ Cardinality(f.pending) <= Cardinality(S)
        /\ Cardinality(S) # Cardinality(f.pending)
    BY <2>3, FS_Subset
  <2>5. Cardinality(f.pending) \in Nat /\ Cardinality(S) \in Nat
    BY <2>3, <2>4, FS_CardinalityType
  <2> QED
    BY <1>2, <2>3, <2>4, <2>5
<1>16. f.ready # <<>>
  BY <1>11, <1>13, EmptySeq
<1>17. \A j \in 0..m : Plus(q.seq, j) = Plus(e, k + j)
  <2> SUFFICES ASSUME NEW j \in 0..m PROVE Plus(q.seq, j) = Plus(e, k + j)
    OBVIOUS
  <2>1. j \in Nat /\ k \in Nat /\ k + j < Space
    BY <1>8, <1>11, WindowFits
  <2> QED
    BY <1>8, <2>1, WrapAdd
<1>18. \E kk \in 0..ResyncFwd :
         /\ \A i \in 1..Len(f.ready) : f.ready[i].seq = Plus(e, kk + i - 1)
         /\ kk + Len(f.ready) <= ResyncFwd + 1
         /\ f.expected = Plus(e, kk + Len(f.ready))
         /\ \A p \in f.pending : Ahead(p.seq, e) > kk + Len(f.ready)
         /\ f.discontinuity <=> kk # 0
  <2>1. ASSUME NEW i \in 1..Len(f.ready) PROVE f.ready[i].seq = Plus(e, k + i - 1)
    <3>1. i \in 1..m /\ i - 1 \in 0..m /\ k + (i - 1) = k + i - 1
      BY <1>8, <1>11, <1>13
    <3> QED
      BY <1>13, <1>17, <3>1
  <2>2. f.expected = Plus(e, k + Len(f.ready))
    <3>1. m \in 0..m
      BY <1>11
    <3> QED
      BY <1>13, <1>14, <1>17, <3>1
  <2>3. ASSUME NEW p \in f.pending PROVE Ahead(p.seq, e) > k + Len(f.ready)
    <3>1. p \in S /\ Ahead(p.seq, q.seq) - m >= 1
      BY <1>14, <1>15, WindowFits
    <3> QED
      BY <1>8, <1>9, <1>11, <1>13, <3>1
  <2>4. f.discontinuity <=> k # 0
    <3>1. k > 0 /\ k # 0
      BY <1>8
    <3>2. f.discontinuity = (k > 0)
      BY <1>12
    <3> QED
      BY <3>1, <3>2, Zenon
  <2>5. k \in 0..ResyncFwd
    BY <1>8
  <2>6. k + Len(f.ready) <= ResyncFwd + 1
    BY <1>11, <1>13
  <2> HIDE DEF f, k
  <2> QED
    BY <2>1, <2>2, <2>3, <2>4, <2>5, <2>6
<1>19. f.discontinuity \in BOOLEAN
  BY <1>12
<1> HIDE DEF f
<1>20. FlushOutput(e, S, f)
  BY <1>13, <1>14, <1>15, <1>16, <1>18, <1>19 DEF FlushOutput
<1> QED
  BY <1>20 DEF f

LEMMA FlushIs ==
  ASSUME NEW e \in Seqs, NEW S, FlushInput(e, S)
  PROVE  FlushOutput(e, S, Flush(e, S))
BY FlushRun, FlushJump

(***************************************************************************)
(* The window itself.                                                      *)
(***************************************************************************)
Window ==
  /\ ReorderTypeOK /\ PendingAhead /\ OneRun
  /\ ~rx.init => rx.pending = {}

(* Every delivery that is not late is one flush of a legal window, from    *)
(* the expected number or, for a new stream, from the packet's own.        *)
LEMMA DeliveryFlushes ==
  ASSUME Window, NEW p \in RtpPacket, ~Late(p)
  PROVE  \E e \in Seqs, S \in SUBSET RtpPacket :
           /\ FlushInput(e, S) /\ Flushed(p) = Flush(e, S)
           /\ \/ rx.init /\ ~Resyncs(p) /\ e = rx.expected /\ S = Held(rx.pending, p)
              \/ (rx.init => Resyncs(p)) /\ e = p.seq /\ S = {p}
<1> USE DEF Window
<1>1. p.seq \in Seqs /\ Ahead(p.seq, p.seq) = 0
  BY DEF RtpPacket, Ahead, Seqs
<1>2. FlushInput(p.seq, {p})
  <2>1. IsFiniteSet({p}) /\ Cardinality({p}) = 1
    BY FS_Singleton
  <2>2. Cardinality({p}) <= MaxPending
    BY <2>1, WindowFits
  <2>3. \A q \in {p} : Ahead(q.seq, p.seq) <= ResyncFwd
    BY <1>1, WindowFits
  <2> QED
    BY <2>1, <2>2, <2>3 DEF FlushInput
<1>3. CASE Resyncs(p)
  BY <1>1, <1>2, <1>3 DEF Flushed
<1>4. CASE ~rx.init /\ ~Resyncs(p)
  <2>1. Expected(p) = p.seq /\ Held(rx.pending, p) = {p}
    BY <1>4 DEF Expected, Held, SeqsOf
  <2> QED
    BY <1>1, <1>2, <1>4, <2>1 DEF Flushed
<1>5. CASE rx.init /\ ~Resyncs(p)
  <2> DEFINE S == Held(rx.pending, p)
  <2>1. rx.expected \in Seqs /\ rx.pending \subseteq RtpPacket
    BY DEF ReorderTypeOK
  <2>2. Ahead(p.seq, rx.expected) \in 0..ResyncFwd
    <3>1. Expected(p) = rx.expected
      BY <1>5 DEF Expected
    <3>2. Distance(p.seq, rx.expected) >= 0 /\ Distance(p.seq, rx.expected) <= ResyncFwd
      <4>1. Ahead(p.seq, rx.expected) \in 0..(Space - 1)
        BY <1>1, <2>1, WrapType
      <4>2. Distance(p.seq, rx.expected) \in Int
        BY <4>1, WindowFits DEF Distance
      <4> QED
        BY <1>5, <3>1, <4>2, WindowFits DEF Late, Resyncs
    <3>3. Ahead(p.seq, rx.expected) \in 0..(Space - 1)
      BY <1>1, <2>1, WrapType
    <3> QED
      BY <3>2, <3>3, WindowFits DEF Distance
  <2>3. S \subseteq RtpPacket /\ \A q \in S : Ahead(q.seq, rx.expected) <= ResyncFwd
    BY <2>1, <2>2, WindowFits DEF Held, PendingAhead
  <2>4. \A q, r \in S : q.seq = r.seq => q = r
    BY DEF Held, SeqsOf, PendingAhead
  <2>5. IsFiniteSet(S) /\ Cardinality(S) <= MaxPending
    <3>1. IsFiniteSet(rx.pending) /\ Cardinality(rx.pending) < MaxPending
      BY DEF PendingAhead
    <3>2. Cardinality(rx.pending) \in Nat
      BY <3>1, FS_CardinalityType
    <3>3. IsFiniteSet(rx.pending \union {p})
          /\ Cardinality(rx.pending \union {p}) <= Cardinality(rx.pending) + 1
      <4>1. /\ IsFiniteSet(rx.pending \union {p})
            /\ \/ Cardinality(rx.pending \union {p}) = Cardinality(rx.pending)
               \/ Cardinality(rx.pending \union {p}) = Cardinality(rx.pending) + 1
        BY <3>1, FS_AddElement, Zenon
      <4> QED
        BY <3>2, <4>1
    <3>4. Cardinality(rx.pending \union {p}) \in Nat
      BY <3>3, FS_CardinalityType
    <3> QED
      BY <3>1, <3>2, <3>3, <3>4, WindowFits DEF Held
  <2>6. FlushInput(rx.expected, S)
    BY <2>3, <2>4, <2>5 DEF FlushInput
  <2>7. Flushed(p) = Flush(rx.expected, S)
    BY <1>5 DEF Flushed, Expected
  <2>8. S \in SUBSET RtpPacket
    BY <2>3
  <2> HIDE DEF S
  <2>9. S = Held(rx.pending, p)
    BY DEF S
  <2> QED
    BY <1>5, <2>1, <2>6, <2>7, <2>8, <2>9
<1> QED
  BY <1>3, <1>4, <1>5

(* A delivery keeps the window legal.                                      *)
LEMMA DeliverKeepsWindow ==
  ASSUME Window, NEW p \in flight, Deliver(p)
  PROVE  Window'
<1>1. p \in RtpPacket /\ ~Late(p)
  BY DEF Window, ReorderTypeOK, Deliver
<1>2. PICK e \in Seqs, S \in SUBSET RtpPacket : FlushInput(e, S) /\ Flushed(p) = Flush(e, S)
  BY <1>1, DeliveryFlushes
<1> DEFINE f == Flush(e, S)
<1>3. FlushOutput(e, S, f)
  BY <1>2, FlushIs
<1>4. /\ rx' = [init |-> TRUE, expected |-> f.expected, pending |-> f.pending]
      /\ out' = f.ready /\ told' = f.discontinuity
      /\ base' = IF f.ready = <<>> THEN base ELSE f.ready[Len(f.ready)].idx + 1
      /\ UNCHANGED <<sent, wire, flight, restarts>>
  BY <1>2 DEF Deliver
<1> HIDE DEF f
<1>5. S \subseteq RtpPacket /\ \A q, r \in S : q.seq = r.seq => q = r
  BY <1>2 DEF FlushInput
<1>6. f.ready \in Seq(RtpPacket)
  BY <1>3, <1>5, SeqMonotonic DEF FlushOutput
<1>7. base' \in Nat
  <2>1. f.ready # <<>> => Len(f.ready) \in 1..Len(f.ready)
    BY <1>6, EmptySeq
  <2>2. f.ready # <<>> => f.ready[Len(f.ready)] \in RtpPacket
    BY <1>6, <2>1, ElementOfSeq
  <2>3. f.ready # <<>> => f.ready[Len(f.ready)].idx \in Nat
    BY <2>2 DEF RtpPacket
  <2>4. base \in Nat
    BY DEF Window, ReorderTypeOK
  <2> QED
    BY <1>4, <2>3, <2>4
<1>8. ReorderTypeOK'
  BY <1>3, <1>4, <1>5, <1>6, <1>7 DEF Window, ReorderTypeOK, FlushOutput
<1>9. PendingAhead'
  BY <1>3, <1>4, <1>5 DEF PendingAhead, FlushOutput
<1>10. OneRun'
  <2>1. SUFFICES ASSUME NEW i \in 1..Len(f.ready)
                 PROVE  f.ready[i].seq = Plus(f.ready[1].seq, i - 1)
    BY <1>4 DEF OneRun
  <2>2. Len(f.ready) \in Nat /\ f.ready # <<>>
    BY <1>6, EmptySeq
  <2>3. PICK k \in 0..ResyncFwd :
          /\ \A j \in 1..Len(f.ready) : f.ready[j].seq = Plus(e, k + j - 1)
          /\ k + Len(f.ready) <= ResyncFwd + 1
    BY <1>3, <2>2 DEF FlushOutput
  <2>4. f.ready[1].seq = Plus(e, k) /\ f.ready[i].seq = Plus(e, k + (i - 1))
    <3>1. 1 \in 1..Len(f.ready) /\ k + 1 - 1 = k /\ k + i - 1 = k + (i - 1)
      BY <2>2
    <3> QED
      BY <2>3, <3>1
  <2>5. k \in Nat /\ i - 1 \in Nat /\ k + (i - 1) < Space
    BY <2>2, <2>3, WindowFits
  <2>6. Plus(Plus(e, k), i - 1) = Plus(e, k + (i - 1))
    BY <2>5, WrapAdd
  <2> QED
    BY <2>4, <2>6
<1> QED
  BY <1>4, <1>8, <1>9, <1>10 DEF Window

LEMMA InitWindow == ReorderInit => Window
<1> SUFFICES ASSUME ReorderInit PROVE Window
  OBVIOUS
<1>1. 0 \in Seqs
  BY WindowAssumption DEF Seqs, Space
<1>2. ReorderTypeOK
  BY <1>1, EmptySeq DEF ReorderInit, Initial, ReorderTypeOK
<1>3. PendingAhead
  BY FS_EmptySet, WindowFits DEF ReorderInit, Initial, PendingAhead
<1>4. OneRun
  BY EmptySeq DEF ReorderInit, OneRun
<1> QED
  BY <1>2, <1>3, <1>4 DEF ReorderInit, Initial, Window

LEMMA StepKeepsWindow == Window /\ [ReorderNext]_reorderVars => Window'
<1> SUFFICES ASSUME Window, [ReorderNext]_reorderVars PROVE Window'
  OBVIOUS
<1>1. ASSUME Send \/ Restart PROVE Window'
  <2>1. rx' = rx /\ out' = <<>> /\ told' = FALSE /\ base' = base /\ restarts' \in Nat
    BY <1>1 DEF Send, Restart, Window, ReorderTypeOK
  <2>2. wire' \in Seqs
    <3>1. 1 \in 0..(Space - 1)
      BY WindowFits
    <3>2. wire \in Seqs
      BY DEF Window, ReorderTypeOK
    <3> QED
      BY <1>1, <3>1, <3>2, WrapType DEF Send, Restart
  <2>3. sent' \in Nat /\ flight' \in SUBSET RtpPacket
    <3>1. [idx |-> sent, seq |-> wire] \in RtpPacket
      BY DEF Window, ReorderTypeOK, RtpPacket
    <3> QED
      BY <1>1, <3>1 DEF Send, Restart, Window, ReorderTypeOK
  <2>4. ReorderTypeOK'
    BY <2>1, <2>2, <2>3, EmptySeq DEF Window, ReorderTypeOK
  <2>5. PendingAhead' /\ OneRun'
    BY <2>1, EmptySeq DEF Window, PendingAhead, OneRun
  <2> QED
    BY <2>1, <2>4, <2>5 DEF Window
<1>2. CASE Connected
  <2>1. 0 \in Seqs
    BY WindowAssumption DEF Seqs, Space
  <2>2. ReorderTypeOK'
    BY <1>2, <2>1, EmptySeq DEF Connected, Initial, Window, ReorderTypeOK
  <2>3. PendingAhead'
    BY <1>2, FS_EmptySet, WindowFits DEF Connected, Initial, PendingAhead
  <2>4. OneRun'
    BY <1>2, EmptySeq DEF Connected, OneRun
  <2> QED
    BY <1>2, <2>2, <2>3, <2>4 DEF Connected, Initial, Window
<1>3. ASSUME NEW p \in flight, DropLate(p) PROVE Window'
  <2>1. rx' = rx /\ out' = <<>> /\ told' = FALSE
        /\ UNCHANGED <<sent, wire, flight, restarts, base>>
    BY <1>3 DEF DropLate
  <2>2. ReorderTypeOK'
    BY <2>1, EmptySeq DEF Window, ReorderTypeOK
  <2>3. PendingAhead'
    BY <2>1 DEF Window, PendingAhead
  <2>4. OneRun'
    BY <2>1, EmptySeq DEF OneRun
  <2> QED
    BY <2>1, <2>2, <2>3, <2>4 DEF Window
<1>4. ASSUME NEW p \in flight, Deliver(p) PROVE Window'
  BY <1>4, DeliverKeepsWindow
<1>5. CASE UNCHANGED reorderVars
  BY <1>5 DEF reorderVars, Window, ReorderTypeOK, PendingAhead, OneRun
<1> QED
  BY <1>1, <1>2, <1>3, <1>4, <1>5 DEF ReorderNext

(* The window stays legal through every delivery, restart and reconnect.   *)
THEOREM AlwaysWindow == ReorderSpec => []Window
<1>1. ReorderInit => Window
  BY InitWindow
<1>2. Window /\ [ReorderNext]_reorderVars => Window'
  BY StepKeepsWindow
<1> QED
  BY <1>1, <1>2, PTL DEF ReorderSpec

(* The state of the window is well typed for every network.                *)
THEOREM WindowTypeCorrect == ReorderSpec => []ReorderTypeOK
<1>1. Window => ReorderTypeOK
  BY DEF Window
<1> QED
  BY <1>1, AlwaysWindow, PTL

(* A missing packet is waited for by fewer than MaxPending others, all     *)
(* ahead of it: the wait of handle_rtp_packet always ends.                 *)
THEOREM WaitingIsAhead == ReorderSpec => []PendingAhead
<1>1. Window => PendingAhead
  BY DEF Window
<1> QED
  BY <1>1, AlwaysWindow, PTL

(* What one call of the handler hands on has no holes.                     *)
THEOREM RunsHaveNoHoles == ReorderSpec => []OneRun
<1>1. Window => OneRun
  BY DEF Window
<1> QED
  BY <1>1, AlwaysWindow, PTL

(* The server is told of a hole before the packets behind it, never before *)
(* packets in front of it.                                                 *)
THEOREM TellsAtTheHole == ReorderSpec => ToldAtTheHole
<1>1. Window /\ [ReorderNext]_reorderVars =>
        [told' => rx.init /\ out' # <<>> /\ out'[1].seq # rx.expected]_reorderVars
  <2> SUFFICES ASSUME Window, ReorderNext, told'
               PROVE  rx.init /\ out' # <<>> /\ out'[1].seq # rx.expected
    BY DEF reorderVars
  <2>1. PICK p \in flight : Deliver(p)
    BY DEF ReorderNext, Send, Restart, Connected, DropLate
  <2>2. p \in RtpPacket /\ ~Late(p)
    BY <2>1 DEF Window, ReorderTypeOK, Deliver
  <2>3. PICK e \in Seqs, S \in SUBSET RtpPacket :
           /\ FlushInput(e, S) /\ Flushed(p) = Flush(e, S)
           /\ \/ rx.init /\ ~Resyncs(p) /\ e = rx.expected /\ S = Held(rx.pending, p)
              \/ (rx.init => Resyncs(p)) /\ e = p.seq /\ S = {p}
    BY <2>2, DeliveryFlushes
  <2> DEFINE f == Flush(e, S)
  <2>4. FlushOutput(e, S, f)
    BY <2>3, FlushIs
  <2>5. out' = f.ready /\ f.discontinuity
    BY <2>1, <2>3 DEF Deliver
  <2> HIDE DEF f
  <2>6. f.ready # <<>>
    BY <2>4, <2>5 DEF FlushOutput
  <2>7. PICK k \in 0..ResyncFwd :
           /\ \A i \in 1..Len(f.ready) : f.ready[i].seq = Plus(e, k + i - 1)
           /\ f.discontinuity <=> k # 0
    BY <2>4, <2>6 DEF FlushOutput
  <2>8. k # 0 /\ k \in 0..(Space - 1)
    BY <2>5, <2>7, WindowFits
  <2>9. 1 \in 1..Len(f.ready) /\ f.ready[1] \in S
    <3>1. f.ready \in Seq(S)
      BY <2>4 DEF FlushOutput
    <3>2. Len(f.ready) \in Nat \ {0}
      BY <2>6, <3>1, EmptySeq
    <3>3. 1 \in 1..Len(f.ready)
      BY <3>2
    <3> QED
      BY <3>1, <3>3, ElementOfSeq
  <2>10. f.ready[1].seq = Plus(e, k)
    <3>1. k + 1 - 1 = k
      BY <2>7
    <3> QED
      BY <2>7, <2>9, <3>1
  <2>11. Ahead(f.ready[1].seq, e) = k
    BY <2>8, <2>10, WrapInverse
  <2>12. Ahead(e, e) = 0
    BY DEF Ahead, Seqs
  <2>13. f.ready[1].seq # e
    BY <2>8, <2>11, <2>12
  <2>14. CASE rx.init /\ e = rx.expected
    BY <2>5, <2>6, <2>13, <2>14
  <2>15. CASE e = p.seq /\ S = {p}
    BY <2>9, <2>13, <2>15
  <2> QED
    BY <2>3, <2>14, <2>15
<1> QED
  BY <1>1, AlwaysWindow, PTL DEF ReorderSpec, ToldAtTheHole

(***************************************************************************)
(* The order of what is handed on.  Invariant: a packet's number lies as   *)
(* far from the camera's next number, and from the expected one, as its    *)
(* index does from the index behind it.                                    *)
(***************************************************************************)
InFlight ==
  \A p \in flight : /\ sent - Delay <= p.idx /\ p.idx < sent
                    /\ Ahead(wire, p.seq) = sent - p.idx

Anchored(e, b, S) ==
  /\ b \in Nat /\ b <= sent /\ sent - b <= Half
  /\ Ahead(wire, e) = sent - b
  /\ \A p \in S : b <= p.idx /\ p.idx < sent /\ Ahead(p.seq, e) = p.idx - b

Coherent ==
  /\ Window /\ restarts = 0
  /\ InFlight
  /\ rx.init => Anchored(rx.expected, base, rx.pending)

(* Two distances from one later point give the distance between them.      *)
LEMMA WrapBetween ==
  ASSUME NEW a \in Seqs, NEW b \in Seqs, NEW c \in Seqs,
         Ahead(a, b) <= Half, Ahead(a, c) <= Half
  PROVE  /\ Ahead(a, b) <= Ahead(a, c) => Ahead(b, c) = Ahead(a, c) - Ahead(a, b)
         /\ Ahead(a, b) > Ahead(a, c) => Ahead(b, c) = Space - (Ahead(a, b) - Ahead(a, c))
BY WindowAssumption DEF Ahead, Seqs, Space

(* A packet in flight whose index has passed is late; no other is a new    *)
(* stream unless it is more than ResyncFwd ahead.                          *)
LEMMA FlightDistance ==
  ASSUME Delay <= ResyncBack, Coherent, rx.init, NEW p \in flight
  PROVE  /\ p.idx < base => Late(p)
         /\ p.idx >= base => Ahead(p.seq, rx.expected) = p.idx - base
         /\ p.idx >= base /\ p.idx - base <= ResyncFwd => ~Resyncs(p)
<1> DEFINE e == rx.expected
<1>1. /\ p.seq \in Seqs /\ e \in Seqs /\ wire \in Seqs
      /\ p.idx \in Nat /\ base \in Nat /\ sent \in Nat
  BY DEF Coherent, Window, ReorderTypeOK, RtpPacket
<1>2. /\ Ahead(wire, p.seq) = sent - p.idx /\ sent - Delay <= p.idx /\ p.idx < sent
      /\ Ahead(wire, e) = sent - base /\ base <= sent /\ sent - base <= Half
  BY DEF Coherent, InFlight, Anchored
<1>3. Delay \in Nat /\ ResyncBack \in Nat /\ ResyncFwd \in Nat /\ Half \in Nat
      /\ ResyncBack < Half /\ ResyncFwd + 1 < Half /\ Space = 2 * Half
  BY WindowAssumption, NetworkAssumption DEF Space
<1>4. /\ sent - p.idx <= sent - base => Ahead(p.seq, e) = (sent - base) - (sent - p.idx)
      /\ sent - p.idx > sent - base => Ahead(p.seq, e) = Space - ((sent - p.idx) - (sent - base))
  <2>1. Ahead(wire, p.seq) <= Half /\ Ahead(wire, e) <= Half
    BY <1>1, <1>2, <1>3
  <2> QED
    BY <1>1, <1>2, <2>1, WrapBetween
<1>5. Expected(p) = e
  BY DEF Expected
<1> HIDE DEF e
<1>6. p.idx < base => Late(p)
  <2>1. SUFFICES ASSUME p.idx < base PROVE Late(p)
    OBVIOUS
  <2>2. Ahead(p.seq, e) = Space - (base - p.idx) /\ base - p.idx <= Delay
    BY <1>1, <1>2, <1>3, <1>4, <2>1
  <2>3. Distance(p.seq, e) = p.idx - base
    BY <1>1, <1>2, <1>3, <2>1, <2>2 DEF Distance
  <2> QED
    BY <1>1, <1>3, <1>5, <2>1, <2>2, <2>3 DEF Late, Resyncs
<1>7. p.idx >= base => Ahead(p.seq, e) = p.idx - base
  BY <1>1, <1>2, <1>3, <1>4
<1>8. p.idx >= base /\ p.idx - base <= ResyncFwd => ~Resyncs(p)
  <2>1. SUFFICES ASSUME p.idx >= base, p.idx - base <= ResyncFwd PROVE ~Resyncs(p)
    OBVIOUS
  <2>2. Distance(p.seq, e) = p.idx - base
    BY <1>1, <1>3, <1>7, <2>1 DEF Distance
  <2> QED
    BY <1>1, <1>3, <1>5, <2>1, <2>2 DEF Resyncs
<1> QED
  BY <1>6, <1>7, <1>8 DEF e

(* Every delivery that is not late flushes from an anchored window, in a   *)
(* connection never from behind what was handed on.                        *)
LEMMA DeliveryAnchored ==
  ASSUME Delay <= ResyncBack, Coherent, NEW p \in flight, ~Late(p)
  PROVE  \E e \in Seqs, b \in Nat, S \in SUBSET RtpPacket :
           /\ FlushInput(e, S) /\ Flushed(p) = Flush(e, S)
           /\ Anchored(e, b, S)
           /\ rx.init => b >= base
           /\ rx.init /\ p.idx - base <= ResyncFwd => b = base
           /\ b = base \/ p.seq = e
           /\ rx.init \/ b = p.idx
           /\ p \in S
<1>1. p \in RtpPacket /\ p.seq \in Seqs /\ p.idx \in Nat /\ base \in Nat /\ sent \in Nat
      /\ wire \in Seqs /\ rx.pending \subseteq RtpPacket
  BY DEF Coherent, Window, ReorderTypeOK, RtpPacket
<1>2. PICK e \in Seqs, S \in SUBSET RtpPacket :
        /\ FlushInput(e, S) /\ Flushed(p) = Flush(e, S)
        /\ \/ rx.init /\ ~Resyncs(p) /\ e = rx.expected /\ S = Held(rx.pending, p)
           \/ (rx.init => Resyncs(p)) /\ e = p.seq /\ S = {p}
  BY <1>1, DeliveryFlushes DEF Coherent
<1>3. rx.init => p.idx >= base
  BY <1>1, FlightDistance
<1>4. Delay \in Nat /\ Half \in Nat /\ Delay <= Half
  BY WindowAssumption, NetworkAssumption
<1>5. CASE rx.init /\ ~Resyncs(p) /\ e = rx.expected /\ S = Held(rx.pending, p)
  <2>1. Ahead(p.seq, e) = p.idx - base /\ p.idx >= base /\ p.idx < sent
    BY <1>3, <1>5, FlightDistance DEF Coherent, InFlight
  <2>2. Anchored(e, base, rx.pending)
    BY <1>5 DEF Coherent
  <2>3. S \subseteq rx.pending \union {p}
    BY <1>5 DEF Held
  <2>4. Anchored(e, base, S)
    BY <2>1, <2>2, <2>3 DEF Anchored
  <2>5. p \in S
    <3>1. CASE p.seq \notin SeqsOf(rx.pending)
      BY <1>5, <3>1 DEF Held
    <3>2. CASE p.seq \in SeqsOf(rx.pending)
      <4>1. PICK q \in rx.pending : q.seq = p.seq
        BY <3>2 DEF SeqsOf
      <4>2. q.idx - base = p.idx - base /\ q \in RtpPacket
        BY <1>1, <2>1, <2>2, <4>1 DEF Anchored
      <4>3. q.idx \in Nat /\ q.idx = p.idx
        BY <1>1, <4>2 DEF RtpPacket
      <4>4. q = p
        BY <1>1, <4>1, <4>2, <4>3 DEF RtpPacket
      <4> QED
        BY <1>5, <4>1, <4>4 DEF Held
    <3> QED
      BY <3>1, <3>2
  <2>6. S \subseteq RtpPacket /\ base >= base /\ base \in Nat
    BY <1>1, <2>3
  <2>7. rx.init
    BY <1>5
  <2> QED
    BY <1>2, <2>4, <2>5, <2>6, <2>7, Zenon
<1>6. CASE (rx.init => Resyncs(p)) /\ e = p.seq /\ S = {p}
  <2>1. /\ sent - Delay <= p.idx /\ p.idx < sent /\ Ahead(wire, p.seq) = sent - p.idx
    BY DEF Coherent, InFlight
  <2>2. Ahead(p.seq, e) = 0
    BY <1>1, <1>6 DEF Ahead, Seqs
  <2>3. p.idx <= sent /\ sent - p.idx <= Half /\ p.idx - p.idx = 0
    BY <1>1, <1>4, <2>1
  <2>4. Anchored(e, p.idx, S)
    BY <1>1, <1>6, <2>1, <2>2, <2>3 DEF Anchored
  <2>5. rx.init => ~(p.idx - base <= ResyncFwd)
    BY <1>3, <1>6, FlightDistance
  <2> QED
    BY <1>1, <1>2, <1>3, <1>6, <2>4, <2>5
<1> QED
  BY <1>2, <1>5, <1>6

(* A flush from an anchored window hands on consecutive packets from the   *)
(* anchor or from behind a hole, and leaves an anchored window.            *)
LEMMA FlushAnchored ==
  ASSUME Coherent, NEW e \in Seqs, NEW b \in Nat, NEW S, NEW p \in S, NEW f,
         S \subseteq RtpPacket, FlushOutput(e, S, f), Anchored(e, b, S)
  PROVE  /\ f.ready = <<>> => Anchored(f.expected, b, f.pending)
         /\ f.ready # <<>> =>
              /\ Len(f.ready) \in Nat \ {0}
              /\ \A i \in 1..Len(f.ready) : /\ f.ready[i].idx >= b
                                           /\ f.ready[i].idx = f.ready[1].idx + i - 1
              /\ ~f.discontinuity => f.ready[1].idx = b
              /\ Anchored(f.expected, f.ready[Len(f.ready)].idx + 1, f.pending)
<1>1. f.ready \in Seq(S) /\ f.pending \subseteq S
  BY DEF FlushOutput
<1>2. f.ready = <<>> => Anchored(f.expected, b, f.pending)
  BY <1>1 DEF FlushOutput, Anchored
<1>3. ASSUME f.ready # <<>>
      PROVE  /\ Len(f.ready) \in Nat \ {0}
             /\ \A i \in 1..Len(f.ready) : /\ f.ready[i].idx >= b
                                          /\ f.ready[i].idx = f.ready[1].idx + i - 1
             /\ ~f.discontinuity => f.ready[1].idx = b
             /\ Anchored(f.expected, f.ready[Len(f.ready)].idx + 1, f.pending)
  <2> DEFINE m == Len(f.ready)
  <2>1. m \in Nat \ {0}
    BY <1>1, <1>3, EmptySeq
  <2>2. PICK k \in 0..ResyncFwd :
          /\ \A i \in 1..m : f.ready[i].seq = Plus(e, k + i - 1)
          /\ k + m <= ResyncFwd + 1
          /\ f.expected = Plus(e, k + m)
          /\ \A q \in f.pending : Ahead(q.seq, e) > k + m
          /\ f.discontinuity <=> k # 0
    BY <1>3 DEF FlushOutput
  <2>3. ASSUME NEW i \in 1..m PROVE f.ready[i].idx = b + k + i - 1
    <3>1. f.ready[i] \in S
      BY <1>1, ElementOfSeq
    <3>2. f.ready[i].idx \in Nat /\ Ahead(f.ready[i].seq, e) = f.ready[i].idx - b
      BY <3>1 DEF Anchored, RtpPacket
    <3>3. k + i - 1 \in 0..(Space - 1)
      BY <2>1, <2>2, WindowFits
    <3>4. Ahead(f.ready[i].seq, e) = k + i - 1
      BY <2>2, <3>3, WrapInverse
    <3> QED
      BY <2>2, <3>2, <3>4
  <2>4. f.ready[1].idx = b + k /\ f.ready[m].idx = b + k + m - 1
    <3>1. 1 \in 1..m /\ m \in 1..m /\ b + k + 1 - 1 = b + k
      BY <2>1, <2>2
    <3> QED
      BY <2>3, <3>1
  <2>5. f.ready[m] \in S /\ f.ready[m].idx < sent
    <3>1. m \in 1..m
      BY <2>1
    <3> QED
      BY <1>1, <3>1, ElementOfSeq DEF Anchored
  <2>6. sent \in Nat /\ wire \in Seqs
    BY DEF Coherent, Window, ReorderTypeOK
  <2>7. Anchored(f.expected, b + k + m, f.pending)
    <3>1. b + k + m \in Nat /\ b + k + m <= sent /\ sent - (b + k + m) <= Half
      <4>1. sent - b <= Half /\ Half \in Nat
        BY WindowAssumption DEF Anchored
      <4>2. b + k + m - 1 < sent
        BY <2>4, <2>5
      <4>3. k \in Nat /\ m \in Nat /\ b \in Nat /\ sent \in Nat
        BY <2>1, <2>2, <2>6
      <4> HIDE DEF m
      <4> QED
        BY <4>1, <4>2, <4>3
    <3>2. k + m \in 0..(Space - 1)
      BY <2>1, <2>2, WindowFits
    <3>3. Ahead(wire, f.expected) = sent - (b + k + m)
      <4>1. Ahead(wire, e) = sent - b /\ k + m <= Ahead(wire, e)
        <5>1. Ahead(wire, e) = sent - b
          BY DEF Anchored
        <5>2. m \in Nat /\ k \in Nat /\ b \in Nat /\ sent \in Nat
          BY <2>1, <2>2, <2>6
        <5> HIDE DEF m
        <5> QED
          BY <3>1, <5>1, <5>2
      <4>2. Ahead(wire, Plus(e, k + m)) = Ahead(wire, e) - (k + m)
        BY <2>6, <3>2, <4>1, WrapShift
      <4>3. f.expected = Plus(e, k + m)
        BY <2>2
      <4>4. m \in Nat /\ k \in Nat /\ b \in Nat /\ sent \in Nat
        BY <2>1, <2>2, <2>6
      <4> HIDE DEF m
      <4> QED
        BY <4>1, <4>2, <4>3, <4>4
    <3>4. ASSUME NEW q \in f.pending
          PROVE  /\ b + k + m <= q.idx /\ q.idx < sent
                 /\ Ahead(q.seq, f.expected) = q.idx - (b + k + m)
      <4>1. q.seq \in Seqs /\ q.idx \in Nat /\ q.idx < sent /\ Ahead(q.seq, e) = q.idx - b
        BY <1>1 DEF Anchored, RtpPacket
      <4>2. k + m < Ahead(q.seq, e) /\ k + m <= Ahead(q.seq, e)
        BY <2>1, <2>2, <4>1
      <4>3. Ahead(q.seq, Plus(e, k + m)) = Ahead(q.seq, e) - (k + m)
        BY <3>2, <4>1, <4>2, WrapShift
      <4>4. Ahead(q.seq, f.expected) = (q.idx - b) - (k + m)
        BY <2>2, <4>1, <4>3
      <4>5. k \in Nat /\ m \in Nat /\ b \in Nat
        BY <2>1, <2>2
      <4>6. k + m < q.idx - b
        BY <4>1, <4>2
      <4> HIDE DEF m
      <4>7. b + k + m <= q.idx /\ (q.idx - b) - (k + m) = q.idx - (b + k + m)
        BY <4>1, <4>5, <4>6
      <4> QED
        BY <4>1, <4>4, <4>7
    <3> QED
      BY <3>1, <3>3, <3>4 DEF Anchored
  <2>8. b + k + m = f.ready[m].idx + 1
    BY <2>1, <2>2, <2>4
  <2>9. ASSUME NEW i \in 1..m
        PROVE  f.ready[i].idx >= b /\ f.ready[i].idx = f.ready[1].idx + i - 1
    BY <2>1, <2>2, <2>3, <2>4
  <2>10. ~f.discontinuity => f.ready[1].idx = b
    <3>1. k = 0 => f.ready[1].idx = b
      BY <2>4
    <3> QED
      BY <2>2, <3>1
  <2> QED
    BY <2>1, <2>7, <2>8, <2>9, <2>10
<1> QED
  BY <1>2, <1>3

(* One delivery: what goes on, and the window after it.                    *)
LEMMA DeliverInOrder ==
  ASSUME Delay <= ResyncBack, Coherent, NEW p \in flight, Deliver(p)
  PROVE  /\ Coherent'
         /\ rx.init => \A i \in 1..Len(out') :
                         /\ out'[i].idx >= base
                         /\ out'[i].idx = out'[1].idx + i - 1
         /\ rx.init /\ out' # <<>> /\ p.idx - base <= ResyncFwd =>
              (out'[1].idx = base \/ told')
         /\ \E c \in Nat : base' = c /\ c >= (IF rx.init THEN base ELSE p.idx)
<1>1. ~Late(p)
  BY DEF Deliver
<1>2. PICK e \in Seqs, b \in Nat, S \in SUBSET RtpPacket :
           /\ FlushInput(e, S) /\ Flushed(p) = Flush(e, S)
           /\ Anchored(e, b, S)
           /\ rx.init => b >= base
           /\ rx.init /\ p.idx - base <= ResyncFwd => b = base
           /\ b = base \/ p.seq = e
           /\ rx.init \/ b = p.idx
           /\ p \in S
  BY <1>1, DeliveryAnchored
<1> DEFINE f == Flush(e, S)
<1>3. FlushOutput(e, S, f)
  BY <1>2, FlushIs
<1>4. /\ rx' = [init |-> TRUE, expected |-> f.expected, pending |-> f.pending]
      /\ out' = f.ready /\ told' = f.discontinuity
      /\ base' = IF f.ready = <<>> THEN base ELSE f.ready[Len(f.ready)].idx + 1
      /\ UNCHANGED <<sent, wire, flight, restarts>>
  BY <1>2 DEF Deliver
<1> HIDE DEF f
<1>5. /\ f.ready = <<>> => Anchored(f.expected, b, f.pending)
      /\ f.ready # <<>> =>
              /\ Len(f.ready) \in Nat \ {0}
              /\ \A i \in 1..Len(f.ready) : /\ f.ready[i].idx >= b
                                           /\ f.ready[i].idx = f.ready[1].idx + i - 1
              /\ ~f.discontinuity => f.ready[1].idx = b
              /\ Anchored(f.expected, f.ready[Len(f.ready)].idx + 1, f.pending)
  BY <1>2, <1>3, FlushAnchored
<1>6. Window'
  BY DeliverKeepsWindow DEF Coherent
<1>7. f.ready = <<>> => b = base
  <2>1. SUFFICES ASSUME f.ready = <<>>, p.seq = e PROVE FALSE
    BY <1>2
  <2>2. p \in f.pending /\ f.expected = e
    BY <1>2, <1>3, <2>1 DEF FlushOutput
  <2>3. Ahead(p.seq, f.expected) \in 1..ResyncFwd
    BY <1>3, <2>2 DEF FlushOutput
  <2>4. Ahead(e, e) = 0
    BY DEF Ahead, Seqs
  <2> QED
    BY <2>1, <2>2, <2>3, <2>4
<1>8. Anchored(f.expected, base', f.pending)
  BY <1>4, <1>5, <1>7
<1>9. Anchored(rx.expected, base, rx.pending)'
  BY <1>4, <1>8 DEF Anchored
<1>10. Coherent'
  BY <1>4, <1>6, <1>9 DEF Coherent, InFlight
<1>11. rx.init => \A i \in 1..Len(f.ready) :
                    f.ready[i].idx >= base /\ f.ready[i].idx = f.ready[1].idx + i - 1
  <2>1. SUFFICES ASSUME rx.init, NEW i \in 1..Len(f.ready)
                 PROVE  f.ready[i].idx >= base /\ f.ready[i].idx = f.ready[1].idx + i - 1
    OBVIOUS
  <2>2. f.ready # <<>>
    BY <2>1, EmptySeq
  <2>3. f.ready[i].idx >= b /\ f.ready[i].idx = f.ready[1].idx + i - 1 /\ b >= base
    BY <1>2, <1>5, <2>1, <2>2
  <2>4. f.ready[i].idx \in Nat
    <3>1. f.ready \in Seq(S)
      BY <1>3 DEF FlushOutput
    <3> QED
      BY <1>2, <2>1, <3>1, ElementOfSeq DEF RtpPacket
  <2>5. base \in Nat
    BY DEF Coherent, Window, ReorderTypeOK
  <2> QED
    BY <2>3, <2>4, <2>5
<1>12. rx.init /\ f.ready # <<>> /\ p.idx - base <= ResyncFwd
         => f.ready[1].idx = base \/ f.discontinuity
  BY <1>2, <1>5
<1>13. \E c \in Nat : base' = c /\ c >= (IF rx.init THEN base ELSE p.idx)
  <2>1. base \in Nat /\ p.idx \in Nat
    BY <1>2 DEF Coherent, Window, ReorderTypeOK, RtpPacket
  <2>2. CASE f.ready = <<>>
    <3>1. base >= (IF rx.init THEN base ELSE p.idx)
      BY <1>2, <1>7, <2>1, <2>2
    <3> QED
      BY <1>4, <2>1, <2>2, <3>1
  <2>3. CASE f.ready # <<>>
    <3> DEFINE c == f.ready[Len(f.ready)].idx + 1
    <3>1. Len(f.ready) \in 1..Len(f.ready)
      BY <1>5, <2>3
    <3>2. f.ready[Len(f.ready)] \in S /\ f.ready[Len(f.ready)].idx >= b
      BY <1>3, <1>5, <2>3, <3>1, ElementOfSeq DEF FlushOutput
    <3>3. c >= b /\ c \in Nat
      BY <1>2, <3>2 DEF RtpPacket
    <3>4. base' = c
      BY <1>4, <2>3
    <3> HIDE DEF c
    <3>5. c >= (IF rx.init THEN base ELSE p.idx)
      BY <1>2, <2>1, <3>3
    <3> QED
      BY <3>3, <3>4, <3>5
  <2> QED
    BY <2>2, <2>3
<1> QED
  BY <1>4, <1>10, <1>11, <1>12, <1>13

(* The invariant of the order theorems holds initially ...                 *)
LEMMA InitCoherent == ReorderInit => Coherent
BY InitWindow DEF ReorderInit, Initial, Coherent, InFlight

(* ... and through every step, while the camera does not renumber.         *)
LEMMA StepCoherent ==
  ASSUME Delay <= ResyncBack, Burst <= Half
  PROVE  Coherent /\ [ReorderNext]_reorderVars /\ restarts' = 0 => Coherent'
<1> SUFFICES ASSUME Coherent, [ReorderNext]_reorderVars, restarts' = 0 PROVE Coherent'
  OBVIOUS
<1>1. Window'
  BY StepKeepsWindow DEF Coherent
<1>2. /\ Half \in Nat /\ Burst \in Nat /\ Delay \in Nat /\ Delay >= 1
      /\ Space = 2 * Half /\ ResyncBack < Half /\ ResyncBack \in Nat
  BY WindowAssumption, NetworkAssumption DEF Space
<1>3. CASE Send
  <2>1. /\ sent' = sent + 1 /\ wire' = Plus(wire, 1)
        /\ flight' = {p \in flight : p.idx + Delay > sent} \union {[idx |-> sent, seq |-> wire]}
        /\ UNCHANGED <<rx, base, restarts>>
        /\ rx.init => sent - base < Burst
    BY <1>3 DEF Send
  <2>2. /\ sent \in Nat /\ base \in Nat /\ wire \in Seqs /\ rx.expected \in Seqs
        /\ rx.pending \subseteq RtpPacket /\ flight \subseteq RtpPacket
    BY DEF Coherent, Window, ReorderTypeOK
  <2>3. ASSUME NEW s \in Seqs, Ahead(wire, s) <= Half
        PROVE  Ahead(wire', s) = Ahead(wire, s) + 1
    BY <1>2, <2>1, <2>2, <2>3, WindowAssumption DEF Ahead, Plus, Seqs, Space
  <2>4. InFlight'
    <3>1. SUFFICES ASSUME NEW p \in flight'
                   PROVE  /\ sent' - Delay <= p.idx /\ p.idx < sent'
                          /\ Ahead(wire', p.seq) = sent' - p.idx
      BY DEF InFlight
    <3>2. CASE p \in flight /\ p.idx + Delay > sent
      <4>1. p.seq \in Seqs /\ p.idx \in Nat /\ p.idx < sent
            /\ Ahead(wire, p.seq) = sent - p.idx /\ sent - Delay <= p.idx
        BY <2>2, <3>2 DEF RtpPacket, Coherent, InFlight
      <4>2. Ahead(wire, p.seq) <= Half
        BY <1>2, <2>2, <4>1
      <4>3. Ahead(wire', p.seq) = Ahead(wire, p.seq) + 1
        BY <2>3, <4>1, <4>2
      <4> QED
        BY <1>2, <2>1, <2>2, <3>2, <4>1, <4>3
    <3>3. CASE p = [idx |-> sent, seq |-> wire]
      <4>1. Ahead(wire, wire) = 0
        BY <2>2 DEF Ahead, Seqs
      <4>2. Ahead(wire', wire) = 1
        BY <1>2, <2>2, <2>3, <4>1
      <4>3. p.idx = sent /\ p.seq = wire
        BY <3>3
      <4> QED
        BY <1>2, <2>1, <2>2, <4>2, <4>3
    <3> QED
      BY <2>1, <3>2, <3>3
  <2>5. rx.init => Anchored(rx.expected, base, rx.pending)'
    <3>1. SUFFICES ASSUME rx.init PROVE Anchored(rx.expected, base, rx.pending)'
      OBVIOUS
    <3>2. Anchored(rx.expected, base, rx.pending)
      BY <3>1 DEF Coherent
    <3>3. Ahead(wire, rx.expected) = sent - base /\ sent - base < Half /\ base <= sent
      BY <1>2, <2>1, <2>2, <3>1, <3>2 DEF Anchored
    <3>4. Ahead(wire', rx.expected) = sent' - base
      BY <1>2, <2>1, <2>2, <2>3, <3>3
    <3>5. base <= sent' /\ sent' - base <= Half
      BY <1>2, <2>1, <2>2, <3>3
    <3>6. ASSUME NEW p \in rx.pending
          PROVE  base <= p.idx /\ p.idx < sent' /\ Ahead(p.seq, rx.expected) = p.idx - base
      BY <2>1, <2>2, <3>2 DEF Anchored, RtpPacket
    <3> QED
      BY <2>1, <2>2, <3>4, <3>5, <3>6 DEF Anchored
  <2> QED
    BY <1>1, <2>1, <2>4, <2>5 DEF Coherent
<1>4. ~Restart
  BY DEF Restart, Coherent
<1>5. CASE Connected
  BY <1>1, <1>5 DEF Connected, Initial, Coherent, InFlight
<1>6. ASSUME NEW p \in flight, DropLate(p) PROVE Coherent'
  BY <1>1, <1>6 DEF DropLate, Coherent, InFlight, Anchored
<1>7. ASSUME NEW p \in flight, Deliver(p) PROVE Coherent'
  BY <1>7, DeliverInOrder
<1>8. CASE UNCHANGED reorderVars
  BY <1>1, <1>8 DEF reorderVars, Coherent, InFlight, Anchored
<1> QED
  BY <1>3, <1>4, <1>5, <1>6, <1>7, <1>8 DEF ReorderNext

(* No step takes restarts back to zero.                                    *)
LEMMA NeverUnrestarted == Window /\ [ReorderNext]_reorderVars /\ restarts' = 0 => restarts = 0
BY DEF Window, ReorderTypeOK, ReorderNext, Send, Restart, Connected, DropLate, Deliver, reorderVars

(* Packets go on in the camera's order, each at most once in a connection, *)
(* for every window, number space and stream length: as long as the        *)
(* network delays no packet past the window, loses less than half a number *)
(* space in one go, and the camera does not renumber.                      *)
THEOREM KeepsOrder ==
  ASSUME Delay <= ResyncBack, Burst <= Half
  PROVE  ReorderSpec => InOrder
<1> DEFINE Kept == Window /\ (restarts = 0 => Coherent)
<1>1. ReorderInit => Kept
  BY InitWindow, InitCoherent
<1>2. Kept /\ [ReorderNext]_reorderVars => Kept'
  BY StepKeepsWindow, NeverUnrestarted, StepCoherent
<1>3. Kept /\ [ReorderNext]_reorderVars =>
        [rx.init /\ restarts' = 0 => \A i \in 1..Len(out') :
           /\ out'[i].idx >= base
           /\ out'[i].idx = out'[1].idx + i - 1]_reorderVars
  <2> SUFFICES ASSUME Kept, ReorderNext, rx.init, restarts' = 0, NEW i \in 1..Len(out')
               PROVE  out'[i].idx >= base /\ out'[i].idx = out'[1].idx + i - 1
    BY DEF reorderVars
  <2>1. Coherent
    BY NeverUnrestarted
  <2>2. CASE out' = <<>>
    BY <2>2, EmptySeq
  <2>3. CASE out' # <<>>
    <3>1. PICK p \in flight : Deliver(p)
      BY <2>3 DEF ReorderNext, Send, Restart, Connected, DropLate
    <3> QED
      BY <2>1, <3>1, DeliverInOrder
  <2> QED
    BY <2>2, <2>3
<1> QED
  BY <1>1, <1>2, <1>3, PTL DEF ReorderSpec, InOrder

(* No packet is passed over in silence when no more than ResyncFwd of them *)
(* are missing in a row.                                                   *)
THEOREM TellsEveryHole ==
  ASSUME Delay <= ResyncBack, Delay <= ResyncFwd + 1, Burst <= ResyncFwd + 1
  PROVE  ReorderSpec => HoleIsTold
<1> DEFINE Near == Coherent /\ (rx.init => sent - base <= ResyncFwd + 1)
           Kept == Window /\ (restarts = 0 => Near)
<1>1. Burst <= Half /\ Burst \in Nat /\ ResyncFwd \in Nat /\ Delay \in Nat
  BY WindowAssumption, NetworkAssumption
<1>2. ReorderInit => Kept
  BY InitWindow, InitCoherent DEF ReorderInit, Initial
<1>3. Kept /\ [ReorderNext]_reorderVars => Kept'
  <2> SUFFICES ASSUME Kept, [ReorderNext]_reorderVars, restarts' = 0 PROVE Near'
    BY StepKeepsWindow
  <2>1. restarts = 0 /\ Near
    BY NeverUnrestarted
  <2>2. Coherent'
    BY <1>1, <2>1, StepCoherent
  <2>3. sent \in Nat /\ base \in Nat
    BY DEF Window, ReorderTypeOK
  <2>4. CASE Send
    BY <1>1, <2>1, <2>2, <2>3, <2>4 DEF Send
  <2>5. CASE Restart \/ Connected \/ UNCHANGED reorderVars
    BY <2>1, <2>2, <2>5 DEF Restart, Connected, Initial, reorderVars
  <2>6. ASSUME NEW p \in flight, DropLate(p) PROVE Near'
    BY <2>1, <2>2, <2>6 DEF DropLate
  <2>7. ASSUME NEW p \in flight, Deliver(p) PROVE Near'
    <3>1. PICK c \in Nat : base' = c /\ c >= (IF rx.init THEN base ELSE p.idx)
      BY <2>1, <2>7, DeliverInOrder
    <3>2. p.idx \in Nat /\ sent - Delay <= p.idx
      BY <2>1 DEF Coherent, InFlight, Window, ReorderTypeOK, RtpPacket
    <3>3. sent - c <= ResyncFwd + 1
      BY <1>1, <2>1, <2>3, <3>1, <3>2
    <3>4. (rx.init => sent - base <= ResyncFwd + 1)'
      <4>1. sent' = sent
        BY <2>7 DEF Deliver
      <4> QED
        BY <3>1, <3>3, <4>1
    <3> QED
      BY <2>2, <3>4
  <2> QED
    BY <2>4, <2>5, <2>6, <2>7 DEF ReorderNext
<1>4. Kept /\ [ReorderNext]_reorderVars =>
        [rx.init /\ restarts' = 0 /\ out' # <<>> /\ out'[1].idx # base => told']_reorderVars
  <2> SUFFICES ASSUME Kept, ReorderNext, rx.init, restarts' = 0, out' # <<>>
               PROVE  out'[1].idx = base \/ told'
    BY DEF reorderVars
  <2>1. Near
    BY NeverUnrestarted
  <2>2. PICK p \in flight : Deliver(p)
    BY DEF ReorderNext, Send, Restart, Connected, DropLate
  <2>3. p.idx \in Nat /\ p.idx < sent /\ sent \in Nat /\ base \in Nat
    BY <2>1 DEF Coherent, InFlight, Window, ReorderTypeOK, RtpPacket
  <2>4. p.idx - base <= ResyncFwd
    BY <1>1, <2>1, <2>3
  <2> QED
    BY <2>1, <2>2, <2>4, DeliverInOrder
<1> QED
  BY <1>2, <1>3, <1>4, PTL DEF ReorderSpec, HoleIsTold

-----------------------------------------------------------------------------

(***************************************************************************)
(* The keyframe cache and the RTSP clients.  The cache is whole because of *)
(* what the collection is while it goes on: a prefix of one keyframe whose *)
(* next packet is the one the feeding thread takes next, unless a hole is  *)
(* still to be told or a silent break runs through it (Collection).        *)
(***************************************************************************)

(* The constants, as the provers want them.                                *)
LEMMA Sizes ==
  /\ Key \in Nat /\ Last \in Nat /\ Key = Last + 1 /\ 2 <= Last /\ Key = Frags + 2
  /\ Gops \in Nat /\ Gops > 0 /\ SeqSpace \in Nat /\ SeqSpace > 0
BY FanoutAssumption DEF Key, Last

LEMMA AdvanceType ==
  ASSUME NEW s \in Nat, NEW n \in Nat
  PROVE  Advance(s, n) \in 0..(SeqSpace - 1)
BY Sizes DEF Advance

LEMMA SeqIsNat == \A s \in 0..(SeqSpace - 1) : s \in Nat
BY Sizes

LEMMA NextGopType ==
  ASSUME NEW g \in 0..(Gops - 1), NEW k \in 0..Key
  PROVE  NextGop(g) \in Sent /\ [NextGop(g) EXCEPT !.part = k] \in Sent
BY Sizes DEF NextGop, Sent

LEMMA SendableType ==
  ASSUME nxt \in Sent, NEW p \in Sendable
  PROVE  p \in Sent /\ After(p) \in Sent
<1>1. nxt.gop \in 0..(Gops - 1) /\ 0 \in 0..Key
  BY Sizes DEF Sent
<1>2. p \in Sent
  BY <1>1, NextGopType DEF Sendable
<1>3. After(p) \in Sent
  <2>1. CASE p.part < Key
    BY <1>2, <2>1, Sizes DEF After, Sent
  <2>2. CASE ~(p.part < Key)
    BY <1>2, <2>2 DEF After
  <2> QED
    BY <2>1, <2>2
<1> QED
  BY <1>2, <1>3

(***************************************************************************)
(* Type correctness.                                                       *)
(***************************************************************************)
Typed ==
  /\ TypeOK
  /\ at # "idle" => hand \in Packet

LEMMA InitTyped == Init => Typed
<1> SUFFICES ASSUME Init PROVE Typed
  OBVIOUS
<1>1. nxt \in Sent
  BY Sizes DEF Init, Sent
<1>2. 0 \in 0..(SeqSpace - 1) /\ 0 \in 0..Key /\ 0 \in 0..MaxLost
  BY Sizes, FanoutAssumption
<1>3. entry \in [Clients -> Entry]
  BY <1>2 DEF Init, NoEntry, Entry
<1>4. <<>> \in Seq(Packet)
  BY EmptySeq
<1> QED
  BY <1>1, <1>2, <1>3, <1>4 DEF Init, Typed, TypeOK

LEMMA StreamTyped == ASSUME Typed, Stream PROVE Typed'
<1> USE DEF Typed, TypeOK
<1>1. CASE AskAgain
  BY <1>1 DEF AskAgain, feedVars, clientVars, history
<1>2. CASE Reset
  <2>1. nxt' \in Sent
    BY <1>2, NextGopType DEF Reset, Sent
  <2>2. lost' \in 0..MaxLost
    BY <1>2, FanoutAssumption DEF Reset
  <2> QED
    BY <1>2, <2>1, <2>2 DEF Reset, feedVars, clientVars, history
<1>3. ASSUME NEW p \in Sendable, Arrive(p) PROVE Typed'
  <2>1. p \in Sent /\ After(p) \in Sent
    BY SendableType
  <2>2. hand' \in Packet
    BY <1>3, <2>1 DEF Arrive, Sent, Packet
  <2> QED
    BY <1>3, <2>1, <2>2 DEF Arrive, Answered, clientVars, history
<1>4. ASSUME NEW p \in Sendable, Lose(p) PROVE Typed'
  <2>1. After(p) \in Sent
    BY SendableType
  <2>2. lost' \in 0..MaxLost
    BY <1>4, FanoutAssumption DEF Lose
  <2> QED
    BY <1>4, <2>1, <2>2 DEF Lose, Answered, feedVars, clientVars, history
<1> QED
  BY <1>1, <1>2, <1>3, <1>4 DEF Stream

LEMMA CollectedType ==
  ASSUME current \in Seq(Packet), NEW p \in Packet
  PROVE  Collected(p) \in Seq(Packet)
<1>1. [p EXCEPT !.cut = FALSE] \in Packet
  BY DEF Packet
<1> QED
  BY <1>1 DEF Collected

(* What fanning out does to one client, piece by piece.                    *)
LEMMA FanOutIs ==
  ASSUME FanOut
  PROVE  /\ at = "fan" /\ at' = "idle" /\ hand' = NoPacket
         /\ UNCHANGED <<streamVars, collecting, current, cache, params, local, place, copied>>
         /\ entry' = [c \in Clients |->
                        IF Gets(entry[c], hand)
                        THEN [entry[c] EXCEPT !.seq = Advance(@, Copies(entry[c], hand)),
                                              !.wait = WaitsAfter(entry[c], hand)]
                        ELSE entry[c]]
         /\ want' = [c \in Clients |->
                       IF Gets(entry[c], hand) THEN Advance(want[c], Copies(entry[c], hand))
                                               ELSE want[c]]
         /\ clean' = [c \in Clients |-> Undisturbed(clean[c], hand)]
         /\ dec' = [c \in Clients |->
                      IF Gets(entry[c], hand) THEN Decoded(entry[c], dec[c], hand) ELSE 0]
BY Zenon DEF FanOut

LEMMA FanOutTyped == ASSUME Typed, FanOut PROVE Typed'
<1>1. hand \in Packet /\ hand.part \in 0..Key
  <2>1. hand \in Packet
    BY FanOutIs, Zenon DEF Typed
  <2> QED
    BY <2>1 DEF Packet
<1>2. ASSUME NEW c \in Clients PROVE Copies(entry[c], hand) \in Nat
  <2>1. IsFiniteSet({0, 1}) /\ params \subseteq {0, 1}
    <3>1. {0, 1} = {0} \union {1}
      OBVIOUS
    <3>2. IsFiniteSet({0})
      BY FS_Singleton
    <3>3. IsFiniteSet({0} \union {1})
      BY <3>2, FS_AddElement
    <3> QED
      BY <3>1, <3>3 DEF Typed, TypeOK
  <2>2. IsFiniteSet(params)
    BY <2>1, FS_Subset
  <2>3. Cardinality(params) \in Nat
    BY <2>2, FS_CardinalityType
  <2> QED
    BY <2>3 DEF Copies
<1>3. entry' \in [Clients -> Entry]
  <2>1. ASSUME NEW c \in Clients
        PROVE  [entry[c] EXCEPT !.seq = Advance(@, Copies(entry[c], hand)),
                                !.wait = WaitsAfter(entry[c], hand)] \in Entry
    <3>1. entry[c] \in Entry
      BY DEF Typed, TypeOK
    <3>2. Advance(entry[c].seq, Copies(entry[c], hand)) \in 0..(SeqSpace - 1)
      <4>1. entry[c].seq \in Nat
        BY <3>1, SeqIsNat DEF Entry
      <4> QED
        BY <1>2, <4>1, AdvanceType
    <3>3. WaitsAfter(entry[c], hand) \in BOOLEAN
      BY <3>1 DEF WaitsAfter, Entry
    <3> QED
      BY <3>1, <3>2, <3>3 DEF Entry
  <2>2. entry \in [Clients -> Entry]
    BY DEF Typed, TypeOK
  <2>3. entry' = [c \in Clients |->
                    IF Gets(entry[c], hand)
                    THEN [entry[c] EXCEPT !.seq = Advance(@, Copies(entry[c], hand)),
                                          !.wait = WaitsAfter(entry[c], hand)]
                    ELSE entry[c]]
    BY FanOutIs, Zenon
  <2> QED
    BY <2>1, <2>2, <2>3, Zenon
<1>4. want' \in [Clients -> 0..(SeqSpace - 1)]
  <2>0. want \in [Clients -> 0..(SeqSpace - 1)]
    BY DEF Typed, TypeOK
  <2>1. ASSUME NEW c \in Clients
        PROVE  Advance(want[c], Copies(entry[c], hand)) \in 0..(SeqSpace - 1)
    <3>1. want[c] \in Nat
      BY <2>0, SeqIsNat
    <3> QED
      BY <1>2, <3>1, AdvanceType
  <2>2. want' = [c \in Clients |->
                   IF Gets(entry[c], hand) THEN Advance(want[c], Copies(entry[c], hand))
                                           ELSE want[c]]
    BY FanOutIs, Zenon
  <2> QED
    BY <2>0, <2>1, <2>2, Zenon
<1>5. clean' \in [Clients -> BOOLEAN]
  <2>1. ASSUME NEW b \in BOOLEAN PROVE Undisturbed(b, hand) \in BOOLEAN
    BY DEF Undisturbed
  <2>2. clean \in [Clients -> BOOLEAN]
    BY DEF Typed, TypeOK
  <2>3. clean' = [c \in Clients |-> Undisturbed(clean[c], hand)]
    BY FanOutIs, Zenon
  <2> QED
    BY <2>1, <2>2, <2>3, Zenon
<1>6. dec' \in [Clients -> 0..Key]
  <2>1. ASSUME NEW c \in Clients PROVE Decoded(entry[c], dec[c], hand) \in 0..Key
    <3>1. dec[c] \in 0..Key
      BY DEF Typed, TypeOK
    <3>2. dec[c] # Key /\ hand.part = dec[c] => hand.part + 1 \in 0..Key
      BY <1>1, <3>1, Sizes
    <3>3. hand.part = 2 => hand.part + 1 \in 0..Key
      BY Sizes
    <3>4. 0 \in 0..Key /\ 1 \in 0..Key /\ Key \in 0..Key
      BY Sizes
    <3>5. dec[c] = Key /\ hand.cut /\ hand.part = dec[c]
            => Decoded(entry[c], dec[c], hand) \in 0..Key
      BY <3>3, <3>4 DEF Decoded
    <3> QED
      BY <3>2, <3>3, <3>4, <3>5 DEF Decoded
  <2>2. 0 \in 0..Key
    BY Sizes
  <2>3. dec' = [c \in Clients |->
                  IF Gets(entry[c], hand) THEN Decoded(entry[c], dec[c], hand) ELSE 0]
    BY FanOutIs, Zenon
  <2> QED
    BY <2>1, <2>2, <2>3, Zenon
<1>7. /\ nxt' = nxt /\ requested' = requested /\ lost' = lost /\ gap' = gap
      /\ at' = "idle" /\ hand' = NoPacket
      /\ UNCHANGED <<collecting, current, cache, params, local, place, copied>>
  BY FanOutIs, Zenon DEF streamVars
<1> QED
  BY <1>3, <1>4, <1>5, <1>6, <1>7 DEF Typed, TypeOK

LEMMA FeedTyped == ASSUME Typed, Feed PROVE Typed'
<1> USE DEF Typed, TypeOK
<1>1. CASE TellClients
  <2>1. entry' \in [Clients -> Entry]
    BY <1>1 DEF TellClients, Entry
  <2>2. dec' \in [Clients -> 0..Key]
    BY <1>1, Sizes DEF TellClients
  <2>3. clean' \in [Clients -> BOOLEAN]
    BY <1>1 DEF TellClients, Entry, Between
  <2> QED
    BY <1>1, <2>1, <2>2, <2>3 DEF TellClients, streamVars
<1>2. CASE TellCache
  BY <1>2, EmptySeq DEF TellCache, AfterHole, clientVars, history
<1>3. CASE Store
  <2>1. hand \in Packet /\ Collected(hand) \in Seq(Packet)
    BY <1>3, CollectedType DEF Store
  <2> QED
    BY <1>3, <2>1 DEF Store, streamVars, clientVars, history
<1>4. CASE FanOut
  BY <1>4, FanOutTyped
<1> QED
  BY <1>1, <1>2, <1>3, <1>4 DEF Feed

LEMMA ClientTyped == ASSUME Typed, NEW c \in Clients, Client(c) PROVE Typed'
<1> USE DEF Typed, TypeOK
<1>1. 0 \in 0..(SeqSpace - 1) /\ 0 \in 0..Key
  BY Sizes
<1>2. Fresh(TRUE) \in Entry /\ Fresh(FALSE) \in Entry /\ NoEntry \in Entry
  BY <1>1 DEF Fresh, NoEntry, Entry
<1>3. CASE Connect(c)
  BY <1>2, <1>3 DEF Connect, streamVars, feedVars, history
<1>4. ASSUME Restarted(c), entry'[c] \in Entry
      PROVE  /\ clean' \in [Clients -> BOOLEAN]
             /\ want' \in [Clients -> 0..(SeqSpace - 1)]
             /\ dec' \in [Clients -> 0..Key]
  BY <1>1, <1>4 DEF Restarted, Between, Entry
<1>10. CASE Setup(c)
  <2>1. entry' \in [Clients -> Entry] /\ entry'[c] \in Entry
    BY <1>2, <1>10 DEF Setup
  <2> QED
    BY <1>4, <1>10, <2>1 DEF Setup, streamVars, feedVars
<1>5. CASE Play(c)
  <2>1. entry' \in [Clients -> Entry] /\ entry'[c] \in Entry
    BY <1>2, <1>5 DEF Play
  <2> QED
    BY <1>4, <1>5, <2>1 DEF Play, streamVars, feedVars
<1>6. CASE Copy(c)
  BY <1>6 DEF Copy, feedVars, history
<1>7. CASE Prime(c)
  <2>1. Len(copied[c]) \in Nat
    OBVIOUS
  <2>2. entry[c] \in Entry /\ entry[c].seq \in Nat /\ want[c] \in Nat
    BY SeqIsNat DEF Entry
  <2>3. Primed(entry[c], Len(copied[c])) \in Entry
    <3>1. Advance(entry[c].seq, Len(copied[c])) \in 0..(SeqSpace - 1)
      BY <2>1, <2>2, AdvanceType
    <3> QED
      BY <2>2, <3>1 DEF Primed, Entry
  <2>4. Advance(want[c], Len(copied[c])) \in 0..(SeqSpace - 1)
    BY <2>1, <2>2, AdvanceType
  <2> QED
    BY <1>1, <1>7, <2>3, <2>4, EmptySeq DEF Prime, feedVars
<1>8. CASE Teardown(c)
  BY <1>8 DEF Teardown, streamVars, feedVars, history
<1>9. CASE Leave(c)
  BY <1>1, <1>2, <1>9 DEF Leave, streamVars, feedVars
<1> QED
  BY <1>3, <1>10, <1>5, <1>6, <1>7, <1>8, <1>9 DEF Client

LEMMA StepTyped == Typed /\ [Next]_vars => Typed'
<1>1. Typed /\ UNCHANGED vars => Typed'
  BY DEF Typed, TypeOK, vars, streamVars, feedVars, clientVars, history
<1> QED
  BY <1>1, StreamTyped, FeedTyped, ClientTyped DEF Next

(* The state of the server is well typed for any clients and any stream.   *)
THEOREM FanoutTypeCorrect == Spec => []TypeOK
<1>1. Typed => TypeOK
  BY DEF Typed
<1> QED
  BY <1>1, InitTyped, StepTyped, PTL DEF Spec

(***************************************************************************)
(* The keyframe cache.                                                     *)
(***************************************************************************)

(* The collection: it begins with a VPS and, unless a silent break is in   *)
(* it, is the start of one keyframe; what comes next is then its next      *)
(* packet, a slice or a new VPS, or behind a break, or the news of a hole  *)
(* clears it first.                                                        *)
Plain(p) == [gop |-> p.gop, part |-> p.part]

Follows(p, s) == (p.gop = s[1].gop /\ p.part = Len(s)) \/ p.part \in {0, Key}

Collection ==
  /\ at # "idle" => nxt = After(Plain(hand))
  /\ collecting =>
       /\ Len(current) > 0 /\ current[1].part = 0
       /\ Unbroken(current) =>
            /\ Starts(current, Len(current)) /\ Len(current) <= Last
            /\ at \in {"idle", "fan"} /\ gap = "none" => Follows(nxt, current)
            /\ at = "store" /\ ~hand.cut => Follows(hand, current)

(* What may be cached.                                                     *)
Fine(s) == s # <<>> => s[1].part = 0 /\ (Unbroken(s) => Starts(s, Key))

LEMMA CacheWholeIs ==
  CacheWhole <=> Fine(cache) /\ \A c \in Clients : Fine(copied[c])
BY DEF CacheWhole, Fine

Cached == Typed /\ CacheWhole /\ Collection

LEMMA InitCached == Init => Cached
<1> SUFFICES ASSUME Init PROVE Fine(cache) /\ (\A c \in Clients : Fine(copied[c])) /\ Collection
  BY InitTyped, CacheWholeIs DEF Cached
<1>1. at = "idle" /\ collecting = FALSE /\ cache = <<>> /\ copied = [c \in Clients |-> <<>>]
  BY Zenon DEF Init
<1> QED
  BY <1>1 DEF Fine, Collection

(* One more packet of the same keyframe.                                   *)
LEMMA StartsGrow ==
  ASSUME NEW s \in Seq(Packet), Len(s) > 0, NEW p \in Packet,
         Unbroken(Append(s, p))
  PROVE  /\ Unbroken(s) /\ ~p.cut
         /\ Append(s, p) # <<>> /\ Append(s, p)[1] = s[1]
         /\ Starts(s, Len(s)) /\ p.part = Len(s) /\ p.gop = s[1].gop
              => Starts(Append(s, p), Len(s) + 1)
<1> DEFINE t == Append(s, p)
<1>1. /\ Len(t) = Len(s) + 1 /\ Len(s) \in Nat /\ t[Len(s) + 1] = p
      /\ \A i \in 1..Len(s) : t[i] = s[i]
  OBVIOUS
<1>2. t # <<>> /\ t[1] = s[1]
  BY <1>1
<1> HIDE DEF t
<1>3. Unbroken(t)
  BY DEF t
<1>4. \A i \in 1..Len(s) : i \in 1..Len(t)
  BY <1>1
<1>5. Len(s) + 1 \in 1..Len(t)
  BY <1>1
<1>6. Unbroken(s) /\ ~p.cut
  <2>1. ~t[Len(s) + 1].cut
    BY <1>3, <1>5 DEF Unbroken
  <2>2. \A i \in 1..Len(s) : ~s[i].cut
    BY <1>1, <1>3, <1>4 DEF Unbroken
  <2> QED
    BY <1>1, <2>1, <2>2 DEF Unbroken
<1>7. ASSUME Starts(s, Len(s)), p.part = Len(s), p.gop = s[1].gop
      PROVE  Starts(t, Len(s) + 1)
  <2>1. \A i \in 1..Len(s) : t[i].part = i - 1 /\ t[i].gop = t[1].gop
    BY <1>1, <1>2, <1>7 DEF Starts
  <2>2. t[Len(s) + 1].part = Len(s) + 1 - 1 /\ t[Len(s) + 1].gop = t[1].gop
    BY <1>1, <1>2, <1>7
  <2>3. \A i \in 1..(Len(s) + 1) : i \in 1..Len(s) \/ i = Len(s) + 1
    BY <1>1
  <2> QED
    BY <1>1, <2>1, <2>2, <2>3 DEF Starts
<1> QED
  BY <1>2, <1>6, <1>7 DEF t

(* The feeding thread stores a packet.                                     *)
LEMMA StoreCached == ASSUME Cached, Store PROVE Fine(cache') /\ Collection'
<1>1. /\ at = "store" /\ at' = "fan" /\ nxt = After(Plain(hand))
      /\ hand \in Packet /\ hand' = hand /\ nxt' = nxt /\ gap' = gap
      /\ current \in Seq(Packet) /\ current' = Collected(hand)
  BY DEF Store, Cached, Collection, Typed, TypeOK, streamVars
<1>2. /\ hand.gop \in 0..(Gops - 1) /\ hand.part \in 0..Key /\ hand.cut \in BOOLEAN
      /\ nxt.gop = hand.gop
      /\ hand.part < Key => nxt.part = hand.part + 1
      /\ hand.part = Key => nxt.part = Key
  BY <1>1, Sizes DEF Packet, After, Plain
<1>3. Fine(cache)
  BY CacheWholeIs DEF Cached
<1>4. nxt' = After(Plain(hand'))
  BY <1>1
<1>5. CASE hand.part = 0
  <2>1. hand.part # Last /\ hand.part < Key
    BY <1>5, Sizes
  <2>2. collecting' = TRUE /\ cache' = cache
    BY <1>5, <2>1, Zenon DEF Store
  <2>3. current' = <<[hand EXCEPT !.cut = FALSE]>>
    BY <1>1, <1>5 DEF Collected
  <2>4. Len(current') = 1 /\ current'[1].part = 0 /\ current'[1].gop = hand.gop
    <3>1. ASSUME NEW q, q = [hand EXCEPT !.cut = FALSE]
          PROVE  q.part = 0 /\ q.gop = hand.gop
      BY <1>1, <1>5, <3>1 DEF Packet
    <3>2. Len(current') = 1 /\ current'[1] = [hand EXCEPT !.cut = FALSE]
      BY <2>3
    <3> QED
      BY <3>1, <3>2
  <2>5. Starts(current', 1) /\ 1 <= Last
    BY <2>4, Sizes DEF Starts
  <2>6. Follows(nxt, current')
    BY <1>2, <1>5, <2>1, <2>4 DEF Follows
  <2> QED
    BY <1>1, <1>3, <1>4, <2>2, <2>4, <2>5, <2>6 DEF Collection
<1>6. CASE hand.part # 0 /\ ~collecting
  <2>1. ~collecting' /\ cache' = cache
    BY <1>6 DEF Store
  <2> QED
    BY <1>1, <1>3, <1>4, <2>1 DEF Collection
<1>7. CASE hand.part # 0 /\ collecting
  <2>1. /\ Len(current) > 0 /\ current[1].part = 0 /\ current # <<>> /\ Len(current) \in Nat
        /\ Unbroken(current) => /\ Starts(current, Len(current)) /\ Len(current) <= Last
                                /\ ~hand.cut => Follows(hand, current)
    BY <1>1, <1>7 DEF Cached, Collection
  <2>2. CASE hand.part = Key
    <3>1. Collected(hand) = current /\ hand.part # Last
      BY <1>7, <2>2, Sizes DEF Collected
    <3>2. collecting' = TRUE /\ cache' = cache
      BY <1>7, <3>1, Zenon DEF Store
    <3>3. Follows(nxt, current)
      BY <1>2, <2>2 DEF Follows
    <3> QED
      BY <1>1, <1>3, <1>4, <2>1, <3>1, <3>2, <3>3 DEF Collection
  <2>3. CASE hand.part # Key
    <3> DEFINE t == Append(current, hand)
    <3>1. hand.part < Key
      BY <1>2, <2>3, Sizes
    <3>2. Collected(hand) = t
      BY <1>7, <3>1 DEF Collected
    <3>3. t[1] = current[1] /\ t # <<>> /\ Len(t) = Len(current) + 1
      BY <1>1, <2>1
    <3> HIDE DEF t
    <3>4. ASSUME Unbroken(t)
          PROVE  Starts(t, Len(t)) /\ hand.part = Len(current) /\ hand.gop = t[1].gop
      <4>1. Unbroken(current) /\ ~hand.cut
        BY <1>1, <2>1, <3>4, StartsGrow DEF t
      <4>2. hand.gop = current[1].gop /\ hand.part = Len(current)
        BY <1>7, <2>1, <2>3, <4>1 DEF Follows
      <4>3. Starts(t, Len(current) + 1)
        BY <1>1, <2>1, <3>4, <4>1, <4>2, StartsGrow DEF t
      <4> QED
        BY <3>3, <4>2, <4>3
    <3>5. CASE hand.part = Last
      <4>1. cache' = t /\ collecting' = FALSE
        BY <1>7, <3>2, <3>5, Zenon DEF Store
      <4>2. Unbroken(t) => Starts(t, Key)
        BY <2>1, <3>3, <3>4, <3>5, Sizes
      <4>3. Fine(t)
        BY <2>1, <3>3, <4>2 DEF Fine
      <4> QED
        BY <1>1, <1>4, <4>1, <4>3 DEF Collection
    <3>6. CASE hand.part # Last
      <4>1. cache' = cache /\ collecting' = TRUE /\ current' = t
        BY <1>1, <1>7, <3>2, <3>6, Zenon DEF Store
      <4>2. Unbroken(t) => Len(t) <= Last /\ Follows(nxt, t)
        <5>1. hand.part + 1 <= Last
          BY <1>2, <3>1, <3>6, Sizes
        <5> QED
          BY <1>2, <2>1, <3>1, <3>3, <3>4, <5>1 DEF Follows
      <4>3. Len(t) > 0 /\ t[1].part = 0
        BY <2>1, <3>3
      <4> QED
        BY <1>1, <1>3, <1>4, <3>4, <4>1, <4>2, <4>3 DEF Collection
    <3> QED
      BY <3>5, <3>6
  <2> QED
    BY <2>2, <2>3
<1> QED
  BY <1>5, <1>6, <1>7

LEMMA StepCached == Cached /\ [Next]_vars => Cached'
<1> SUFFICES ASSUME Cached, [Next]_vars PROVE CacheWhole' /\ Collection'
  BY StepTyped DEF Cached
<1>0. CacheWhole /\ Collection
  BY DEF Cached
<1>1. CASE AskAgain \/ UNCHANGED vars
  <2>1. UNCHANGED <<nxt, gap, hand, at, collecting, current, cache, copied>>
    BY <1>1 DEF AskAgain, feedVars, clientVars, vars, streamVars
  <2> QED
    BY <1>0, <2>1 DEF CacheWhole, Collection
<1>2. CASE Reset
  <2>1. /\ UNCHANGED <<hand, at, collecting, current, cache, copied>>
        /\ at = "idle" /\ gap' = "silent"
    BY <1>2 DEF Reset, feedVars, clientVars
  <2> QED
    BY <1>0, <2>1 DEF CacheWhole, Collection
<1>3. ASSUME NEW p \in Sendable, Arrive(p) PROVE CacheWhole' /\ Collection'
  <2>1. CacheWhole'
    BY <1>0, <1>3 DEF Arrive, CacheWhole, clientVars
  <2>2. /\ hand' = [gop |-> p.gop, part |-> p.part, cut |-> gap = "silent"]
        /\ nxt' = After(p) /\ at = "idle" /\ at' \in {"clients", "store"}
        /\ at' = "store" => gap # "told"
        /\ UNCHANGED <<collecting, current>>
    BY <1>3 DEF Arrive
  <2>3. nxt \in Sent /\ p \in Sent
    BY SendableType DEF Cached, Typed, TypeOK
  <2>4. nxt' = After(Plain(hand'))
    <3>1. Plain(hand') = p
      BY <2>2, <2>3 DEF Plain, Sent
    <3> QED
      BY <2>2, <3>1
  <2>5. ASSUME collecting, Unbroken(current), at' = "store", ~hand'.cut
        PROVE  Follows(hand', current)
    <3>1. gap = "none"
      BY <2>2, <2>5 DEF Cached, Typed, TypeOK
    <3>2. Follows(nxt, current)
      BY <1>0, <2>2, <2>5, <3>1 DEF Collection
    <3>3. p = nxt \/ p.part = 0
      BY DEF Sendable, NextGop
    <3> QED
      BY <2>2, <3>2, <3>3 DEF Follows
  <2> QED
    BY <1>0, <2>1, <2>2, <2>4, <2>5 DEF Collection
<1>4. ASSUME NEW p \in Sendable, Lose(p) PROVE CacheWhole' /\ Collection'
  <2>1. /\ UNCHANGED <<hand, at, collecting, current, cache, copied>>
        /\ at = "idle" /\ gap' # "none"
    BY <1>4 DEF Lose, feedVars, clientVars
  <2> QED
    BY <1>0, <2>1 DEF CacheWhole, Collection
<1>5. CASE TellClients
  <2>1. /\ UNCHANGED <<nxt, hand, gap, collecting, current, cache, copied>>
        /\ at = "clients" /\ at' = "cache"
    BY <1>5, Zenon DEF TellClients, streamVars
  <2> QED
    BY <1>0, <2>1 DEF CacheWhole, Collection
<1>6. CASE TellCache
  BY <1>0, <1>6 DEF TellCache, AfterHole, CacheWhole, Collection, clientVars
<1>7. CASE Store
  <2>1. copied' = copied
    BY <1>7 DEF Store, clientVars
  <2>2. Fine(cache') /\ Collection' /\ \A c \in Clients : Fine(copied'[c])
    BY <1>0, <1>7, <2>1, StoreCached, CacheWholeIs
  <2> QED
    BY <2>2, CacheWholeIs DEF Fine, CacheWhole
<1>8. CASE FanOut
  <2>1. /\ UNCHANGED <<nxt, gap, collecting, current, cache, copied>>
        /\ at = "fan" /\ at' = "idle"
    BY <1>8, FanOutIs, Zenon DEF streamVars
  <2> QED
    BY <1>0, <2>1 DEF CacheWhole, Collection
<1>9. ASSUME NEW c \in Clients, Client(c) PROVE CacheWhole' /\ Collection'
  <2>1. /\ UNCHANGED <<nxt, gap, hand, at, collecting, current, cache>>
        /\ copied \in [Clients -> Seq(Packet)]
    BY <1>9 DEF Client, Connect, Setup, Play, Copy, Prime, Teardown, Leave, streamVars,
                feedVars, Cached, Typed, TypeOK
  <2>2. Collection'
    BY <1>0, <2>1 DEF Collection
  <2>3. copied' = copied \/ \E s \in {cache, <<>>} : copied' = [copied EXCEPT ![c] = s]
    BY <1>9 DEF Client, Connect, Setup, Play, Copy, Prime, Teardown, Leave
  <2>4. Fine(cache) /\ Fine(<<>>) /\ \A k \in Clients : Fine(copied[k])
    BY <1>0, CacheWholeIs DEF Fine
  <2>5. \A k \in Clients : Fine(copied'[k])
    BY <2>1, <2>3, <2>4
  <2> QED
    BY <2>1, <2>2, <2>4, <2>5 DEF CacheWhole, Fine
<1> QED
  BY <1>1, <1>2, <1>3, <1>4, <1>5, <1>6, <1>7, <1>8, <1>9 DEF Next, Stream, Feed

(* What the cache holds, and what a client's thread is about to send,      *)
(* begins with a VPS and is one whole keyframe unless a silent break runs  *)
(* through it: nothing the window tells of leaves a hole or a mixture.     *)
THEOREM CacheIsWhole == Spec => []CacheWhole
<1>1. Cached => CacheWhole
  BY DEF Cached
<1> QED
  BY <1>1, InitCached, StepCached, PTL DEF Spec

(***************************************************************************)
(* The clients.                                                            *)
(***************************************************************************)

(* While a client waits and its wait began outside of a keyframe, the      *)
(* packet it is sent next continues what its decoder has, or begins a      *)
(* keyframe anew; unless a silent break or the news of a hole comes first. *)
InRow(d, p) == Between(p) \/ d = p.part

Continues(c) ==
  /\ at = "idle" /\ gap = "none" => InRow(dec[c], nxt)
  /\ at \in {"cache", "store", "fan"} /\ ~hand.cut => InRow(dec[c], hand)

Ready(c) ==
  entry[c].playing =>
    /\ entry[c].here
    /\ ~entry[c].wait /\ clean[c] => dec[c] = Key
    /\ entry[c].wait => dec[c] # Key
    /\ entry[c].wait /\ clean[c] => Continues(c)

Served ==
  /\ Cached
  /\ \A c \in Clients : Ready(c) /\ (entry[c].playing => entry[c].seq = want[c])

LEMMA InitServed == Init => Served
<1> SUFFICES ASSUME Init PROVE Served
  OBVIOUS
<1>1. at = "idle" /\ entry = [c \in Clients |-> NoEntry]
  BY Zenon DEF Init
<1> QED
  BY <1>1, InitCached DEF Served, NoEntry, Ready

(* The packet is fanned out to a client that plays.                        *)
LEMMA FanOutReady ==
  ASSUME Served, FanOut, NEW c \in Clients, entry[c].playing
  PROVE  Ready(c)' /\ entry'[c].seq = want'[c]
<1>1. /\ entry[c] \in Entry /\ dec[c] \in 0..Key /\ clean[c] \in BOOLEAN
      /\ entry \in [Clients -> Entry]
      /\ Ready(c) /\ entry[c].seq = want[c]
  BY DEF Served, Cached, Typed, TypeOK
<1>2. /\ at = "fan" /\ at' = "idle" /\ hand \in Packet /\ nxt = After(Plain(hand))
      /\ nxt' = nxt /\ params' = params
  BY FanOutIs, Zenon DEF Served, Cached, Collection, Typed, streamVars
<1>3. /\ hand.part \in 0..Key /\ hand.cut \in BOOLEAN
      /\ hand.part < Key => nxt.part = hand.part + 1
      /\ hand.part = Key => nxt.part = Key
  BY <1>2, Sizes DEF Packet, After, Plain
<1>4. clean'[c] = (clean[c] /\ ~hand.cut)
  <2>1. clean' = [k \in Clients |-> Undisturbed(clean[k], hand)]
    BY FanOutIs, Zenon
  <2> QED
    BY <2>1 DEF Undisturbed
<1>5. entry[c].here /\ entry[c].wait \in BOOLEAN
  BY <1>1 DEF Ready, Entry
<1>6. CASE ~Gets(entry[c], hand)
  <2>1. entry[c].wait /\ hand.part = Key
    BY <1>3, <1>5, <1>6, Sizes DEF Gets
  <2>2. entry'[c] = entry[c] /\ want'[c] = want[c] /\ dec'[c] = 0
    <3>1. entry'[c] = entry[c]
      BY <1>6, FanOutIs, Zenon
    <3>2. want'[c] = want[c] /\ dec'[c] = 0
      BY <1>6, FanOutIs, Zenon
    <3> QED
      BY <3>1, <3>2
  <2>3. Between(nxt)'
    BY <1>2, <1>3, <2>1 DEF Between
  <2>4. Continues(c)' /\ 0 # Key
    BY <1>2, <2>3, Sizes DEF Continues, InRow
  <2>5. entry'[c].wait /\ entry'[c].here /\ entry'[c].seq = want'[c]
    BY <1>1, <1>5, <2>1, <2>2
  <2> QED
    BY <2>2, <2>4, <2>5 DEF Ready
<1>7. CASE Gets(entry[c], hand)
  <2>1. /\ entry'[c] = [entry[c] EXCEPT !.seq = Advance(@, Copies(entry[c], hand)),
                                       !.wait = WaitsAfter(entry[c], hand)]
        /\ want'[c] = Advance(want[c], Copies(entry[c], hand))
        /\ dec'[c] = Decoded(entry[c], dec[c], hand)
    <3>1. entry'[c] = [entry[c] EXCEPT !.seq = Advance(@, Copies(entry[c], hand)),
                                       !.wait = WaitsAfter(entry[c], hand)]
      BY <1>7, FanOutIs, Zenon
    <3>2. want'[c] = Advance(want[c], Copies(entry[c], hand))
      BY <1>7, FanOutIs, Zenon
    <3>3. dec'[c] = Decoded(entry[c], dec[c], hand)
      BY <1>7, FanOutIs, Zenon
    <3> QED
      BY <3>1, <3>2, <3>3
  <2>2. /\ entry'[c].seq = want'[c] /\ entry'[c].here
        /\ entry'[c].wait = (entry[c].wait /\ hand.part # Last)
    BY <1>1, <1>5, <2>1 DEF Entry, WaitsAfter
  <2>3. CASE ~entry[c].wait
    <3>1. ~entry'[c].wait
      BY <2>2, <2>3
    <3>2. clean'[c] => dec'[c] = Key
      <4>1. SUFFICES ASSUME clean[c], ~hand.cut PROVE dec'[c] = Key
        BY <1>4
      <4>2. dec[c] = Key
        BY <1>1, <2>3, <4>1 DEF Ready
      <4> QED
        BY <2>1, <4>1, <4>2 DEF Decoded
    <3> QED
      BY <2>2, <3>1, <3>2 DEF Ready
  <2>4. CASE entry[c].wait
    <3>1. dec[c] # Key /\ hand.part < Key /\ nxt.part = hand.part + 1
      BY <1>1, <1>3, <1>7, <2>4 DEF Ready, Gets
    (* The decoder has a keyframe exactly at its end.                      *)
    <3>2. CASE hand.part = Last
      <4>1. ~entry'[c].wait
        BY <2>2, <3>2
      <4>2. ASSUME clean'[c] PROVE dec'[c] = Key
        <5>1. InRow(dec[c], hand) /\ ~hand.cut
          BY <1>1, <1>2, <1>4, <2>4, <4>2 DEF Ready, Continues
        <5>2. dec[c] = hand.part \/ (hand.part = 2 /\ params = {0, 1})
          BY <3>1, <3>2, <5>1, Sizes DEF InRow, Between
        <5>3. Last + 1 = Key /\ Last # 0
          BY Sizes
        <5> QED
          BY <2>1, <2>4, <3>1, <3>2, <5>1, <5>2, <5>3 DEF Decoded
      <4> QED
        BY <2>2, <4>1, <4>2 DEF Ready
    <3>3. CASE hand.part # Last
      <4>1. entry'[c].wait
        BY <2>2, <2>4, <3>3
      <4>2. hand.part + 1 < Key /\ 0 < Key /\ 1 < Key
        BY <1>3, <3>1, <3>3, Sizes
      <4>3. dec'[c] # Key
        BY <1>1, <2>1, <3>1, <4>2 DEF Decoded
      <4>4. ASSUME clean'[c] PROVE InRow(dec'[c], nxt)
        <5>1. InRow(dec[c], hand) /\ ~hand.cut
          BY <1>1, <1>2, <1>4, <2>4, <4>4 DEF Ready, Continues
        <5>2. CASE hand.part = 0
          <6>1. dec'[c] = 1
            BY <2>1, <3>1, <5>2 DEF Decoded
          <6> QED
            BY <3>1, <5>2, <6>1 DEF InRow
        <5>3. CASE hand.part = 1 /\ params = {0, 1}
          BY <3>1, <5>3 DEF InRow, Between
        <5>4. CASE hand.part # 0 /\ (dec[c] = hand.part \/ (hand.part = 2 /\ params = {0, 1}))
          <6>1. dec'[c] = hand.part + 1
            BY <2>1, <2>4, <3>1, <5>1, <5>4 DEF Decoded
          <6> QED
            BY <3>1, <6>1 DEF InRow
        <5>5. \/ hand.part = 0
              \/ hand.part = 1 /\ params = {0, 1}
              \/ hand.part # 0 /\ (dec[c] = hand.part \/ (hand.part = 2 /\ params = {0, 1}))
          <6>1. dec[c] = hand.part \/ hand.part = 0 \/ (hand.part <= 2 /\ params = {0, 1})
            BY <3>1, <5>1, Sizes DEF InRow, Between
          <6>2. hand.part <= 2 => hand.part = 0 \/ hand.part = 1 \/ hand.part = 2
            BY <1>3, Sizes
          <6> QED
            BY <6>1, <6>2, Zenon
        <5> QED
          BY <5>2, <5>3, <5>4, <5>5
      <4>5. ASSUME clean'[c] PROVE Continues(c)'
        <5>1. InRow(dec'[c], nxt)
          BY <4>4, <4>5
        <5>2. InRow(dec[c], nxt)'
          BY <1>2, <5>1 DEF InRow, Between
        <5> QED
          BY <1>2, <5>2 DEF Continues
      <4> QED
        BY <2>2, <4>1, <4>3, <4>5 DEF Ready
    <3> QED
      BY <3>2, <3>3
  <2> QED
    BY <2>2, <2>3, <2>4
<1> QED
  BY <1>6, <1>7

LEMMA StreamReady ==
  ASSUME Served, Stream \/ UNCHANGED vars, NEW c \in Clients, entry[c].playing
  PROVE  Ready(c)' /\ entry'[c].seq = want'[c]
<1>1. Ready(c) /\ entry[c].seq = want[c]
  BY DEF Served
<1>2. UNCHANGED <<entry, want, dec, clean, params>>
  BY DEF Stream, AskAgain, Reset, Arrive, Lose, vars, feedVars, clientVars, history
<1>3. SUFFICES ASSUME entry[c].wait, clean[c] PROVE Continues(c)'
  BY <1>1, <1>2 DEF Ready
<1>4. Continues(c) /\ entry[c].playing
  BY <1>1, <1>3 DEF Ready
<1>5. CASE AskAgain \/ UNCHANGED vars
  <2>1. UNCHANGED <<nxt, gap, hand, at>>
    BY <1>5 DEF AskAgain, vars, streamVars, feedVars
  <2> QED
    BY <1>2, <1>4, <2>1 DEF Continues, InRow, Between
<1>6. CASE Reset \/ \E p \in Sendable : Lose(p)
  <2>1. at' = "idle" /\ gap' # "none"
    BY <1>6 DEF Reset, Lose, feedVars
  <2> QED
    BY <2>1 DEF Continues
<1>7. ASSUME NEW p \in Sendable, Arrive(p) PROVE Continues(c)'
  <2>1. /\ hand' = [gop |-> p.gop, part |-> p.part, cut |-> gap = "silent"]
        /\ at = "idle" /\ at' \in {"clients", "store"}
        /\ at' = "store" => gap # "told"
    BY <1>7 DEF Arrive
  <2>2. ASSUME at' = "store", ~hand'.cut PROVE InRow(dec[c], hand')
    <3>1. gap = "none"
      BY <2>1, <2>2 DEF Served, Cached, Typed, TypeOK
    <3>2. InRow(dec[c], nxt)
      BY <1>4, <2>1, <3>1 DEF Continues
    <3>3. hand'.part = p.part /\ (p = nxt \/ p.part = 0)
      BY <2>1 DEF Sendable, NextGop
    <3> QED
      BY <3>2, <3>3 DEF InRow, Between
  <2>3. at' = "store" /\ ~hand'.cut => InRow(dec[c], hand)'
    BY <1>2, <2>2 DEF InRow, Between
  <2> QED
    BY <2>1, <2>3 DEF Continues
<1> QED
  BY <1>5, <1>6, <1>7 DEF Stream

LEMMA TellReady ==
  ASSUME Served, TellClients \/ TellCache \/ Store, NEW c \in Clients, entry'[c].playing
  PROVE  Ready(c)' /\ entry'[c].seq = want'[c]
<1>1. /\ Ready(c)
      /\ entry[c].playing => entry[c].seq = want[c]
      /\ entry[c] \in Entry /\ entry \in [Clients -> Entry]
  BY DEF Served, Cached, Typed, TypeOK
<1>2. CASE TellClients
  <2>1. /\ at' = "cache" /\ hand' = hand /\ params' = params /\ want' = want
        /\ entry'[c] = IF entry[c].here THEN [entry[c] EXCEPT !.wait = TRUE] ELSE entry[c]
        /\ clean'[c] = (entry[c].playing /\ Between(hand))
        /\ dec'[c] = 0
    BY <1>2 DEF TellClients
  <2>2. entry[c].playing /\ entry[c].here /\ entry'[c] = [entry[c] EXCEPT !.wait = TRUE]
    <3>1. entry[c].playing
      BY <1>1, <2>1 DEF Entry
    <3> QED
      BY <1>1, <2>1, <3>1 DEF Ready
  <2>3. /\ entry'[c].here /\ entry'[c].wait /\ entry'[c].seq = want'[c]
    BY <1>1, <2>1, <2>2 DEF Entry
  <2>4. clean'[c] => Continues(c)'
    <3>1. clean'[c] => Between(hand)'
      BY <2>1 DEF Between
    <3> QED
      BY <2>1, <3>1 DEF Continues, InRow
  <2>5. 0 # Key
    BY Sizes
  <2> QED
    BY <2>1, <2>3, <2>4, <2>5 DEF Ready
<1>3. CASE TellCache \/ Store
  <2>1. UNCHANGED <<entry, want, dec, clean, hand, nxt, gap>>
    BY <1>3 DEF TellCache, Store, streamVars, clientVars, history
  <2>2. at \in {"cache", "store"} /\ at' \in {"store", "fan"}
    BY <1>3 DEF TellCache, Store
  <2>3. Between(hand) => Between(hand)'
    <3>1. params \subseteq params' /\ params' \subseteq {0, 1}
      BY <1>3 DEF TellCache, Store, Served, Cached, Typed, TypeOK
    <3> QED
      BY <2>1, <3>1 DEF Between
  <2>4. InRow(dec[c], hand) => InRow(dec[c], hand)'
    BY <2>1, <2>3 DEF InRow, Between
  <2>5. Continues(c) => Continues(c)'
    BY <2>1, <2>2, <2>4 DEF Continues
  <2> QED
    BY <1>1, <2>1, <2>5 DEF Ready
<1> QED
  BY <1>2, <1>3

(* A client's thread works on its own entry.                               *)
LEMMA ClientReady ==
  ASSUME Served, NEW k \in Clients, Client(k), NEW c \in Clients, entry'[c].playing
  PROVE  Ready(c)' /\ entry'[c].seq = want'[c]
<1>1. /\ Ready(c)
      /\ entry[c].playing => entry[c].seq = want[c]
      /\ entry[c] \in Entry /\ entry \in [Clients -> Entry]
      /\ want \in [Clients -> 0..(SeqSpace - 1)] /\ dec \in [Clients -> 0..Key]
      /\ clean \in [Clients -> BOOLEAN]
      /\ copied \in [Clients -> Seq(Packet)]
      /\ local \in [Clients -> BOOLEAN]
  BY DEF Served, Cached, Typed, TypeOK
<1>2. UNCHANGED <<at, hand, nxt, gap, params>>
  BY DEF Client, Connect, Setup, Play, Copy, Prime, Teardown, Leave, streamVars, feedVars
<1>3. ASSUME entry'[c] = entry[c], want'[c] = want[c], dec'[c] = dec[c], clean'[c] = clean[c]
      PROVE  Ready(c)' /\ entry'[c].seq = want'[c]
  <2>1. Continues(c) => Continues(c)'
    BY <1>2, <1>3 DEF Continues, InRow, Between
  <2> QED
    BY <1>1, <1>3, <2>1 DEF Ready
<1>4. CASE Copy(k) \/ Teardown(k)
  <2>1. UNCHANGED <<entry, want, dec, clean>>
    BY <1>4 DEF Copy, Teardown, history
  <2> QED
    BY <1>3, <2>1
<1>5. CASE Connect(k)
  <2>1. CASE k = c
    BY <1>1, <1>5, <2>1 DEF Connect, Fresh
  <2>2. CASE k # c
    <3>1. entry'[c] = entry[c] /\ UNCHANGED <<want, dec, clean>>
      BY <1>1, <1>5, <2>2 DEF Connect, history
    <3> QED
      BY <1>3, <3>1
  <2> QED
    BY <2>1, <2>2
<1>6. CASE Setup(k) \/ Play(k)
  <2>1. PICK b \in BOOLEAN : entry' = [entry EXCEPT ![k] = Fresh(b)]
    BY <1>1, <1>6 DEF Setup, Play
  <2>2. Restarted(k)
    BY <1>6 DEF Setup, Play
  <2>3. CASE k # c
    <3>1. entry'[c] = entry[c]
      BY <1>1, <2>1, <2>3
    <3>2. want'[c] = want[c] /\ dec'[c] = dec[c] /\ clean'[c] = clean[c]
      BY <1>1, <2>2, <2>3 DEF Restarted
    <3> QED
      BY <1>3, <3>1, <3>2
  <2>4. CASE k = c
    <3>1. entry'[c] = Fresh(b) /\ entry'[c].playing = b /\ entry'[c].here /\ entry'[c].wait
          /\ entry'[c].seq = 0
      BY <1>1, <2>1, <2>4 DEF Fresh
    <3>2. want'[c] = 0 /\ dec'[c] = 0 /\ (clean'[c] => Between(Upcoming))
      BY <1>1, <2>2, <2>4 DEF Restarted
    <3>3. Between(Upcoming) => Continues(c)'
      BY <1>2 DEF Upcoming, Continues, InRow, Between
    <3>4. 0 # Key
      BY Sizes
    <3> QED
      BY <3>1, <3>2, <3>3, <3>4 DEF Ready
  <2> QED
    BY <2>3, <2>4
<1>7. CASE Prime(k)
  <2>1. CASE k # c
    <3>1. entry'[c] = entry[c] /\ want'[c] = want[c] /\ dec'[c] = dec[c] /\ clean'[c] = clean[c]
      BY <1>1, <1>7, <2>1 DEF Prime
    <3> QED
      BY <1>3, <3>1
  <2>2. CASE k = c
    <3>1. /\ entry'[c] = [entry[c] EXCEPT !.seq = Advance(@, Len(copied[c])), !.wait = FALSE]
          /\ want'[c] = Advance(want[c], Len(copied[c]))
          /\ clean'[c] = FALSE
      BY <1>1, <1>7, <2>2 DEF Prime, Primed
    <3>2. entry[c].playing /\ entry'[c].here = entry[c].here /\ ~entry'[c].wait
          /\ entry'[c].seq = Advance(entry[c].seq, Len(copied[c]))
      BY <1>1, <3>1 DEF Entry
    <3>3. entry[c].here /\ entry[c].seq = want[c]
      BY <1>1, <3>2 DEF Ready
    <3> QED
      BY <3>1, <3>2, <3>3 DEF Ready
  <2> QED
    BY <2>1, <2>2
<1>8. CASE Leave(k)
  <2>1. CASE k = c
    BY <1>1, <1>8, <2>1 DEF Leave, NoEntry
  <2>2. CASE k # c
    <3>1. entry'[c] = entry[c] /\ want'[c] = want[c] /\ dec'[c] = dec[c] /\ clean'[c] = clean[c]
      BY <1>1, <1>8, <2>2 DEF Leave
    <3> QED
      BY <1>3, <3>1
  <2> QED
    BY <2>1, <2>2
<1> QED
  BY <1>4, <1>5, <1>6, <1>7, <1>8 DEF Client

LEMMA StepServed == Served /\ [Next]_vars => Served'
<1> SUFFICES ASSUME Served, [Next]_vars, NEW c \in Clients, entry'[c].playing
             PROVE  Ready(c)' /\ entry'[c].seq = want'[c]
  BY StepCached, Zenon DEF Served, Ready
<1>1. entry[c] \in Entry /\ entry \in [Clients -> Entry]
  BY DEF Served, Cached, Typed, TypeOK
<1>2. CASE Stream \/ UNCHANGED vars
  <2>1. entry' = entry
    BY <1>2 DEF Stream, AskAgain, Reset, Arrive, Lose, vars, clientVars
  <2> QED
    BY <1>2, <2>1, StreamReady
<1>3. CASE FanOut
  <2>1. entry[c].playing
    <3>1. entry'[c] = [entry[c] EXCEPT !.seq = Advance(@, Copies(entry[c], hand)),
                                       !.wait = WaitsAfter(entry[c], hand)]
          \/ entry'[c] = entry[c]
      BY <1>3, FanOutIs, Zenon
    <3> QED
      BY <1>1, <3>1 DEF Entry
  <2> QED
    BY <1>3, <2>1, FanOutReady
<1>4. CASE TellClients \/ TellCache \/ Store
  BY <1>4, TellReady
<1>5. ASSUME NEW k \in Clients, Client(k) PROVE Ready(c)' /\ entry'[c].seq = want'[c]
  BY <1>5, ClientReady
<1> QED
  BY <1>2, <1>3, <1>4, <1>5 DEF Next, Feed

(* A client whose wait began outside of a keyframe is let have slices only *)
(* when it can decode them, for any number of clients and fragments and    *)
(* whatever is lost, told of or not.                                       *)
THEOREM WaitEndsDecoding == Spec => []WaitsForWhole
<1>1. Served => WaitsForWhole
  BY DEF Served, Ready, WaitsForWhole
<1> QED
  BY <1>1, InitServed, StepServed, PTL DEF Spec

(* The numbers a client sees since its last PLAY or SETUP have no gap and  *)
(* no repeat, though two threads give them out.                            *)
THEOREM NumbersHaveNoGaps == Spec => []Numbered
<1>1. Served => Numbered
  BY DEF Served, Numbered
<1> QED
  BY <1>1, InitServed, StepServed, PTL DEF Spec

===============================================================================
