-------------------------- MODULE AvailHeaderProofs --------------------------
(***************************************************************************)
(* Theorems about AvailHeader, for every finite set of overlapping runs,   *)
(* every chain, range of the light client, batch limit and failure limit.  *)
(*                                                                         *)
(* The job can lose blocks; what is proved is how many.  The invariant     *)
(* relates a run's failure counter to the table: of the heights between    *)
(* the last stored one and the one it is at, no more are missing without   *)
(* an excuse than it has counted failures.  The counter stays below        *)
(* MAX_FAILURES, and other runs can only fill gaps.                        *)
(*                                                                         *)
(* The last part is about AvailTable, where the check of availability      *)
(* works on the rows the job inserts: what AvailabilityCheckProofs proves  *)
(* of the check alone holds there, since the job does what the check's     *)
(* model has in its place; and Settlement holds of blocks as of rows.      *)
(***************************************************************************)
EXTENDS AvailTable, FiniteSetTheorems, TLAPS

USE WorkerAssumption, BoundsAssumption, LimitsAssumption, MissingAssumption

\* The heights from a up to b, b excluded, that have no excuse.
Unexcused(a, b) == (a .. b - 1) \ excused

\* None of them is stored.
Gap(a, b) == (a .. b - 1) \intersect stored = {}

RunOK(w) ==
    /\ pc[w] = "read" => fails[w] = 0 /\ range[w].first >= 1
    /\ pc[w] = "idle" => fails[w] = 0
    /\ pc[w] \in {"fetch", "blobs"} => 1 <= next[w] /\ next[w] <= end[w]
    /\ pc[w] = "blobs" => next[w] \in stored

RunsOK ==
    /\ available.last # 0 => available.first >= 1
    /\ \A w \in Worker : RunOK(w)

FailuresCounted ==
    \A w \in Worker : pc[w] = "fetch" =>
        \A a \in 1 .. next[w] - 1 :
            Gap(a, next[w]) => Cardinality(Unexcused(a, next[w])) <= fails[w]

IInv == TypeOK /\ RunsOK /\ BlobsOfStoredBlocks /\ FailuresCounted /\ ShortGaps

LEMMA InitEstablishesIInv == Init => IInv
<1> SUFFICES ASSUME Init
             PROVE  IInv
  OBVIOUS
<1>1. stored = {}
  BY DEF Init, stored
<1>2. TypeOK
  BY DEF Init, TypeOK, Ranges, NoRange, Height
<1> QED
  BY <1>1, <1>2 DEF Init, IInv, RunsOK, RunOK, NoRange, BlobsOfStoredBlocks,
                    FailuresCounted, ShortGaps

\* Intervals are finite, and so are their subsets.
LEMMA UnexcusedFinite ==
    ASSUME NEW a \in Int, NEW b \in Int
    PROVE  /\ IsFiniteSet(Unexcused(a, b)) /\ IsFiniteSet(Unexcused(a, b)')
           /\ Cardinality(Unexcused(a, b)) \in Nat
           /\ Cardinality(Unexcused(a, b)') \in Nat
<1>1. b - 1 \in Int /\ IsFiniteSet(a .. b - 1)
  BY FS_Interval
<1>2. Unexcused(a, b) \subseteq a .. b - 1 /\ Unexcused(a, b)' \subseteq a .. b - 1
  BY DEF Unexcused
<1> QED
  BY <1>1, <1>2, FS_Subset, FS_CardinalityType

\* New rows and new excuses only make gaps smaller.
LEMMA GapsShrink ==
    ASSUME NEW a \in Int, NEW b \in Int, stored \subseteq stored', excused \subseteq excused'
    PROVE  /\ Gap(a, b)' => Gap(a, b)
           /\ Cardinality(Unexcused(a, b)') <= Cardinality(Unexcused(a, b))
<1>1. Gap(a, b)' => Gap(a, b)
  BY DEF Gap
<1>2. Unexcused(a, b)' \subseteq Unexcused(a, b)
  BY DEF Unexcused
<1> QED
  BY <1>1, <1>2, UnexcusedFinite, FS_Subset

\* A step in which nobody stores a new height keeps ShortGaps.
LEMMA ShortGapsKept ==
    ASSUME IInv, stored' = stored, excused \subseteq excused'
    PROVE  ShortGaps'
<1> SUFFICES ASSUME NEW b \in stored, NEW a \in 1 .. b - 1, Gap(a, b)'
             PROVE  Cardinality(Unexcused(a, b)') < MAX_FAILURES
  BY DEF ShortGaps, Gap, Unexcused
<1>1. a \in Int /\ b \in Int
  BY DEF stored, Height
<1>2. Cardinality(Unexcused(a, b)') <= Cardinality(Unexcused(a, b)) /\ Gap(a, b)
  BY <1>1, GapsShrink
<1>3. Cardinality(Unexcused(a, b)) < MAX_FAILURES
  BY <1>2 DEF IInv, ShortGaps, Gap, Unexcused
<1>4. Cardinality(Unexcused(a, b)) \in Nat /\ Cardinality(Unexcused(a, b)') \in Nat
  BY <1>1, UnexcusedFinite
<1> QED
  BY <1>2, <1>3, <1>4

\* The counters of the runs a step leaves alone stay right.
LEMMA OthersCounted ==
    ASSUME IInv, stored \subseteq stored', excused \subseteq excused',
           NEW v \in Worker, pc[v] = "fetch", NEW n \in Int, next[v] = n,
           NEW a \in 1 .. n - 1, Gap(a, n)'
    PROVE  Cardinality(Unexcused(a, n)') <= fails[v]
<1>1. a \in Int /\ fails[v] \in Nat
  BY DEF IInv, TypeOK
<1>2. /\ Gap(a, n)
      /\ Cardinality(Unexcused(a, n)') <= Cardinality(Unexcused(a, n))
  BY <1>1, GapsShrink
<1>3. Cardinality(Unexcused(a, n)) <= fails[v]
  BY <1>2 DEF IInv, FailuresCounted
<1>4. Cardinality(Unexcused(a, n)) \in Nat /\ Cardinality(Unexcused(a, n)') \in Nat
  BY <1>1, UnexcusedFinite
<1> QED
  BY <1>1, <1>2, <1>3, <1>4

\* What FailuresCounted' asks of a run that a step leaves alone.
LEMMA OtherRunCounted ==
    ASSUME IInv, stored \subseteq stored', excused \subseteq excused',
           NEW v \in Worker, pc[v] = "fetch",
           next'[v] = next[v], fails'[v] = fails[v],
           NEW a \in 1 .. next'[v] - 1, Gap(a, next[v])'
    PROVE  Cardinality(Unexcused(a, next[v])') <= fails'[v]
<1> DEFINE n == next[v]
<1>1. n \in Int
  BY DEF IInv, TypeOK
<1>2. PICK k \in Int : k = next[v] /\ k = next'[v]
  BY <1>1
<1>3. Gap(a, k)' /\ a \in 1 .. k - 1
  BY <1>2 DEF Gap
<1>4. Cardinality(Unexcused(a, k)') <= fails[v]
  BY <1>2, <1>3, OthersCounted
<1> QED
  BY <1>2, <1>4 DEF Unexcused

\* So a step by w, or by nobody, has to answer for w only.
LEMMA CountedBut ==
    ASSUME IInv, stored \subseteq stored', excused \subseteq excused',
           NEW w,
           \A v \in Worker \ {w} : pc'[v] = pc[v] /\ next'[v] = next[v] /\ fails'[v] = fails[v],
           w \in Worker /\ pc'[w] = "fetch" =>
               \A a \in 1 .. next'[w] - 1 :
                   Gap(a, next[w])' => Cardinality(Unexcused(a, next[w])') <= fails'[w]
    PROVE  FailuresCounted'
<1> SUFFICES ASSUME NEW v \in Worker, pc'[v] = "fetch", NEW a \in 1 .. next'[v] - 1,
                    Gap(a, next[v])'
             PROVE  Cardinality(Unexcused(a, next[v])') <= fails'[v]
  BY DEF FailuresCounted
<1>1. CASE v = w
  BY <1>1
<1>2. CASE v # w
  BY <1>2, OtherRunCounted
<1> QED
  BY <1>1, <1>2

-----------------------------------------------------------------------------
(* Types and the runs' own state.                                          *)

Basics == TypeOK /\ RunsOK

\* What a step leaves of the parts of Basics that are not the runs' own.
SharedOK ==
    /\ rows' \in [Height -> Nat] /\ stored \subseteq stored'
    /\ blobs' \subseteq Height /\ excused' \subseteq Height /\ missed' \subseteq Height
    /\ available' = available /\ crashes' \in 0 .. MaxCrash

LEMMA FinishBasics ==
    ASSUME Basics, SharedOK, NEW w \in Worker, Finish(w)
    PROVE  Basics' /\ pc'[w] = "idle"
           /\ \A v \in Worker \ {w} : pc'[v] = pc[v] /\ next'[v] = next[v] /\ fails'[v] = fails[v]
<1>1. NoRange \in Ranges /\ 0 \in 0 .. MAX_FAILURES - 1 /\ 0 \in 0 .. MaxHeight
  BY DEF NoRange, Ranges
<1>2. TypeOK'
  BY <1>1 DEF Basics, SharedOK, Finish, TypeOK
<1>3. RunsOK'
  BY DEF Basics, SharedOK, Finish, RunsOK, RunOK, TypeOK
<1>4. pc'[w] = "idle"
      /\ \A v \in Worker \ {w} : pc'[v] = pc[v] /\ next'[v] = next[v] /\ fails'[v] = fails[v]
  BY DEF Basics, Finish, TypeOK
<1> QED
  BY <1>2, <1>3, <1>4 DEF Basics

\* A run that goes on is at the next height, unless it has ended.
LEMMA AdvanceBasics ==
    ASSUME Basics, SharedOK, NEW w \in Worker, pc[w] \in {"fetch", "blobs"},
           NEW f \in 0 .. MAX_FAILURES - 1, Advance(w, f)
    PROVE  /\ Basics'
           /\ \/ pc'[w] = "idle"
              \/ pc'[w] = "fetch" /\ next'[w] = next[w] + 1 /\ fails'[w] = f
           /\ \A v \in Worker \ {w} : pc'[v] = pc[v] /\ next'[v] = next[v] /\ fails'[v] = fails[v]
<1>1. CASE next[w] = end[w]
  BY <1>1, FinishBasics DEF Advance
<1>2. CASE next[w] # end[w]
  <2>1. /\ pc' = [pc EXCEPT ![w] = "fetch"]
        /\ next' = [next EXCEPT ![w] = @ + 1]
        /\ fails' = [fails EXCEPT ![w] = f]
        /\ UNCHANGED <<range, end>>
    BY <1>2 DEF Advance
  <2>2. /\ next[w] \in 0 .. MaxHeight /\ end[w] \in 0 .. MaxHeight
        /\ 1 <= next[w] /\ next[w] < end[w]
    BY <1>2 DEF Basics, TypeOK, RunsOK, RunOK
  <2>3. next[w] + 1 \in 0 .. MaxHeight /\ 1 <= next[w] + 1 /\ next[w] + 1 <= end[w]
    BY <2>2
  <2>4. TypeOK'
    BY <2>1, <2>3 DEF Basics, SharedOK, TypeOK
  <2>5. RunsOK'
    <3> SUFFICES ASSUME NEW v \in Worker PROVE RunOK(v)'
      BY DEF Basics, RunsOK, SharedOK
    <3>1. CASE v = w
      BY <2>1, <2>3, <3>1 DEF RunOK, Basics, TypeOK
    <3>2. CASE v # w
      BY <2>1, <3>2 DEF RunOK, Basics, RunsOK, SharedOK, TypeOK
    <3> QED
      BY <3>1, <3>2
  <2> QED
    BY <2>1, <2>4, <2>5 DEF Basics, TypeOK
<1> QED
  BY <1>1, <1>2

\* The first and last height ReadLast gives a run.
LEMMA FirstHeightType ==
    ASSUME NEW last \in Height \union {0}, NEW r \in Ranges, r.first >= 1,
           FirstHeight(last, r) <= r.last
    PROVE  /\ FirstHeight(last, r) \in Height
           /\ FirstHeight(last, r) > last
<1>1. r.first \in Nat /\ r.last \in Nat /\ r.last <= MaxHeight /\ last \in Nat
  BY DEF Ranges, Height
<1>2. CASE last = 0
  BY <1>1, <1>2 DEF FirstHeight, Larger, Height
<1>3. CASE last # 0
  BY <1>1, <1>3 DEF FirstHeight, Larger, Height
<1> QED
  BY <1>2, <1>3

LEMMA FinalHeightType ==
    ASSUME NEW first \in Height, NEW r \in Ranges, first <= r.last
    PROVE  FinalHeight(first, r) \in Height /\ first <= FinalHeight(first, r)
<1>1. r.last \in Nat /\ r.last <= MaxHeight
  BY DEF Ranges
<1> QED
  BY <1>1 DEF FinalHeight, Smaller, Height

-----------------------------------------------------------------------------
(* Each action preserves the invariant.                                    *)

LEMMA NewBlocksPreservesIInv ==
    ASSUME IInv, NewBlocks
    PROVE  IInv'
<1> USE DEF IInv, NewBlocks, local
<1>1. available' \in Ranges /\ available'.first >= 1
  <2>1. available' \in Ranges /\ available'.first >= Larger(available.first, 1)
    OBVIOUS
  <2>2. available.first \in Nat /\ available'.first \in Nat
    BY <2>1 DEF TypeOK, Ranges
  <2> QED
    BY <2>1, <2>2 DEF Larger
<1>2. stored' = stored
  BY DEF stored
<1>3. TypeOK' /\ RunsOK' /\ BlobsOfStoredBlocks'
  BY <1>1, <1>2 DEF TypeOK, RunsOK, RunOK, BlobsOfStoredBlocks
<1>4. FailuresCounted'
  BY <1>2 DEF FailuresCounted, Gap, Unexcused
<1> QED
  BY <1>2, <1>3, <1>4, ShortGapsKept

LEMMA StatusPreservesIInv ==
    ASSUME IInv, NEW w \in Worker, Status(w)
    PROVE  IInv'
<1> USE DEF IInv, Status
<1>1. stored' = stored
  BY DEF stored
<1>2. TypeOK'
  BY DEF TypeOK
<1>3. RunsOK' /\ BlobsOfStoredBlocks'
  BY <1>1 DEF TypeOK, RunsOK, RunOK, BlobsOfStoredBlocks
<1>4. FailuresCounted'
  BY <1>1, CountedBut DEF TypeOK
<1> QED
  BY <1>1, <1>2, <1>3, <1>4, ShortGapsKept

LEMMA ReadLastPreservesIInv ==
    ASSUME IInv, NEW w \in Worker, ReadLast(w)
    PROVE  IInv'
<1> USE DEF IInv
<1>1. /\ UNCHANGED <<available, rows, blobs, missed, crashes>> /\ stored' = stored
      /\ pc[w] = "read" /\ fails[w] = 0 /\ range[w] \in Ranges /\ range[w].first >= 1
  BY DEF ReadLast, stored, RunsOK, RunOK, TypeOK
<1> DEFINE first(last) == FirstHeight(last, range[w])
<1>2. PICK last \in Height \union {0} :
        /\ IsLastHeight(last)
        /\ IF first(last) > range[w].last
             THEN Finish(w) /\ UNCHANGED excused
             ELSE /\ pc' = [pc EXCEPT ![w] = "fetch"]
                  /\ next' = [next EXCEPT ![w] = first(last)]
                  /\ end' = [end EXCEPT ![w] = FinalHeight(first(last), range[w])]
                  /\ excused' = excused \union (last + 1 .. first(last) - 1)
                  /\ range' = [range EXCEPT ![w] = NoRange]
                  /\ UNCHANGED fails
  BY DEF ReadLast
<1>3. BlobsOfStoredBlocks'
  BY <1>1 DEF BlobsOfStoredBlocks
<1>4. CASE first(last) > range[w].last
  <2>1. Finish(w) /\ excused' = excused
    BY <1>2, <1>4
  <2>2. SharedOK /\ Basics
    BY <1>1, <2>1 DEF SharedOK, Basics, TypeOK
  <2>3. Basics' /\ FailuresCounted'
    BY <1>1, <2>1, <2>2, FinishBasics, CountedBut
  <2> QED
    BY <1>1, <1>3, <2>1, <2>3, ShortGapsKept DEF Basics
<1>5. CASE ~(first(last) > range[w].last)
  <2>1. /\ pc' = [pc EXCEPT ![w] = "fetch"]
        /\ next' = [next EXCEPT ![w] = first(last)]
        /\ end' = [end EXCEPT ![w] = FinalHeight(first(last), range[w])]
        /\ excused' = excused \union (last + 1 .. first(last) - 1)
        /\ range' = [range EXCEPT ![w] = NoRange]
        /\ UNCHANGED fails
    BY <1>2, <1>5
  <2>2. first(last) <= range[w].last
    <3>1. first(last) \in Int /\ range[w].last \in Int
      BY <1>1 DEF FirstHeight, Larger, Ranges, Height
    <3> QED
      BY <1>5, <3>1
  <2>3. /\ first(last) \in Height /\ first(last) > last
        /\ FinalHeight(first(last), range[w]) \in Height
        /\ first(last) <= FinalHeight(first(last), range[w])
    BY <1>1, <2>2, FirstHeightType, FinalHeightType
  <2> HIDE DEF first
  <2>4. TypeOK'
    <3>1. last + 1 .. first(last) - 1 \subseteq Height
      BY <2>3 DEF Height
    <3>2. excused' \subseteq Height
      BY <2>1, <3>1 DEF TypeOK
    <3>3. first(last) \in 0 .. MaxHeight /\ FinalHeight(first(last), range[w]) \in 0 .. MaxHeight
      BY <2>3 DEF Height
    <3>4. next' \in [Worker -> 0 .. MaxHeight] /\ end' \in [Worker -> 0 .. MaxHeight]
      BY <2>1, <3>3 DEF TypeOK
    <3>5. pc' \in [Worker -> {"idle", "read", "fetch", "blobs"}]
      BY <2>1 DEF TypeOK
    <3>6. range' \in [Worker -> Ranges]
      BY <2>1 DEF TypeOK, NoRange, Ranges
    <3> QED
      BY <1>1, <2>1, <3>2, <3>4, <3>5, <3>6 DEF TypeOK
  <2>5. RunsOK'
    <3> SUFFICES ASSUME NEW v \in Worker PROVE RunOK(v)'
      BY <1>1 DEF RunsOK
    <3>1. CASE v = w
      BY <2>1, <2>3, <3>1 DEF RunOK, TypeOK, Height
    <3>2. CASE v # w
      BY <1>1, <2>1, <3>2 DEF RunOK, RunsOK, TypeOK
    <3> QED
      BY <3>1, <3>2
  <2>6. FailuresCounted'
    <3>1. next'[w] = first(last) /\ fails'[w] = 0
      BY <1>1, <2>1 DEF TypeOK
    <3>2. \A a \in 1 .. next'[w] - 1 :
             Gap(a, next[w])' => Cardinality(Unexcused(a, next[w])') <= fails'[w]
      <4> SUFFICES ASSUME NEW a \in 1 .. next'[w] - 1, Gap(a, next[w])'
                   PROVE  Cardinality(Unexcused(a, next[w])') <= 0
        BY <3>1
      <4>1. a > last
        <5>1. CASE stored = {}
          BY <1>2, <5>1 DEF IsLastHeight
        <5>2. CASE stored # {}
          <6>1. last \in stored /\ last \in Nat
            BY <1>2, <5>2 DEF IsLastHeight, Height
          <6>2. last \notin a .. first(last) - 1
            BY <1>1, <3>1, <6>1 DEF Gap
          <6> QED
            BY <2>3, <6>1, <6>2 DEF Height
        <5> QED
          BY <5>1, <5>2
      <4>2. Unexcused(a, next[w])' = {}
        <5>1. a .. first(last) - 1 \subseteq last + 1 .. first(last) - 1
          BY <2>3, <4>1 DEF Height
        <5> QED
          BY <2>1, <3>1, <5>1 DEF Unexcused
      <4> QED
        BY <4>2, FS_EmptySet
    <3>3. \A v \in Worker \ {w} : pc'[v] = pc[v] /\ next'[v] = next[v] /\ fails'[v] = fails[v]
      BY <2>1 DEF TypeOK
    <3>4. stored \subseteq stored' /\ excused \subseteq excused'
      BY <1>1, <2>1
    <3> QED
      BY <3>2, <3>3, <3>4, CountedBut
  <2>7. ShortGaps'
    BY <1>1, <2>1, ShortGapsKept
  <2> QED
    BY <1>3, <2>4, <2>5, <2>6, <2>7
<1> QED
  BY <1>4, <1>5

\* The header is stored: the run's gap closes, and a gap that ends at the new
\* block is the one the run counted its failures over.
LEMMA FetchOkPreservesIInv ==
    ASSUME IInv, NEW w \in Worker, FetchOk(w)
    PROVE  IInv'
<1> USE DEF IInv
<1>1. /\ UNCHANGED <<available, blobs, excused, missed, range, next, end, crashes>>
      /\ pc[w] = "fetch" /\ pc' = [pc EXCEPT ![w] = "blobs"]
      /\ fails' = [fails EXCEPT ![w] = 0]
      /\ rows' = [rows EXCEPT ![next[w]] = @ + 1]
  BY DEF FetchOk
<1>2. next[w] \in Height /\ next[w] <= end[w]
  BY <1>1 DEF TypeOK, RunsOK, RunOK, Height
<1>3. stored' = stored \union {next[w]}
  BY <1>1, <1>2 DEF stored, TypeOK
<1>4. TypeOK'
  BY <1>1, <1>2 DEF TypeOK
<1>5. RunsOK'
  BY <1>1, <1>2, <1>3 DEF RunsOK, RunOK, TypeOK, Height
<1>6. BlobsOfStoredBlocks'
  BY <1>1, <1>3 DEF BlobsOfStoredBlocks
<1>7. FailuresCounted'
  <2>1. pc'[w] = "blobs"
        /\ \A v \in Worker \ {w} : pc'[v] = pc[v] /\ next'[v] = next[v] /\ fails'[v] = fails[v]
    BY <1>1 DEF TypeOK
  <2>2. stored \subseteq stored' /\ excused \subseteq excused'
    BY <1>1, <1>3
  <2> QED
    BY <2>1, <2>2, CountedBut
<1>8. ShortGaps'
  <2> SUFFICES ASSUME NEW b \in stored', NEW a \in 1 .. b - 1, Gap(a, b)'
               PROVE  Cardinality(Unexcused(a, b)') < MAX_FAILURES
    BY DEF ShortGaps, Gap, Unexcused
  <2>1. a \in Int /\ b \in Int
    BY <1>2, <1>3 DEF stored, Height
  <2>2. stored \subseteq stored' /\ excused \subseteq excused'
    BY <1>1, <1>3
  <2>3. Gap(a, b) /\ Cardinality(Unexcused(a, b)') <= Cardinality(Unexcused(a, b))
    BY <2>1, <2>2, GapsShrink
  <2>4. Cardinality(Unexcused(a, b)) \in Nat /\ Cardinality(Unexcused(a, b)') \in Nat
    BY <2>1, UnexcusedFinite
  <2>5. CASE b \in stored
    <3>1. Cardinality(Unexcused(a, b)) < MAX_FAILURES
      BY <2>3, <2>5 DEF ShortGaps, Gap, Unexcused
    <3> QED
      BY <2>3, <2>4, <3>1
  <2>6. CASE b = next[w]
    <3>1. Cardinality(Unexcused(a, b)) <= fails[w]
      BY <1>1, <2>3, <2>6 DEF FailuresCounted
    <3>2. fails[w] \in 0 .. MAX_FAILURES - 1
      BY DEF TypeOK
    <3> QED
      BY <2>3, <2>4, <3>1, <3>2
  <2> QED
    BY <1>3, <2>5, <2>6
<1> QED
  BY <1>4, <1>5, <1>6, <1>7, <1>8

\* The heights up to and including n.
LEMMA UnexcusedStep ==
    ASSUME NEW n \in Int, NEW a \in Int
    PROVE  /\ Unexcused(a, n + 1) \subseteq Unexcused(a, n) \union {n}
           /\ Gap(a, n + 1) /\ a <= n => Gap(a, n) /\ n \notin stored
<1>1. a .. (n + 1) - 1 \subseteq (a .. n - 1) \union {n}
  OBVIOUS
<1>2. a <= n => (a .. n - 1) \union {n} \subseteq a .. (n + 1) - 1
  OBVIOUS
<1> QED
  BY <1>1, <1>2 DEF Unexcused, Gap

\* The skipped block has an excuse: the count is not affected.
LEMMA NotFoundPreservesIInv ==
    ASSUME IInv, NEW w \in Worker, NotFound(w)
    PROVE  IInv'
<1> USE DEF IInv
<1>1. /\ UNCHANGED <<available, rows, blobs, missed, crashes>> /\ stored' = stored
      /\ pc[w] = "fetch" /\ excused' = excused \union {next[w]}
      /\ Advance(w, fails[w])
  BY DEF NotFound, stored
<1>2. next[w] \in Height /\ fails[w] \in 0 .. MAX_FAILURES - 1
  BY <1>1 DEF TypeOK, RunsOK, RunOK, Height
<1>3. Basics /\ SharedOK
  BY <1>1, <1>2 DEF Basics, SharedOK, TypeOK
<1>4. /\ Basics'
      /\ \/ pc'[w] = "idle"
         \/ pc'[w] = "fetch" /\ next'[w] = next[w] + 1 /\ fails'[w] = fails[w]
      /\ \A v \in Worker \ {w} : pc'[v] = pc[v] /\ next'[v] = next[v] /\ fails'[v] = fails[v]
  BY <1>1, <1>2, <1>3, AdvanceBasics
<1>5. stored \subseteq stored' /\ excused \subseteq excused'
  BY <1>1
<1>6. ASSUME pc'[w] = "fetch", NEW a \in 1 .. next'[w] - 1, Gap(a, next[w])'
      PROVE  Cardinality(Unexcused(a, next[w])') <= fails'[w]
  <2>1. PICK n \in Int : n = next[w]
    BY <1>2 DEF Height
  <2>2. next'[w] = n + 1 /\ fails'[w] = fails[w] /\ a \in Int /\ 1 <= a /\ a <= n
    BY <1>4, <1>6, <2>1
  <2>3. Gap(a, n + 1)'
    BY <1>6, <2>2 DEF Gap
  <2>4. Gap(a, n)
    BY <1>1, <2>2, <2>3, UnexcusedStep DEF Gap
  <2>5. Unexcused(a, n + 1)' \subseteq Unexcused(a, n)
    <3>1. a .. (n + 1) - 1 \subseteq (a .. n - 1) \union {n}
      BY <2>2
    <3> QED
      BY <1>1, <2>1, <3>1 DEF Unexcused
  <2>6. IsFiniteSet(Unexcused(a, n)) /\ Cardinality(Unexcused(a, n)) \in Nat
        /\ Cardinality(Unexcused(a, n + 1)') \in Nat
    <3>1. a \in Int /\ n + 1 \in Int
      BY <2>2
    <3>2. Cardinality(Unexcused(a, n + 1)') \in Nat
      BY <3>1, UnexcusedFinite
    <3> QED
      BY <3>1, <3>2, UnexcusedFinite
  <2>7. Cardinality(Unexcused(a, n + 1)') <= Cardinality(Unexcused(a, n))
    BY <2>5, <2>6, FS_Subset
  <2>8. CASE a <= n - 1
    <3>1. Cardinality(Unexcused(a, n)) <= fails[w]
      BY <1>1, <2>1, <2>2, <2>4, <2>8 DEF FailuresCounted
    <3>2. Cardinality(Unexcused(a, n + 1)') <= fails[w]
      BY <1>2, <2>6, <2>7, <3>1
    <3> QED
      BY <2>2, <3>2 DEF Unexcused
  <2>9. CASE a = n
    <3>1. Unexcused(a, n) = {}
      BY <2>2, <2>9 DEF Unexcused
    <3>2. Cardinality(Unexcused(a, n + 1)') <= fails[w]
      BY <1>2, <2>6, <2>7, <3>1, FS_EmptySet
    <3> QED
      BY <2>2, <3>2 DEF Unexcused
  <2> QED
    BY <2>2, <2>8, <2>9
<1>7. FailuresCounted'
  BY <1>4, <1>5, <1>6, CountedBut
<1> QED
  BY <1>1, <1>4, <1>5, <1>7, ShortGapsKept DEF Basics, BlobsOfStoredBlocks

\* One height more is missing, and one failure more is counted.
LEMMA FailPreservesIInv ==
    ASSUME IInv, NEW w \in Worker, Fail(w)
    PROVE  IInv'
<1> USE DEF IInv
<1>1. /\ UNCHANGED <<available, rows, blobs, missed, crashes>> /\ stored' = stored
      /\ pc[w] = "fetch" /\ excused' = excused
      /\ IF GivesUp(fails[w] + 1) THEN Finish(w) ELSE Advance(w, fails[w] + 1)
  BY DEF Fail, stored
<1>2. next[w] \in Height /\ fails[w] \in 0 .. MAX_FAILURES - 1
  BY <1>1 DEF TypeOK, RunsOK, RunOK, Height
<1>3. Basics /\ SharedOK
  BY <1>1, <1>2 DEF Basics, SharedOK, TypeOK
<1>4. /\ Basics'
      /\ \/ pc'[w] = "idle"
         \/ pc'[w] = "fetch" /\ next'[w] = next[w] + 1 /\ fails'[w] = fails[w] + 1
      /\ \A v \in Worker \ {w} : pc'[v] = pc[v] /\ next'[v] = next[v] /\ fails'[v] = fails[v]
  <2>1. CASE GivesUp(fails[w] + 1)
    BY <1>1, <1>3, <2>1, FinishBasics
  <2>2. CASE ~GivesUp(fails[w] + 1)
    <3>1. fails[w] + 1 \in 0 .. MAX_FAILURES - 1
      BY <1>2, <2>2 DEF GivesUp
    <3>2. Advance(w, fails[w] + 1)
      BY <1>1, <2>2
    <3> QED
      BY <1>1, <1>3, <3>1, <3>2, AdvanceBasics
  <2> QED
    BY <2>1, <2>2
<1>5. stored \subseteq stored' /\ excused \subseteq excused'
  BY <1>1
<1>6. ASSUME pc'[w] = "fetch", NEW a \in 1 .. next'[w] - 1, Gap(a, next[w])'
      PROVE  Cardinality(Unexcused(a, next[w])') <= fails'[w]
  <2>1. PICK n \in Int : n = next[w]
    BY <1>2 DEF Height
  <2>2. next'[w] = n + 1 /\ fails'[w] = fails[w] + 1 /\ a \in Int /\ 1 <= a /\ a <= n
    BY <1>4, <1>6, <2>1
  <2>3. Gap(a, n + 1)'
    BY <1>6, <2>2 DEF Gap
  <2>4. Gap(a, n)
    BY <1>1, <2>2, <2>3, UnexcusedStep DEF Gap
  <2>5. Unexcused(a, n + 1)' \subseteq Unexcused(a, n) \union {n}
    <3>1. a .. (n + 1) - 1 \subseteq (a .. n - 1) \union {n}
      BY <2>2
    <3> QED
      BY <1>1, <3>1 DEF Unexcused
  <2>6. IsFiniteSet(Unexcused(a, n)) /\ Cardinality(Unexcused(a, n)) \in Nat
        /\ Cardinality(Unexcused(a, n + 1)') \in Nat
    <3>1. a \in Int /\ n + 1 \in Int
      BY <2>2
    <3>2. Cardinality(Unexcused(a, n + 1)') \in Nat
      BY <3>1, UnexcusedFinite
    <3> QED
      BY <3>1, <3>2, UnexcusedFinite
  <2>7. Cardinality(Unexcused(a, n + 1)') <= Cardinality(Unexcused(a, n)) + 1
    <3>1. /\ IsFiniteSet(Unexcused(a, n) \union {n})
          /\ Cardinality(Unexcused(a, n) \union {n}) <= Cardinality(Unexcused(a, n)) + 1
          /\ Cardinality(Unexcused(a, n) \union {n}) \in Nat
      <4> DEFINE S == Unexcused(a, n)
      <4>1. IsFiniteSet(S) /\ Cardinality(S) \in Nat
        BY <2>6
      <4> HIDE DEF S
      <4>2. /\ IsFiniteSet(S \union {n})
            /\ \/ Cardinality(S \union {n}) = Cardinality(S)
               \/ Cardinality(S \union {n}) = Cardinality(S) + 1
        BY <4>1, FS_AddElement
      <4> QED
        BY <4>1, <4>2 DEF S
    <3>2. Cardinality(Unexcused(a, n + 1)') <= Cardinality(Unexcused(a, n) \union {n})
      BY <2>5, <3>1, FS_Subset
    <3> QED
      BY <2>6, <3>1, <3>2
  <2>8. Cardinality(Unexcused(a, n)) <= fails[w]
    <3>1. CASE a <= n - 1
      BY <1>1, <2>1, <2>2, <2>4, <3>1 DEF FailuresCounted
    <3>2. CASE a = n
      <4>1. Unexcused(a, n) = {}
        BY <2>2, <3>2 DEF Unexcused
      <4> QED
        BY <1>2, <4>1, FS_EmptySet
    <3> QED
      BY <2>2, <3>1, <3>2
  <2>9. Cardinality(Unexcused(a, n + 1)') <= fails[w] + 1
    BY <1>2, <2>6, <2>7, <2>8
  <2> QED
    BY <2>2, <2>9 DEF Unexcused
<1>7. FailuresCounted'
  BY <1>4, <1>5, <1>6, CountedBut
<1> QED
  BY <1>1, <1>4, <1>5, <1>7, ShortGapsKept DEF Basics, BlobsOfStoredBlocks

\* The run leaves a stored height behind it: no gap ends where it goes on.
LEMMA CollectBlobsPreservesIInv ==
    ASSUME IInv, NEW w \in Worker, CollectBlobs(w)
    PROVE  IInv'
<1> USE DEF IInv
<1>1. /\ UNCHANGED <<available, rows, excused, crashes>> /\ stored' = stored
      /\ pc[w] = "blobs" /\ Advance(w, fails[w])
  BY DEF CollectBlobs, stored
<1>2. next[w] \in stored /\ fails[w] \in 0 .. MAX_FAILURES - 1
  BY <1>1 DEF TypeOK, RunsOK, RunOK
<1>3. blobs' \subseteq stored
  <2>1. \A new \in Collected(next[w]) : new \subseteq stored
    BY <1>2 DEF Collected
  <2> QED
    BY <2>1 DEF CollectBlobs, BlobsOfStoredBlocks
<1>4. Basics /\ SharedOK
  <2>1. missed' \subseteq Height
    BY <1>2 DEF CollectBlobs, TypeOK, stored
  <2> QED
    BY <1>1, <1>3, <2>1 DEF Basics, SharedOK, TypeOK, stored
<1>5. /\ Basics'
      /\ \/ pc'[w] = "idle"
         \/ pc'[w] = "fetch" /\ next'[w] = next[w] + 1 /\ fails'[w] = fails[w]
      /\ \A v \in Worker \ {w} : pc'[v] = pc[v] /\ next'[v] = next[v] /\ fails'[v] = fails[v]
  BY <1>1, <1>2, <1>4, AdvanceBasics
<1>6. ASSUME pc'[w] = "fetch", NEW a \in 1 .. next'[w] - 1, Gap(a, next[w])'
      PROVE  FALSE
  <2>1. next[w] \in Int /\ next'[w] = next[w] + 1
    BY <1>2, <1>5, <1>6 DEF stored, Height
  <2>2. next[w] \in a .. next'[w] - 1
    BY <2>1
  <2> QED
    BY <1>1, <1>2, <1>6, <2>2 DEF Gap
<1>7. FailuresCounted'
  BY <1>1, <1>5, <1>6, CountedBut
<1> QED
  BY <1>1, <1>3, <1>5, <1>7, ShortGapsKept DEF Basics, BlobsOfStoredBlocks

LEMMA DiePreservesIInv ==
    ASSUME IInv, NEW w \in Worker, Die(w)
    PROVE  IInv'
<1> USE DEF IInv
<1>1. /\ UNCHANGED <<available, rows, blobs, excused>> /\ stored' = stored
      /\ Finish(w) /\ crashes' \in 0 .. MaxCrash
  BY DEF Die, stored, TypeOK
<1>2. Basics /\ SharedOK
  <2>1. missed' \subseteq Height
    BY DEF Die, TypeOK, RunsOK, RunOK, stored
  <2> QED
    BY <1>1, <2>1 DEF Basics, SharedOK, TypeOK
<1>3. Basics' /\ FailuresCounted'
  BY <1>1, <1>2, FinishBasics, CountedBut
<1> QED
  BY <1>1, <1>3, ShortGapsKept DEF Basics, BlobsOfStoredBlocks

LEMMA NextPreservesIInv ==
    ASSUME IInv, [Next]_vars
    PROVE  IInv'
<1>1. CASE NewBlocks
  BY <1>1, NewBlocksPreservesIInv
<1>2. ASSUME NEW w \in Worker,
             Status(w) \/ ReadLast(w) \/ FetchOk(w) \/ NotFound(w) \/ Fail(w)
             \/ CollectBlobs(w) \/ Die(w)
      PROVE  IInv'
  BY <1>2, StatusPreservesIInv, ReadLastPreservesIInv, FetchOkPreservesIInv,
     NotFoundPreservesIInv, FailPreservesIInv, CollectBlobsPreservesIInv, DiePreservesIInv
<1>3. CASE UNCHANGED vars
  <2>1. stored' = stored
    BY <1>3 DEF vars, stored
  <2> QED
    BY <1>3, <2>1 DEF vars, IInv, TypeOK, RunsOK, RunOK, BlobsOfStoredBlocks,
                      FailuresCounted, ShortGaps, Gap, Unexcused
<1> QED
  BY <1>1, <1>2, <1>3 DEF Next

-----------------------------------------------------------------------------
THEOREM Invariance == Spec => []IInv
<1>1. Init => IInv
  BY InitEstablishesIInv
<1>2. IInv /\ [Next]_vars => IInv'
  BY NextPreservesIInv
<1> QED
  BY <1>1, <1>2, PTL DEF Spec

\* Every reachable state has the types the module's comments give its variables.
THEOREM TypeCorrect == Spec => []TypeOK
<1>1. IInv => TypeOK
  BY DEF IInv
<1> QED
  BY <1>1, Invariance, PTL

\* However runs overlap, die and fail: between two stored blocks fewer than
\* MAX_FAILURES blocks are missing that were neither answered with 404 nor below
\* the start of a run (the consecutive_failures counter of main).
THEOREM GapsAreShort == Spec => []ShortGaps
<1>1. IInv => ShortGaps
  BY DEF IInv
<1> QED
  BY <1>1, Invariance, PTL

\* avail_block_blobs only has rows of blocks that headers has.
THEOREM BlobsAreOfStoredBlocks == Spec => []BlobsOfStoredBlocks
<1>1. IInv => BlobsOfStoredBlocks
  BY DEF IInv
<1> QED
  BY <1>1, Invariance, PTL

-----------------------------------------------------------------------------
(* Aggregates.                                                             *)

\* What a step has to show: the runs between their transactions stay there, but for w; and
\* the height w leaves behind, and any new one, has a reason of its own.
LEMMA AccountedBut ==
    ASSUME AggregatesAccountedFor, NEW w, blobs \subseteq blobs', missed \subseteq missed',
           \A v \in Worker \ {w} : pc[v] = "blobs" => pc'[v] = "blobs" /\ next'[v] = next[v],
           w \in Worker /\ pc[w] = "blobs" => next[w] \in blobs' \union missed',
           \A h \in stored' \ stored : \E v \in Worker : pc'[v] = "blobs" /\ next'[v] = h
    PROVE  AggregatesAccountedFor'
<1> SUFFICES ASSUME NEW h \in stored', h \notin blobs', h \notin missed'
             PROVE  \E v \in Worker : pc'[v] = "blobs" /\ next'[v] = h
  BY DEF AggregatesAccountedFor
<1>1. CASE h \in stored
  <2>1. PICK v \in Worker : pc[v] = "blobs" /\ next[v] = h
    BY <1>1 DEF AggregatesAccountedFor
  <2>2. v # w
    BY <2>1
  <2> QED
    BY <2>1, <2>2
<1>2. CASE h \notin stored
  BY <1>2
<1> QED
  BY <1>1, <1>2

\* The header is in and its run has the aggregate still to do.
LEMMA AccountedFetchOk ==
    ASSUME IInv, AggregatesAccountedFor, NEW w \in Worker, FetchOk(w)
    PROVE  AggregatesAccountedFor'
<1>1. /\ pc[w] = "fetch" /\ pc' = [pc EXCEPT ![w] = "blobs"]
      /\ rows' = [rows EXCEPT ![next[w]] = @ + 1]
      /\ UNCHANGED <<blobs, missed, next>>
  BY DEF FetchOk
<1>2. \A h \in stored' \ stored : h = next[w]
  BY <1>1 DEF stored, IInv, TypeOK
<1>3. pc'[w] = "blobs" /\ next'[w] = next[w]
      /\ \A v \in Worker \ {w} : pc'[v] = pc[v] /\ next'[v] = next[v]
  BY <1>1 DEF IInv, TypeOK
<1> QED
  BY <1>1, <1>2, <1>3, AccountedBut

\* A run leaves a height with its aggregate, or with a record that there is none.
LEMMA AccountedCollect ==
    ASSUME IInv, AggregatesAccountedFor, NEW w \in Worker, CollectBlobs(w) \/ Die(w)
    PROVE  AggregatesAccountedFor'
<1>1. stored' = stored /\ blobs \subseteq blobs' /\ missed \subseteq missed'
  BY DEF CollectBlobs, Die, stored
<1>2. pc[w] = "blobs" => next[w] \in blobs' \union missed'
  BY DEF CollectBlobs, Collected, Die
<1>3. \A v \in Worker \ {w} : pc'[v] = pc[v] /\ next'[v] = next[v]
  BY DEF CollectBlobs, Die, Advance, Finish, IInv, TypeOK
<1> QED
  BY <1>1, <1>2, <1>3, AccountedBut

\* The other steps are of runs that have no aggregate to do.
LEMMA AccountedElse ==
    ASSUME IInv, AggregatesAccountedFor, NEW w \in Worker,
           Status(w) \/ ReadLast(w) \/ NotFound(w) \/ Fail(w)
    PROVE  AggregatesAccountedFor'
<1>1. /\ stored' = stored /\ blobs' = blobs /\ missed' = missed
      /\ pc[w] # "blobs"
  BY DEF Status, ReadLast, NotFound, Fail, stored
<1>2. ASSUME NEW v \in Worker \ {w} PROVE pc'[v] = pc[v] /\ next'[v] = next[v]
  <2>1. CASE Status(w)
    BY <2>1 DEF Status, IInv, TypeOK
  <2>2. CASE ReadLast(w)
    BY <2>2 DEF ReadLast, Finish, IInv, TypeOK
  <2>3. CASE NotFound(w) \/ Fail(w)
    BY <2>3 DEF NotFound, Fail, Advance, Finish, IInv, TypeOK
  <2> QED
    BY <2>1, <2>2, <2>3
<1> QED
  BY <1>1, <1>2, AccountedBut

LEMMA AccountedNext == IInv /\ AggregatesAccountedFor /\ [Next]_vars => AggregatesAccountedFor'
<1> SUFFICES ASSUME IInv, AggregatesAccountedFor, [Next]_vars
             PROVE  AggregatesAccountedFor'
  OBVIOUS
<1>1. CASE UNCHANGED <<rows, blobs, missed, pc, next>>
  BY <1>1 DEF AggregatesAccountedFor, stored
<1> QED
  BY <1>1, AccountedFetchOk, AccountedCollect, AccountedElse DEF Next, NewBlocks, local, vars

\* The header is committed before its aggregate, whose errors are swallowed (main): a stored
\* block without an aggregate had an error, or its run died there, or is still there.
THEOREM AggregatesAreAccountedFor == Spec => []AggregatesAccountedFor
<1>1. Init => AggregatesAccountedFor
  BY DEF Init, AggregatesAccountedFor, stored
<1> QED
  BY <1>1, AccountedNext, Invariance, PTL DEF Spec

-----------------------------------------------------------------------------
(* Overlap duplicates a block at most once per run.                        *)

\* The runs that may still insert height h.
Behind(h) ==
    {w \in Worker : \/ pc[w] = "fetch" /\ next[w] <= h
                    \/ pc[w] = "blobs" /\ next[w] < h}

\* A run that finds h stored when it starts is not behind h, and never will be.
BehindBounded ==
    \A h \in Height :
        rows[h] > 0 => rows[h] + Cardinality(Behind(h)) <= Cardinality(Worker)

LEMMA BehindFinite ==
    ASSUME NEW h \in Height
    PROVE  /\ IsFiniteSet(Behind(h)) /\ IsFiniteSet(Behind(h)')
           /\ Cardinality(Worker) \in Nat
           /\ Cardinality(Behind(h)) \in Nat
           /\ Cardinality(Behind(h)') \in Nat
<1>1. Behind(h) \subseteq Worker /\ Behind(h)' \subseteq Worker
  BY DEF Behind
<1> QED
  BY <1>1, FS_Subset, FS_CardinalityType

\* A step that inserts nothing and lets no run join those behind a stored height.
LEMMA BehindShrinks ==
    ASSUME IInv, BehindBounded, rows' = rows,
           \A h \in stored : Behind(h)' \subseteq Behind(h)
    PROVE  BehindBounded'
<1> SUFFICES ASSUME NEW h \in Height, rows[h] > 0
             PROVE  rows[h] + Cardinality(Behind(h)') <= Cardinality(Worker)
  BY DEF BehindBounded
<1>1. Cardinality(Behind(h)') <= Cardinality(Behind(h))
  BY BehindFinite, FS_Subset DEF stored
<1> QED
  BY <1>1, BehindFinite DEF BehindBounded, IInv, TypeOK

\* A run starts above every height that is stored.
LEMMA BehindReadLast ==
    ASSUME IInv, BehindBounded, NEW w \in Worker, ReadLast(w)
    PROVE  BehindBounded'
<1>1. rows' = rows
  BY DEF ReadLast
<1>2. range[w] \in Ranges /\ range[w].first >= 1
  BY DEF ReadLast, IInv, TypeOK, RunsOK, RunOK
<1>3. PICK last \in Height \union {0} :
        /\ IsLastHeight(last)
        /\ IF FirstHeight(last, range[w]) > range[w].last
             THEN Finish(w)
             ELSE /\ pc' = [pc EXCEPT ![w] = "fetch"]
                  /\ next' = [next EXCEPT ![w] = FirstHeight(last, range[w])]
  BY DEF ReadLast
<1>4. ASSUME NEW h \in stored PROVE Behind(h)' \subseteq Behind(h)
  <2>1. CASE FirstHeight(last, range[w]) > range[w].last
    BY <1>3, <2>1 DEF Finish, Behind, IInv, TypeOK
  <2>2. CASE ~(FirstHeight(last, range[w]) > range[w].last)
    <3>1. last \in Int /\ h \in Int /\ h <= last
      BY <1>3 DEF IsLastHeight, stored, Height
    <3>2. FirstHeight(last, range[w]) \in Int /\ range[w].last \in Int
      BY <1>2, <3>1 DEF FirstHeight, Larger, Ranges
    <3>3. FirstHeight(last, range[w]) > last
      BY <1>2, <2>2, <3>2, FirstHeightType
    <3>4. ~(FirstHeight(last, range[w]) <= h)
      BY <3>1, <3>2, <3>3
    <3> QED
      BY <1>3, <2>2, <3>4 DEF Behind, IInv, TypeOK
  <2> QED
    BY <2>1, <2>2
<1> QED
  BY <1>1, <1>4, BehindShrinks

\* The run that inserts a height was behind it, and is not any more.
LEMMA BehindFetchOk ==
    ASSUME IInv, BehindBounded, NEW w \in Worker, FetchOk(w)
    PROVE  BehindBounded'
<1>1. /\ pc[w] = "fetch" /\ pc' = [pc EXCEPT ![w] = "blobs"] /\ next' = next
      /\ next[w] \in Height
      /\ rows' = [rows EXCEPT ![next[w]] = @ + 1]
  BY DEF FetchOk, IInv, TypeOK, RunsOK, RunOK, Height
<1> SUFFICES ASSUME NEW h \in Height, rows'[h] > 0
             PROVE  rows'[h] + Cardinality(Behind(h)') <= Cardinality(Worker)
  BY DEF BehindBounded
<1>2. rows[h] \in Nat
  BY DEF IInv, TypeOK
<1>3. CASE h # next[w]
  <2>1. rows'[h] = rows[h]
    BY <1>1, <1>3 DEF IInv, TypeOK
  <2>2. Behind(h)' \subseteq Behind(h)
    BY <1>1, <1>3 DEF Behind, IInv, TypeOK, Height
  <2>3. Cardinality(Behind(h)') <= Cardinality(Behind(h))
    BY <2>2, BehindFinite, FS_Subset
  <2> QED
    BY <1>2, <2>1, <2>3, BehindFinite DEF BehindBounded
<1>4. CASE h = next[w]
  <2>1. rows'[h] = rows[h] + 1 /\ w \in Behind(h)
    BY <1>1, <1>4 DEF Behind, IInv, TypeOK, Height
  <2>2. Cardinality(Behind(h)') = Cardinality(Behind(h)) - 1
    <3>1. IsFiniteSet(Behind(h))
      BY BehindFinite
    <3>2. Cardinality(Behind(h) \ {w}) = Cardinality(Behind(h)) - 1
      BY <2>1, <3>1, FS_RemoveElement
    <3>3. Behind(h)' = Behind(h) \ {w}
      BY <1>1, <1>4 DEF Behind, IInv, TypeOK, Height
    <3> QED
      BY <3>2, <3>3
  <2>3. Cardinality(Behind(h)) <= Cardinality(Worker)
    BY BehindFinite, FS_Subset DEF Behind
  <2>4. CASE rows[h] = 0
    BY <2>1, <2>2, <2>3, <2>4, BehindFinite
  <2>5. CASE rows[h] > 0
    BY <1>2, <2>1, <2>2, <2>5, BehindFinite DEF BehindBounded
  <2> QED
    BY <1>2, <2>4, <2>5
<1> QED
  BY <1>3, <1>4

\* A run that goes on without inserting gets no closer to a height it was not behind.
LEMMA BehindAdvance ==
    ASSUME IInv, BehindBounded, NEW w \in Worker, NotFound(w) \/ Fail(w) \/ CollectBlobs(w)
    PROVE  BehindBounded'
<1>1. rows' = rows /\ pc[w] \in {"fetch", "blobs"}
  BY DEF NotFound, Fail, CollectBlobs
<1>2. \/ pc' = [pc EXCEPT ![w] = "idle"] /\ next' = [next EXCEPT ![w] = 0]
      \/ pc' = [pc EXCEPT ![w] = "fetch"] /\ next' = [next EXCEPT ![w] = @ + 1]
  BY DEF NotFound, Fail, CollectBlobs, Advance, Finish
<1>3. next \in [Worker -> Int] /\ pc \in [Worker -> {"idle", "read", "fetch", "blobs"}]
  BY DEF IInv, TypeOK
<1>4. ASSUME NEW h \in stored PROVE Behind(h)' \subseteq Behind(h)
  <2>1. h \in Int
    BY DEF stored, Height
  <2> QED
    BY <1>1, <1>2, <1>3, <2>1 DEF Behind
<1> QED
  BY <1>1, <1>4, BehindShrinks

LEMMA BehindNext == IInv /\ BehindBounded /\ [Next]_vars => BehindBounded'
<1> SUFFICES ASSUME IInv, BehindBounded, [Next]_vars
             PROVE  BehindBounded'
  OBVIOUS
<1>1. CASE UNCHANGED <<rows, pc, next>>
  BY <1>1, BehindShrinks DEF Behind
<1>2. ASSUME NEW w \in Worker, Status(w) \/ Die(w)
      PROVE  BehindBounded'
  <2>1. rows' = rows /\ \A h \in stored : Behind(h)' \subseteq Behind(h)
    BY <1>2 DEF Status, Die, Finish, Behind, IInv, TypeOK
  <2> QED
    BY <2>1, BehindShrinks
<1> QED
  BY <1>1, <1>2, BehindReadLast, BehindFetchOk, BehindAdvance DEF Next, NewBlocks, local, vars

\* avail/header.py has no lock, and ON CONFLICT does not keep a block from being inserted
\* again: a height has at most as many header rows as there are runs that can overlap.
THEOREM DuplicatesAreBounded == Spec => []DuplicatesBounded
<1>1. Init => BehindBounded
  BY DEF Init, BehindBounded
<1>2. IInv /\ BehindBounded => DuplicatesBounded
  <2> SUFFICES ASSUME IInv, BehindBounded, NEW h \in Height
               PROVE  rows[h] <= Cardinality(Worker)
    BY DEF DuplicatesBounded
  <2>1. rows[h] \in Nat
    BY DEF IInv, TypeOK
  <2> QED
    BY <2>1, BehindFinite DEF BehindBounded
<1> QED
  BY <1>1, <1>2, BehindNext, Invariance, PTL DEF Spec

-----------------------------------------------------------------------------
(* AvailTable: the header job and the availability check together.         *)

CheckProofs == INSTANCE AvailabilityCheckProofs WITH
    Worker <- Checker, stored <- inserted, crashes <- checkCrashes, MaxCrash <- MaxCheckCrash

HeaderInv == IInv /\ BehindBounded

\* The check leaves the header job alone.
LEMMA HeaderStep == [TableNext]_tableVars => [Next]_vars
BY DEF TableNext, CollectHeaders, StartCheck, SampleRow, UpdateRow, CheckDies, tableVars

LEMMA HeaderInvariance == TableInit /\ [][TableNext]_tableVars => []HeaderInv
<1>1. TableInit => HeaderInv
  BY InitEstablishesIInv DEF TableInit, HeaderInv, Init, BehindBounded
<1>2. HeaderInv /\ [TableNext]_tableVars => HeaderInv'
  BY HeaderStep, NextPreservesIInv, BehindNext DEF HeaderInv
<1> QED
  BY <1>1, <1>2, PTL

\* Only FetchOk changes table headers.
LEMMA RowsChange == [Next]_vars => rows' = rows \/ \E w \in Worker : FetchOk(w)
BY DEF Next, NewBlocks, Status, ReadLast, NotFound, Fail, CollectBlobs, Die, vars

\* And it adds one row.
LEMMA FetchOkInserts ==
    ASSUME IInv, DuplicatesBounded', NEW w \in Worker, FetchOk(w)
    PROVE  \E r \in Row \ inserted : inserted' = inserted \union {r}
<1> DEFINE h == next[w]
           r == <<h, rows[h] + 1>>
<1>1. h \in Height /\ rows' = [rows EXCEPT ![h] = @ + 1] /\ rows \in [Height -> Nat]
  BY DEF FetchOk, IInv, TypeOK, RunsOK, RunOK, Height
<1> HIDE DEF h
<1>2. rows'[h] <= Cardinality(Worker)
  BY <1>1 DEF DuplicatesBounded
<1>3. Cardinality(Worker) \in Nat
  BY FS_CardinalityType
<1>4. rows[h] \in Nat /\ rows'[h] = rows[h] + 1
  BY <1>1
<1>5. r \in Row
  BY <1>1, <1>2, <1>3, <1>4 DEF Row
<1>6. r \notin inserted
  BY <1>4 DEF inserted
<1>7. ASSUME NEW q \in Row PROVE q[2] <= rows'[q[1]] <=> q[2] <= rows[q[1]] \/ q = r
  <2>1. PICK g \in Height, k \in 1 .. Cardinality(Worker) : q = <<g, k>>
    BY DEF Row
  <2>2. k \in Nat /\ rows[g] \in Nat /\ q[1] = g /\ q[2] = k
    BY <1>1, <1>3, <2>1
  <2>3. CASE g = h
    BY <1>1, <1>4, <2>1, <2>2, <2>3
  <2>4. CASE g # h
    BY <1>1, <2>1, <2>2, <2>4
  <2> QED
    BY <2>3, <2>4
<1>8. inserted' = inserted \union {r}
  BY <1>5, <1>7 DEF inserted
<1> QED
  BY <1>5, <1>6, <1>8

LEMMA CheckStep ==
    ASSUME HeaderInv, HeaderInv', [TableNext]_tableVars
    PROVE  Check!Next \/ UNCHANGED Check!vars
<1>1. ASSUME rows' = rows, UNCHANGED checkVars
      PROVE  UNCHANGED Check!vars
  <2>1. inserted' = inserted
    BY <1>1 DEF inserted
  <2> QED
    BY <1>1, <2>1 DEF Check!vars, checkVars
<1>2. ASSUME NEW w \in Worker, FetchOk(w), UNCHANGED checkVars
      PROVE  Check!Next
  <2>1. DuplicatesBounded'
    <3> SUFFICES ASSUME NEW h \in Height
                 PROVE  rows'[h] <= Cardinality(Worker)
      BY DEF DuplicatesBounded
    <3>1. rows'[h] \in Nat
      BY DEF HeaderInv, IInv, TypeOK
    <3>2. rows'[h] > 0 => rows'[h] + Cardinality(Behind(h)') <= Cardinality(Worker)
      BY DEF HeaderInv, BehindBounded
    <3> QED
      BY <3>1, <3>2, BehindFinite
  <2>2. PICK r \in Row \ inserted : inserted' = inserted \union {r}
    BY <1>2, <2>1, FetchOkInserts DEF HeaderInv
  <2>3. Check!InsertHeader(r)
    BY <1>2, <2>2 DEF Check!InsertHeader, Check!table, checkVars
  <2> QED
    BY <2>2, <2>3 DEF Check!Next
<1>3. CASE CollectHeaders \/ UNCHANGED tableVars
  <2>1. [Next]_vars /\ UNCHANGED checkVars
    BY <1>3 DEF CollectHeaders, tableVars
  <2> QED
    BY <1>1, <1>2, <2>1, RowsChange
<1>4. ASSUME NEW c \in Checker, StartCheck(c) \/ SampleRow(c) \/ UpdateRow(c) \/ CheckDies(c)
      PROVE  Check!Next
  BY <1>4 DEF StartCheck, SampleRow, UpdateRow, CheckDies, Check!Next
<1> QED
  BY <1>3, <1>4 DEF TableNext

\* AvailabilityCheck takes the header job for an action that inserts a row.  Together with the
\* job itself that is what it is, however many of its runs overlap: rows appear one at a
\* time, none is changed, and there are never more of one block than the model has.
THEOREM CheckAssumesRightly == TableSpec => HeadersOnlyAppear
<1>1. TableInit => Check!Init
  BY DEF TableInit
<1>2. HeaderInv /\ HeaderInv' /\ [TableNext]_tableVars => [Check!Next]_(Check!vars)
  BY CheckStep
<1> QED
  BY <1>1, <1>2, HeaderInvariance, PTL DEF TableSpec, HeadersOnlyAppear

\* The table is an instance AvailabilityCheckProofs is about.
LEMMA CheckConstants ==
    /\ HeightOf \in [Row -> Nat]
    /\ Confidence \subseteq Nat
    /\ SETTLE_CONFIDENCE_THRESHOLD \in Nat \ {0}
    /\ MAX_ATTEMPTS \in Nat \ {0}
    /\ MAX_PENDING_PER_RUN \in Nat /\ MaxCheckCrash \in Nat
<1>1. HeightOf \in [Row -> Nat]
  BY DEF HeightOf, Row, Height
<1> QED
  BY <1>1, CheckAssumption

LEMMA CheckInitially == Check!Init => CheckProofs!IInv
<1>1. Check!Init => CheckProofs!Init
  BY DEF Check!Init, CheckProofs!Init, Check!Null, CheckProofs!Null
<1> QED
  BY <1>1, CheckConstants, CheckProofs!InitEstablishesIInv

\* The actions of the two instances are the same, and so are their steps.
LEMMA CheckNextIsTheirs == [Check!Next]_(Check!vars) => [CheckProofs!Next]_(CheckProofs!vars)
<1>1. UNCHANGED Check!vars => UNCHANGED CheckProofs!vars
  BY DEF Check!vars, CheckProofs!vars, Check!table, CheckProofs!table
<1>2. ASSUME NEW r \in Row, Check!InsertHeader(r) PROVE CheckProofs!InsertHeader(r)
  BY <1>2 DEF Check!InsertHeader, CheckProofs!InsertHeader, Check!table, CheckProofs!table
<1>3. ASSUME NEW c \in Checker, Check!Start(c) PROVE CheckProofs!Start(c)
  <2>1. \A r : Check!Selectable(r) <=> CheckProofs!Selectable(r)
    BY DEF Check!Selectable, CheckProofs!Selectable
  <2>2. Check!Batches = CheckProofs!Batches
    BY <2>1 DEF Check!Batches, CheckProofs!Batches, Check!Cardinality, CheckProofs!Cardinality
  <2>3. PICK b \in CheckProofs!Batches :
          /\ b # {} /\ pending' = [pending EXCEPT ![c] = {CheckProofs!SnapshotOf(r) : r \in b}]
          /\ shared' = shared \union {r \in b : \E v \in Checker \ {c} : CheckProofs!Holds(v, r)}
    BY <1>3, <2>2 DEF Check!Start, Check!SnapshotOf, CheckProofs!SnapshotOf,
                      Check!Holds, CheckProofs!Holds
  <2>4. /\ CheckProofs!Idle(c)
        /\ UNCHANGED <<inserted, CheckProofs!table, samples, sampleCount, answered, checkCrashes>>
    BY <1>3 DEF Check!Start, Check!Idle, CheckProofs!Idle, Check!table, CheckProofs!table
  <2> QED
    BY <2>3, <2>4 DEF CheckProofs!Start
<1>4. ASSUME NEW c \in Checker, Check!TakeSample(c) PROVE CheckProofs!TakeSample(c)
  <2>1. Check!Answer = CheckProofs!Answer
    BY DEF Check!Answer, CheckProofs!Answer, Check!Null, CheckProofs!Null
  <2> USE DEF Check!TakeSample, Check!Recorded, CheckProofs!Recorded
  <2>2. answered[c] = {} /\ UNCHANGED <<inserted, CheckProofs!table, shared, checkCrashes>>
    BY <1>4 DEF Check!table, CheckProofs!table
  <2>3. PICK i \in pending[c], conf \in CheckProofs!Answer :
          /\ \A j \in pending[c] : HeightOf[i.row] <= HeightOf[j.row]
          /\ LET a == [row |-> i.row, attempts |-> i.attempts,
                       maxConf |-> i.maxConf, conf |-> conf]
                 new == CheckProofs!Recorded([row |-> i.row, attempt |-> i.attempts + 1,
                                              conf |-> conf])
             IN  /\ pending' = [pending EXCEPT ![c] = @ \ {i}]
                 /\ answered' = [answered EXCEPT ![c] = {a}]
                 /\ samples' = samples \union new
                 /\ sampleCount' = IF new = {} THEN sampleCount
                                   ELSE [sampleCount EXCEPT ![i.row] = @ + 1]
    BY <1>4, <2>1
  <2> QED
    BY <2>2, <2>3, Zenon DEF CheckProofs!TakeSample
<1>5. ASSUME NEW c \in Checker, Check!UpdateHeader(c) PROVE CheckProofs!UpdateHeader(c)
  <2>1. \A a : Check!NextAttempt(a) = CheckProofs!NextAttempt(a)
    BY DEF Check!NextAttempt, CheckProofs!NextAttempt
  <2>2. Check!Null = CheckProofs!Null
    BY DEF Check!Null, CheckProofs!Null
  <2>3. \A old, conf : Check!NewMax(old, conf) = CheckProofs!NewMax(old, conf)
    BY <2>2 DEF Check!NewMax, CheckProofs!NewMax
  <2>4. \A n, conf : Check!IsSettled(n, conf) <=> CheckProofs!IsSettled(n, conf)
    BY <2>2 DEF Check!IsSettled, CheckProofs!IsSettled
  <2>5. \A r, n, conf : Check!SettledAfter(r, n, conf) = CheckProofs!SettledAfter(r, n, conf)
    BY <2>4 DEF Check!SettledAfter, CheckProofs!SettledAfter
  <2> QED
    BY <1>5, <2>1, <2>3, <2>5 DEF Check!UpdateHeader, CheckProofs!UpdateHeader
<1>6. ASSUME NEW c \in Checker, Check!Die(c) PROVE CheckProofs!Die(c)
  BY <1>6 DEF Check!Die, CheckProofs!Die, Check!Idle, CheckProofs!Idle,
              Check!table, CheckProofs!table
<1>7. Check!Next => CheckProofs!Next
  BY <1>2, <1>3, <1>4, <1>5, <1>6 DEF Check!Next, CheckProofs!Next
<1> QED
  BY <1>1, <1>7

LEMMA CheckInvariance == HeadersOnlyAppear => []CheckProofs!IInv
<1>1. CheckProofs!IInv /\ [Check!Next]_(Check!vars) => CheckProofs!IInv'
  BY CheckNextIsTheirs, CheckConstants, CheckProofs!NextPreservesIInv
<1> QED
  BY <1>1, CheckInitially, PTL DEF HeadersOnlyAppear

\* The invariant of the check holds of the rows the header job inserts, however many runs of
\* either job overlap or die.
LEMMA TableInvariance == TableSpec => [](HeaderInv /\ CheckProofs!IInv)
<1> QED
  BY HeaderInvariance, CheckAssumesRightly, CheckInvariance, PTL DEF TableSpec

\* The same of the part that is about the rows only one run at a time has worked on.
LEMMA UnsharedTableInvariance == TableSpec => []CheckProofs!UnsharedInv
<1>1. Check!Init => CheckProofs!UnsharedInv
  <2>1. Check!Init => CheckProofs!Init
    BY DEF Check!Init, CheckProofs!Init, Check!Null, CheckProofs!Null
  <2> QED
    BY <2>1, CheckConstants, CheckProofs!UnsharedInit
<1>2. CheckProofs!IInv /\ CheckProofs!UnsharedInv /\ [Check!Next]_(Check!vars)
        => CheckProofs!UnsharedInv'
  BY CheckNextIsTheirs, CheckConstants, CheckProofs!UnsharedNext
<1> QED
  BY <1>1, <1>2, CheckAssumesRightly, TableInvariance, PTL DEF TableSpec, HeadersOnlyAppear

\* What is proved of the check alone is true of the check on this table, whatever runs of
\* either job overlap or die: no row is stranded, every settled row has a sample that
\* justifies it, and no summary claims more than the samples show.  A row that no two runs
\* of the check had in their batches at once is sampled at most MAX_ATTEMPTS times, and once
\* more per run that died, and shows in its columns why it was settled.
THEOREM TableKeepsCheckPromises ==
    TableSpec => [](/\ Check!NoStrandedRow
                    /\ Check!SettledJustified
                    /\ Check!SummaryBackedBySamples
                    /\ Check!SampleBudget
                    /\ Check!SettledRowExplained)
<1>1. CheckProofs!IInv => /\ Check!NoStrandedRow
                          /\ Check!SettledJustified
                          /\ Check!SummaryBackedBySamples
  BY DEF CheckProofs!IInv, CheckProofs!NoStrandedRow, Check!NoStrandedRow,
         CheckProofs!SettledJustified, Check!SettledJustified,
         CheckProofs!SummaryBackedBySamples, Check!SummaryBackedBySamples,
         CheckProofs!SamplesOf, Check!SamplesOf, CheckProofs!Null, Check!Null
<1>2. CheckProofs!IInv /\ CheckProofs!UnsharedInv => Check!SampleBudget
  BY CheckConstants, CheckProofs!UnsharedWithinBudget
     DEF Check!SampleBudget, CheckProofs!SampleBudget
<1>3. CheckProofs!IInv /\ CheckProofs!UnsharedInv => Check!SettledRowExplained
  BY DEF CheckProofs!UnsharedInv, CheckProofs!SettledRowExplained, Check!SettledRowExplained
<1> QED
  BY <1>1, <1>2, <1>3, TableInvariance, UnsharedTableInvariance, PTL

\* Nor does the maximum of such a row ever fall.
THEOREM TableMaxIsMonotone == TableSpec => Check!MaxNeverDecreases
<1>1. ASSUME CheckProofs!IInv, CheckProofs!UnsharedInv, [Check!Next]_(Check!vars)
      PROVE  [\A r \in Row \ shared : maxConf'[r] >= maxConf[r]]_(Check!vars)
  <2>1. CheckProofs!Next => \A r \in Row \ shared : maxConf'[r] >= maxConf[r]
    BY <1>1, CheckConstants, CheckProofs!UnsharedNeverFalls
  <2>2. [CheckProofs!Next]_(CheckProofs!vars)
    BY <1>1, CheckNextIsTheirs
  <2>3. UNCHANGED CheckProofs!vars => UNCHANGED Check!vars
    BY DEF Check!vars, CheckProofs!vars, Check!table, CheckProofs!table
  <2> QED
    BY <2>1, <2>2, <2>3
<1> QED
  BY <1>1, TableInvariance, UnsharedTableInvariance, CheckAssumesRightly, PTL
     DEF HeadersOnlyAppear, Check!MaxNeverDecreases

\* The blocks of a set of rows.
BlocksOf(S) == {r[1] : r \in S}

\* A block is stored when one of its rows is: its first.
LEMMA BlocksWithRows ==
    ASSUME NEW count \in [Height -> Nat]
    PROVE  {h \in Height : count[h] > 0} = BlocksOf({r \in Row : r[2] <= count[r[1]]})
<1>1. Cardinality(Worker) \in Nat /\ Cardinality(Worker) # 0
  BY WorkerAssumption, FS_CardinalityType, FS_EmptySet
<1>2. ASSUME NEW h \in Height, count[h] > 0
      PROVE  h \in BlocksOf({r \in Row : r[2] <= count[r[1]]})
  <2>1. <<h, 1>> \in Row /\ <<h, 1>>[1] = h /\ <<h, 1>>[2] = 1
    BY <1>1 DEF Row
  <2> QED
    BY <1>2, <2>1 DEF BlocksOf
<1>3. ASSUME NEW r \in Row, r[2] <= count[r[1]]
      PROVE  r[1] \in Height /\ count[r[1]] > 0
  BY <1>1, <1>3 DEF Row
<1> QED
  BY <1>2, <1>3 DEF BlocksOf

\* The two readings of stored, that of the header job and that of the check, agree.
BlocksKnown == stored = BlocksOf(inserted)

LEMMA StoredBlocks == IInv => BlocksKnown
BY BlocksWithRows DEF BlocksKnown, IInv, TypeOK, stored, inserted

\* The sampled blocks are those of the sampled rows.
LEMMA SampledBlocks ==
    ASSUME NEW S
    PROVE  {s.row[1] : s \in S} = BlocksOf({s.row : s \in S})
BY DEF BlocksOf

\* What the rows do, their blocks do: the steps of Settlement on the rows are steps of
\* Settlement on the blocks, or change nothing there.
LEMMA AppearOnBlocks ==
    ASSUME BlocksKnown, BlocksKnown',
           NEW new \in SUBSET (Row \ inserted), CheckProofs!Abstract!Appear(new)
    PROVE  Blocks!Appear(BlocksOf(new) \ stored)
<1>1. inserted' = inserted \union new /\ UNCHANGED <<{s.row : s \in samples}, settled>>
  BY DEF CheckProofs!Abstract!Appear
<1>2. stored' = stored \union BlocksOf(new)
  BY <1>1 DEF BlocksKnown, BlocksOf
<1>3. BlocksOf(new) \subseteq Height
  BY DEF BlocksOf, Row
<1> QED
  BY <1>1, <1>2, <1>3 DEF Blocks!Appear

LEMMA SampleOnBlocks ==
    ASSUME BlocksKnown, BlocksKnown', NEW r \in Row, CheckProofs!Abstract!Sample(r)
    PROVE  r[1] \in Height /\ Blocks!Sample(r[1])
<1>1. /\ r \in inserted /\ UNCHANGED <<inserted, settled>>
      /\ {s.row : s \in samples'} = {s.row : s \in samples} \union {r}
  BY DEF CheckProofs!Abstract!Sample
<1>2. r[1] \in stored /\ stored' = stored
  BY <1>1 DEF BlocksKnown, BlocksOf
<1>3. r[1] \in Height
  BY DEF Row
<1>4. {s.row[1] : s \in samples'} = {s.row[1] : s \in samples} \union {r[1]}
  <2>1. {s.row[1] : s \in samples'} = BlocksOf({s.row : s \in samples'})
    BY SampledBlocks
  <2>2. {s.row[1] : s \in samples} = BlocksOf({s.row : s \in samples})
    BY SampledBlocks
  <2> QED
    BY <1>1, <2>1, <2>2 DEF BlocksOf
<1> QED
  BY <1>1, <1>2, <1>3, <1>4 DEF Blocks!Sample

\* A block can have been settled before, by another of its rows: then it is only sampled.
LEMMA SettleOnBlocks ==
    ASSUME BlocksKnown, BlocksKnown', NEW r \in Row, CheckProofs!Abstract!Settle(r)
    PROVE  r[1] \in Height /\ (Blocks!Settle(r[1]) \/ Blocks!Sample(r[1]))
<1>1. /\ r \in inserted /\ inserted' = inserted /\ settled' = settled \union {r}
      /\ {s.row : s \in samples'} = {s.row : s \in samples} \union {r}
  BY DEF CheckProofs!Abstract!Settle
<1>2. r[1] \in stored /\ stored' = stored
  BY <1>1 DEF BlocksKnown, BlocksOf
<1>3. r[1] \in Height
  BY DEF Row
<1>4. {s.row[1] : s \in samples'} = {s.row[1] : s \in samples} \union {r[1]}
  <2>1. {s.row[1] : s \in samples'} = BlocksOf({s.row : s \in samples'})
    BY SampledBlocks
  <2>2. {s.row[1] : s \in samples} = BlocksOf({s.row : s \in samples})
    BY SampledBlocks
  <2> QED
    BY <1>1, <2>1, <2>2 DEF BlocksOf
<1>5. {q[1] : q \in settled'} = {q[1] : q \in settled} \union {r[1]}
  BY <1>1
<1> QED
  BY <1>1, <1>2, <1>3, <1>4, <1>5 DEF Blocks!Sample, Blocks!Settle

LEMMA RowsToBlocks ==
    ASSUME BlocksKnown, BlocksKnown', [CheckProofs!Abstract!Next]_(CheckProofs!Abstract!vars)
    PROVE  Blocks!Next \/ UNCHANGED Blocks!vars
<1>1. CASE UNCHANGED CheckProofs!Abstract!vars
  <2>1. /\ inserted' = inserted /\ settled' = settled
        /\ {s.row : s \in samples'} = {s.row : s \in samples}
    BY <1>1 DEF CheckProofs!Abstract!vars
  <2>2. stored' = stored /\ {s.row[1] : s \in samples'} = {s.row[1] : s \in samples}
    BY <2>1, SampledBlocks DEF BlocksKnown, BlocksOf
  <2> QED
    BY <2>1, <2>2 DEF Blocks!vars
<1>2. ASSUME NEW new \in SUBSET (Row \ inserted), CheckProofs!Abstract!Appear(new)
      PROVE  Blocks!Next
  <2>1. BlocksOf(new) \ stored \in SUBSET (Height \ stored)
    BY DEF BlocksOf, Row
  <2> QED
    BY <1>2, <2>1, AppearOnBlocks DEF Blocks!Next
<1>3. ASSUME NEW r \in Row, CheckProofs!Abstract!Sample(r) \/ CheckProofs!Abstract!Settle(r)
      PROVE  Blocks!Next
  BY <1>3, SampleOnBlocks, SettleOnBlocks DEF Blocks!Next
<1> QED
  BY <1>1, <1>2, <1>3 DEF CheckProofs!Abstract!Next

\* What Settlement promises of rows, the two jobs together promise of blocks, although the
\* header job may add a row to a block that is settled: once settled a block stays settled,
\* it has a sample to show, and only blocks in the table are sampled.
THEOREM BlocksImplementSettlement == TableSpec => Blocks!Safety
<1>1. TableInit => Blocks!Init
  BY DEF TableInit, Init, Check!Init, Blocks!Init, stored
<1>2. HeaderInv => BlocksKnown
  BY StoredBlocks DEF HeaderInv
<1>3. ASSUME BlocksKnown, BlocksKnown', CheckProofs!IInv, [Check!Next]_(Check!vars)
      PROVE  Blocks!Next \/ UNCHANGED Blocks!vars
  <2>1. [CheckProofs!Abstract!Next]_(CheckProofs!Abstract!vars)
    BY <1>3, CheckNextIsTheirs, CheckConstants, CheckProofs!NextRefines
  <2> QED
    BY <1>3, <2>1, RowsToBlocks
<1> QED
  BY <1>1, <1>2, <1>3, TableInvariance, CheckAssumesRightly, PTL
     DEF TableSpec, HeadersOnlyAppear, Blocks!Safety

=============================================================================
