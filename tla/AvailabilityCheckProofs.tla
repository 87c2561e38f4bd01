----------------------- MODULE AvailabilityCheckProofs -----------------------
(***************************************************************************)
(* Theorems about AvailabilityCheck, for every set of overlapping runs,    *)
(* every set of header rows, every threshold, attempt limit and batch      *)
(* limit.                                                                  *)
(*                                                                         *)
(* The invariant that carries them says what a snapshot is worth when it   *)
(* is old: it may understate the row, but it never overstates what the     *)
(* sample table shows, because samples are only ever added.                *)
(***************************************************************************)
EXTENDS AvailabilityCheck, TLAPS

USE HeightAssumption, ConfidenceAssumption, ThresholdAssumption,
    AttemptsAssumption, BoundsAssumption

\* The attempts and the maximum an item claims for its row are on record.
Backed(item) ==
    /\ item.row \in stored
    /\ item.attempts <= sampleCount[item.row]
    /\ item.maxConf \in {Null, 0} \union {s.conf : s \in SamplesOf(item.row)}

\* A snapshot that is still to be checked is backed, however old it is.
PendingBacked == \A w \in Worker : \A i \in pending[w] : Backed(i)

\* So is a row in flight, and its own sample is on record too.
AnsweredBacked ==
    \A w \in Worker : \A a \in answered[w] :
        /\ Backed(a)
        /\ a.attempts + 1 <= sampleCount[a.row]
        /\ [row |-> a.row, attempt |-> a.attempts + 1, conf |-> a.conf] \in samples

IInv ==
    /\ TypeOK
    /\ PendingBacked
    /\ AnsweredBacked
    /\ NoStrandedRow
    /\ SettledJustified
    /\ SummaryBackedBySamples

\* Initially nothing is stored, sampled or running.
LEMMA InitEstablishesIInv == Init => IInv
  BY DEF Init, IInv, TypeOK, Maximum, PendingBacked, AnsweredBacked,
         NoStrandedRow, SettledJustified, SummaryBackedBySamples

\* NewMax returns one of its arguments or 0.
LEMMA NewMaxChooses ==
    ASSUME NEW old \in Maximum, NEW conf \in Answer
    PROVE  /\ NewMax(old, conf) \in Maximum
           /\ NewMax(old, conf) \in {0, old, conf}
           /\ NewMax(old, conf) = conf => conf # Null
           /\ NewMax(old, conf) >= old
  BY DEF NewMax, Maximum, Answer, Null

\* The header worker inserting a row disturbs nothing.
LEMMA InsertHeaderPreservesIInv ==
    ASSUME IInv, NEW r \in Row, InsertHeader(r)
    PROVE  IInv'
<1> USE DEF IInv, InsertHeader, table
<1>1. TypeOK'
  BY DEF TypeOK
<1>2. PendingBacked'
  BY DEF PendingBacked, Backed, SamplesOf
<1>3. AnsweredBacked'
  BY DEF AnsweredBacked, Backed, SamplesOf
<1>4. NoStrandedRow'
  BY DEF NoStrandedRow
<1>5. SettledJustified'
  BY DEF SettledJustified, SamplesOf
<1>6. SummaryBackedBySamples'
  BY DEF SummaryBackedBySamples, SamplesOf
<1> QED
  BY <1>1, <1>2, <1>3, <1>4, <1>5, <1>6

\* A batch is a set of stored, unsettled rows with attempts left.
LEMMA BatchSelectable ==
    ASSUME NEW b \in Batches, NEW r \in b
    PROVE  r \in Row /\ r \in stored /\ attempts[r] < MAX_ATTEMPTS
  BY DEF Batches, Selectable

\* A run that starts takes snapshots, and a fresh snapshot is backed because
\* the row's summary is.
LEMMA StartPreservesIInv ==
    ASSUME IInv, NEW w \in Worker, Start(w)
    PROVE  IInv'
<1> USE DEF IInv, table
<1>1. PICK b \in Batches :
        /\ pending' = [pending EXCEPT ![w] = {SnapshotOf(r) : r \in b}]
        /\ shared' \subseteq shared \union b
  BY DEF Start
<1>2. UNCHANGED <<stored, attempts, maxConf, settled, samples, sampleCount, answered, crashes>>
  BY DEF Start
<1>3. \A r \in b : SnapshotOf(r) \in Snapshot /\ Backed(SnapshotOf(r))
  <2> SUFFICES ASSUME NEW r \in b
               PROVE  SnapshotOf(r) \in Snapshot /\ Backed(SnapshotOf(r))
    OBVIOUS
  <2>1. r \in Row /\ r \in stored /\ attempts[r] < MAX_ATTEMPTS
    BY BatchSelectable
  <2>2. attempts[r] \in 0 .. MAX_ATTEMPTS /\ maxConf[r] \in Maximum
    BY <2>1 DEF TypeOK
  <2>3. SnapshotOf(r) \in Snapshot
    BY <2>1, <2>2 DEF SnapshotOf, Snapshot
  <2>4. Backed(SnapshotOf(r))
    BY <2>1 DEF Backed, SnapshotOf, SummaryBackedBySamples
  <2> QED
    BY <2>3, <2>4
<1>4. TypeOK'
  <2>1. shared' \subseteq stored
    BY <1>1, BatchSelectable DEF TypeOK
  <2> QED
    BY <1>1, <1>2, <1>3, <2>1 DEF TypeOK
<1>5. PendingBacked'
  <2> SUFFICES ASSUME NEW v \in Worker, NEW i \in pending'[v]
               PROVE  Backed(i)'
    BY DEF PendingBacked
  <2>1. Backed(i)
    BY <1>1, <1>3 DEF PendingBacked, TypeOK
  <2> QED
    BY <2>1, <1>2 DEF Backed, SamplesOf
<1>6. AnsweredBacked'
  BY <1>2 DEF AnsweredBacked, Backed, SamplesOf
<1>7. NoStrandedRow' /\ SettledJustified' /\ SummaryBackedBySamples'
  BY <1>2 DEF NoStrandedRow, SettledJustified, SummaryBackedBySamples, SamplesOf
<1> QED
  BY <1>4, <1>5, <1>6, <1>7

\* Recording a sample adds to what the summaries and snapshots are backed by.
LEMMA TakeSamplePreservesIInv ==
    ASSUME IInv, NEW w \in Worker, TakeSample(w)
    PROVE  IInv'
<1> USE DEF IInv, table
<1>1. PICK i \in pending[w], conf \in Answer :
        /\ pending' = [pending EXCEPT ![w] = @ \ {i}]
        /\ answered' = [answered EXCEPT ![w] =
              {[row |-> i.row, attempts |-> i.attempts,
                maxConf |-> i.maxConf, conf |-> conf]}]
        /\ samples' = samples \union
              {[row |-> i.row, attempt |-> i.attempts + 1, conf |-> conf]}
        /\ sampleCount' = [sampleCount EXCEPT ![i.row] = @ + 1]
  BY DEF TakeSample, Recorded
<1> DEFINE a == [row |-> i.row, attempts |-> i.attempts,
                 maxConf |-> i.maxConf, conf |-> conf]
           s == [row |-> i.row, attempt |-> i.attempts + 1, conf |-> conf]
<1>2. UNCHANGED <<stored, attempts, maxConf, settled, shared, crashes>>
  BY DEF TakeSample
<1>3. i \in Snapshot /\ Backed(i)
  BY DEF TypeOK, PendingBacked
<1>4. a \in InFlight /\ s \in Sample
  BY <1>3 DEF Snapshot, InFlight, Sample
<1>5. TypeOK'
  <2>1. sampleCount' \in [Row -> Nat] /\ samples' \subseteq Sample
    BY <1>1, <1>3, <1>4 DEF TypeOK, Snapshot
  <2>2. pending' \in [Worker -> SUBSET Snapshot] /\ answered' \in [Worker -> SUBSET InFlight]
    BY <1>1, <1>4 DEF TypeOK
  <2> QED
    BY <1>2, <2>1, <2>2 DEF TypeOK
<1>6. \A r \in Row : /\ sampleCount[r] \in Nat /\ sampleCount'[r] \in Nat
                     /\ sampleCount'[r] >= sampleCount[r]
                     /\ {t.conf : t \in SamplesOf(r)} \subseteq {t.conf : t \in SamplesOf(r)'}
                     /\ SamplesOf(r) \subseteq SamplesOf(r)'
  BY <1>1, <1>3, <1>5 DEF TypeOK, Snapshot, SamplesOf
<1>7. \A item : item.row \in Row /\ item.attempts \in Nat /\ Backed(item) => Backed(item)'
  BY <1>2, <1>6 DEF Backed
<1>8. PendingBacked'
  <2> SUFFICES ASSUME NEW v \in Worker, NEW j \in pending'[v]
               PROVE  Backed(j)'
    BY DEF PendingBacked
  <2>1. j \in pending[v]
    BY <1>1 DEF TypeOK
  <2>2. Backed(j) /\ j \in Snapshot
    BY <2>1 DEF PendingBacked, TypeOK
  <2> QED
    BY <1>7, <2>2 DEF Snapshot
<1>9. AnsweredBacked'
  <2> SUFFICES ASSUME NEW v \in Worker, NEW b \in answered'[v]
               PROVE  /\ Backed(b)'
                      /\ b.attempts + 1 <= sampleCount'[b.row]
                      /\ [row |-> b.row, attempt |-> b.attempts + 1, conf |-> b.conf] \in samples'
    BY DEF AnsweredBacked
  <2>1. CASE v # w
    <3>1. b \in answered[v] /\ b \in InFlight
      BY <1>1, <2>1 DEF TypeOK
    <3>2. /\ Backed(b) /\ b.attempts + 1 <= sampleCount[b.row]
          /\ [row |-> b.row, attempt |-> b.attempts + 1, conf |-> b.conf] \in samples
      BY <3>1 DEF AnsweredBacked
    <3>3. b.row \in Row /\ b.attempts \in Nat
      BY <3>1 DEF InFlight
    <3> QED
      BY <1>1, <1>6, <1>7, <3>2, <3>3
  <2>2. CASE v = w
    <3>1. b = a
      BY <1>1, <2>2 DEF TypeOK
    <3>2. i.row \in Row /\ i.attempts \in Nat
      BY <1>3 DEF Snapshot
    <3>3. Backed(i)'
      BY <1>3, <1>7, <3>2
    <3>4. i.attempts + 1 <= sampleCount'[i.row]
      BY <1>1, <1>3, <1>6, <3>2 DEF Backed, TypeOK
    <3> QED
      BY <1>1, <3>1, <3>3, <3>4 DEF Backed
  <2> QED
    BY <2>1, <2>2
<1>10. NoStrandedRow'
  BY <1>2 DEF NoStrandedRow
<1>11. SettledJustified'
  BY <1>2, <1>6 DEF SettledJustified, TypeOK
<1>12. SummaryBackedBySamples'
  BY <1>2, <1>6 DEF SummaryBackedBySamples, TypeOK
<1> QED
  BY <1>5, <1>8, <1>9, <1>10, <1>11, <1>12

\* The update of a header row writes what its own sample, recorded before it,
\* and its backed snapshot allow.
LEMMA UpdateHeaderPreservesIInv ==
    ASSUME IInv, NEW w \in Worker, UpdateHeader(w)
    PROVE  IInv'
<1> USE DEF IInv, table
<1>1. PICK a \in answered[w] :
        /\ attempts' = [attempts EXCEPT ![a.row] = a.attempts + 1]
        /\ maxConf' = [maxConf EXCEPT ![a.row] = NewMax(a.maxConf, a.conf)]
        /\ settled' = SettledAfter(a.row, a.attempts + 1, a.conf)
  BY DEF UpdateHeader, NextAttempt
<1>2. /\ UNCHANGED <<stored, samples, sampleCount, pending, shared, crashes>>
      /\ answered' = [answered EXCEPT ![w] = {}]
  BY DEF UpdateHeader
<1>3. /\ a \in InFlight
      /\ a.row \in Row /\ a.attempts + 1 \in 1 .. MAX_ATTEMPTS
      /\ a.maxConf \in Maximum /\ a.conf \in Answer
  BY DEF TypeOK, InFlight
<1>4. /\ Backed(a) /\ a.attempts + 1 <= sampleCount[a.row]
      /\ [row |-> a.row, attempt |-> a.attempts + 1, conf |-> a.conf] \in samples
  BY DEF AnsweredBacked
<1>5. settled' \subseteq settled \union {a.row} /\ settled \subseteq settled'
  BY <1>1 DEF SettledAfter
<1>6. TypeOK'
  <2>1. NewMax(a.maxConf, a.conf) \in Maximum
    BY <1>3, NewMaxChooses
  <2>2. attempts' \in [Row -> 0 .. MAX_ATTEMPTS] /\ maxConf' \in [Row -> Maximum]
    BY <1>1, <1>3, <2>1 DEF TypeOK
  <2>3. settled' \subseteq stored'
    BY <1>2, <1>4, <1>5 DEF TypeOK, Backed
  <2> QED
    BY <1>2, <2>2, <2>3 DEF TypeOK
<1>7. PendingBacked'
  BY <1>2 DEF PendingBacked, Backed, SamplesOf
<1>8. AnsweredBacked'
  <2>1. \A v \in Worker : answered'[v] \subseteq answered[v]
    BY <1>2 DEF TypeOK
  <2> QED
    BY <1>2, <2>1 DEF AnsweredBacked, Backed, SamplesOf
<1>9. NoStrandedRow'
  <2> SUFFICES ASSUME NEW r \in Row, attempts'[r] = MAX_ATTEMPTS
               PROVE  r \in settled'
    BY DEF NoStrandedRow
  <2>1. CASE r = a.row
    <3>1. a.attempts + 1 = MAX_ATTEMPTS
      BY <1>1, <1>3, <2>1 DEF TypeOK
    <3> QED
      BY <1>1, <2>1, <3>1 DEF SettledAfter, IsSettled
  <2>2. CASE r # a.row
    BY <1>1, <1>5, <2>2 DEF NoStrandedRow, TypeOK
  <2> QED
    BY <2>1, <2>2
<1>10. SettledJustified'
  <2> SUFFICES ASSUME NEW r \in settled'
               PROVE  \E s \in SamplesOf(r) : \/ s.attempt = MAX_ATTEMPTS
                                              \/ s.conf >= SETTLE_CONFIDENCE_THRESHOLD
    BY <1>2 DEF SettledJustified, SamplesOf
  <2>1. CASE r \in settled
    BY <2>1 DEF SettledJustified
  <2>2. CASE r \notin settled
    <3>1. r = a.row /\ IsSettled(a.attempts + 1, a.conf)
      BY <1>1, <2>2 DEF SettledAfter
    <3>2. a.attempts + 1 = MAX_ATTEMPTS \/ a.conf >= SETTLE_CONFIDENCE_THRESHOLD
      BY <1>3, <3>1 DEF IsSettled
    <3> QED
      BY <1>4, <3>1, <3>2 DEF SamplesOf
  <2> QED
    BY <2>1, <2>2
<1>11. SummaryBackedBySamples'
  <2> SUFFICES ASSUME NEW r \in Row
               PROVE  /\ attempts'[r] <= sampleCount[r]
                      /\ maxConf'[r] \in {Null, 0} \union {s.conf : s \in SamplesOf(r)}
    BY <1>2 DEF SummaryBackedBySamples, SamplesOf
  <2>1. CASE r # a.row
    BY <1>1, <2>1 DEF SummaryBackedBySamples, TypeOK
  <2>2. CASE r = a.row
    <3>1. NewMax(a.maxConf, a.conf) \in {0, a.maxConf, a.conf}
      BY <1>3, NewMaxChooses
    <3>2. a.conf \in {s.conf : s \in SamplesOf(a.row)}
      BY <1>4 DEF SamplesOf
    <3>3. maxConf'[r] = NewMax(a.maxConf, a.conf) /\ attempts'[r] = a.attempts + 1
      BY <1>1, <1>3, <2>2 DEF TypeOK
    <3> QED
      BY <1>4, <2>2, <3>1, <3>2, <3>3 DEF Backed
  <2> QED
    BY <2>1, <2>2
<1> QED
  BY <1>6, <1>7, <1>8, <1>9, <1>10, <1>11

\* A run that dies takes only its snapshots with it.
LEMMA DiePreservesIInv ==
    ASSUME IInv, NEW w \in Worker, Die(w)
    PROVE  IInv'
<1> USE DEF IInv, Die, table
<1>1. TypeOK'
  BY DEF TypeOK
<1>2. \A v \in Worker : pending'[v] \subseteq pending[v] /\ answered'[v] \subseteq answered[v]
  BY DEF TypeOK
<1>3. PendingBacked' /\ AnsweredBacked'
  BY <1>2 DEF PendingBacked, AnsweredBacked, Backed, SamplesOf
<1>4. NoStrandedRow' /\ SettledJustified' /\ SummaryBackedBySamples'
  BY DEF NoStrandedRow, SettledJustified, SummaryBackedBySamples, SamplesOf
<1> QED
  BY <1>1, <1>3, <1>4

LEMMA NextPreservesIInv == IInv /\ [Next]_vars => IInv'
<1> SUFFICES ASSUME IInv, [Next]_vars
             PROVE  IInv'
  OBVIOUS
<1>1. CASE UNCHANGED vars
  BY <1>1 DEF vars, IInv, TypeOK, PendingBacked, AnsweredBacked, Backed, SamplesOf,
              NoStrandedRow, SettledJustified, SummaryBackedBySamples
<1>2. ASSUME NEW r \in Row, InsertHeader(r) PROVE IInv'
  BY <1>2, InsertHeaderPreservesIInv
<1>3. ASSUME NEW w \in Worker, Start(w) PROVE IInv'
  BY <1>3, StartPreservesIInv
<1>4. ASSUME NEW w \in Worker, TakeSample(w) PROVE IInv'
  BY <1>4, TakeSamplePreservesIInv
<1>5. ASSUME NEW w \in Worker, UpdateHeader(w) PROVE IInv'
  BY <1>5, UpdateHeaderPreservesIInv
<1>6. ASSUME NEW w \in Worker, Die(w) PROVE IInv'
  BY <1>6, DiePreservesIInv
<1> QED
  BY <1>1, <1>2, <1>3, <1>4, <1>5, <1>6 DEF Next

\* The invariant holds in every reachable state.
THEOREM Invariance == Spec => []IInv
<1> QED
  BY InitEstablishesIInv, NextPreservesIInv, PTL DEF Spec

\* Every variable keeps its type.
THEOREM TypeCorrect == Spec => []TypeOK
<1>1. IInv => TypeOK
  BY DEF IInv
<1> QED
  BY <1>1, Invariance, PTL

\* However many runs overlap and die, a row whose attempts are used up is
\* settled, so get_pending strands none (availability_check.py:28, 81-82).
THEOREM NoRowIsStranded == Spec => []NoStrandedRow
<1>1. IInv => NoStrandedRow
  BY DEF IInv
<1> QED
  BY <1>1, Invariance, PTL

\* Every settled row has a sample on record that justifies it.
THEOREM SettledIsJustified == Spec => []SettledJustified
<1>1. IInv => SettledJustified
  BY DEF IInv
<1> QED
  BY <1>1, Invariance, PTL

\* The summary columns never claim more than the sample table shows.
THEOREM SummaryIsBacked == Spec => []SummaryBackedBySamples
<1>1. IInv => SummaryBackedBySamples
  BY DEF IInv
<1> QED
  BY <1>1, Invariance, PTL

-----------------------------------------------------------------------------
(* The job implements the safety part of Settlement.                       *)

LEMMA InitRefines == Init => Abstract!Init
  BY DEF Init, Abstract!Init

LEMMA NextRefines == IInv /\ [Next]_vars => [Abstract!Next]_(Abstract!vars)
<1> SUFFICES ASSUME IInv, [Next]_vars
             PROVE  Abstract!Next \/ UNCHANGED Abstract!vars
  OBVIOUS
<1> USE DEF Abstract!vars, table
<1>1. CASE UNCHANGED vars
  BY <1>1 DEF vars
<1>2. ASSUME NEW r \in Row, InsertHeader(r)
      PROVE  Abstract!Next
  <2>1. {r} \in SUBSET (Row \ stored) /\ Abstract!Appear({r})
    BY <1>2 DEF InsertHeader, Abstract!Appear
  <2> QED
    BY <2>1 DEF Abstract!Next
<1>3. ASSUME NEW w \in Worker, Start(w) \/ Die(w)
      PROVE  UNCHANGED Abstract!vars
  BY <1>3 DEF Start, Die
<1>4. ASSUME NEW w \in Worker, TakeSample(w)
      PROVE  Abstract!Next
  <2>1. PICK i \in pending[w], conf \in Answer :
          samples' = samples \union
              {[row |-> i.row, attempt |-> i.attempts + 1, conf |-> conf]}
    BY <1>4 DEF TakeSample, Recorded
  <2>2. i.row \in stored /\ i.row \in Row
    BY DEF IInv, PendingBacked, Backed, TypeOK
  <2>3. {s.row : s \in samples'} = {s.row : s \in samples} \union {i.row}
    <3> DEFINE new == [row |-> i.row, attempt |-> i.attempts + 1, conf |-> conf]
    <3>1. samples' = samples \union {new} /\ new.row = i.row
      BY <2>1
    <3> HIDE DEF new
    <3> QED
      BY <3>1
  <2>4. Abstract!Sample(i.row)
    BY <1>4, <2>2, <2>3 DEF Abstract!Sample, TakeSample
  <2> QED
    BY <2>2, <2>4 DEF Abstract!Next
<1>5. ASSUME NEW w \in Worker, UpdateHeader(w)
      PROVE  Abstract!Next \/ UNCHANGED Abstract!vars
  <2>1. PICK a \in answered[w] : settled' = SettledAfter(a.row, a.attempts + 1, a.conf)
    BY <1>5 DEF UpdateHeader, NextAttempt
  <2>2. UNCHANGED <<stored, samples>>
    BY <1>5 DEF UpdateHeader
  <2>3. /\ a.row \in stored /\ a.row \in Row
        /\ [row |-> a.row, attempt |-> a.attempts + 1, conf |-> a.conf] \in samples
    BY DEF IInv, AnsweredBacked, Backed, TypeOK
  <2>4. a.row \in {s.row : s \in samples}
    BY <2>3
  <2>5. CASE settled' = settled
    BY <2>2, <2>5
  <2>6. CASE settled' # settled
    <3>1. settled' = settled \union {a.row} /\ a.row \notin settled
      BY <2>1, <2>6 DEF SettledAfter
    <3>2. {s.row : s \in samples'} = {s.row : s \in samples} \union {a.row}
      BY <2>2, <2>4
    <3>3. Abstract!Settle(a.row)
      BY <2>2, <2>3, <3>1, <3>2 DEF Abstract!Settle
    <3> QED
      BY <2>3, <3>3 DEF Abstract!Next
  <2> QED
    BY <2>5, <2>6
<1> QED
  BY <1>1, <1>2, <1>3, <1>4, <1>5 DEF Next

\* A row is settled once and for all, and only when it has a sample.
THEOREM ImplementsSettlement == Spec => Abstract!Safety
<1> QED
  BY InitRefines, NextRefines, Invariance, PTL DEF Spec, Abstract!Safety

-----------------------------------------------------------------------------
(***************************************************************************)
(* What overlap can spoil, and what it cannot: runs may overlap as they    *)
(* like, but a row two of them never had in their batches at once keeps    *)
(* every promise of the summary columns.                                   *)
(*                                                                         *)
(* Such a row has one run at a time that will write it, so the snapshot    *)
(* that run works from equals the row, which is what UnsharedInv says;     *)
(* everything else follows from that.                                      *)
(***************************************************************************)
InFlightFor(r) == \E w \in Worker : \E a \in answered[w] : a.row = r

\* No two runs have a row that is not shared.
Alone ==
    \A r \in Row \ shared : \A v, w \in Worker : Holds(v, r) /\ Holds(w, r) => v = w

\* A snapshot is exact: nobody else has written the row since it was read.
Exact(item) ==
    /\ item.attempts = attempts[item.row]
    /\ item.maxConf = maxConf[item.row]
    /\ item.row \notin settled

SnapshotsExact ==
    \A w \in Worker : \A i \in pending[w] \union answered[w] : i.row \notin shared => Exact(i)

\* A batch has a row once; the row in flight has left it, and there is one at most.
OnePerRow ==
    \A w \in Worker : \A i, j \in pending[w] : i.row = j.row => i = j

OneInFlight ==
    \A w \in Worker : \A a \in answered[w] :
        /\ answered[w] = {a}
        /\ \A i \in pending[w] : i.row # a.row

\* A row has as many samples as attempts, one more while it is in flight, and
\* at most one more for every run that died.
SamplesCounted ==
    \A r \in Row \ shared :
        sampleCount[r] <= attempts[r] + crashes + (IF InFlightFor(r) THEN 1 ELSE 0)

UnsharedInv ==
    /\ Alone
    /\ SnapshotsExact
    /\ OnePerRow
    /\ OneInFlight
    /\ SamplesCounted
    /\ SettledRowExplained

LEMMA UnsharedInit == Init => UnsharedInv
  BY DEF Init, UnsharedInv, Alone, Holds, SnapshotsExact, OnePerRow, OneInFlight,
         SamplesCounted, SettledRowExplained, InFlightFor

LEMMA MaximumIsInt == Maximum \subseteq Int /\ Answer \subseteq Int
  BY DEF Maximum, Answer, Null

\* The new maximum is at least the answer it was computed from.
LEMMA NewMaxCovers ==
    ASSUME NEW old \in Maximum, NEW conf \in Answer
    PROVE  NewMax(old, conf) >= conf
  BY DEF NewMax, Maximum, Answer, Null

\* What a run holds is rows.
LEMMA ItemsHaveRows ==
    ASSUME IInv, NEW w \in Worker, NEW i \in pending[w] \union answered[w]
    PROVE  i.row \in Row
  BY DEF IInv, TypeOK, Snapshot, InFlight

LEMMA UnsharedInsertHeader ==
    ASSUME IInv, UnsharedInv, NEW r \in Row, InsertHeader(r)
    PROVE  UnsharedInv'
  BY DEF InsertHeader, table, UnsharedInv, Alone, Holds, SnapshotsExact, Exact, OnePerRow,
         OneInFlight, SamplesCounted, SettledRowExplained, InFlightFor

\* A row that joins a second batch is shared from then on.
LEMMA UnsharedStart ==
    ASSUME IInv, UnsharedInv, NEW w \in Worker, Start(w)
    PROVE  UnsharedInv'
<1> USE DEF UnsharedInv, table
<1>1. PICK b \in Batches :
        /\ pending' = [pending EXCEPT ![w] = {SnapshotOf(r) : r \in b}]
        /\ shared' = shared \union {r \in b : \E v \in Worker \ {w} : Holds(v, r)}
  BY DEF Start
<1>2. /\ UNCHANGED <<stored, attempts, maxConf, settled, samples, sampleCount, answered, crashes>>
      /\ answered[w] = {}
  BY DEF Start, Idle
<1>3. /\ pending'[w] = {SnapshotOf(r) : r \in b}
      /\ \A v \in Worker \ {w} : pending'[v] = pending[v]
      /\ \A r : SnapshotOf(r).row = r
  BY <1>1 DEF IInv, TypeOK, SnapshotOf
<1>4. Alone'
  <2>1. \A v \in Worker \ {w}, r \in Row : Holds(v, r)' => Holds(v, r)
    BY <1>2, <1>3 DEF Holds
  <2>2. \A r \in Row : Holds(w, r)' => r \in b
    BY <1>2, <1>3 DEF Holds
  <2> SUFFICES ASSUME NEW r \in Row, r \notin shared', NEW v \in Worker, NEW u \in Worker,
                      Holds(v, r)', Holds(u, r)', v # u
               PROVE  FALSE
    BY DEF Alone
  <2>3. r \in b => \A x \in Worker \ {w} : ~Holds(x, r)
    BY <1>1
  <2>4. r \notin shared
    BY <1>1
  <2>5. CASE v = w \/ u = w
    BY <2>1, <2>2, <2>3, <2>5
  <2>6. CASE v # w /\ u # w
    BY <2>1, <2>4, <2>6 DEF Alone
  <2> QED
    BY <2>5, <2>6
<1>5. SnapshotsExact'
  <2>1. \A r \in b : Exact(SnapshotOf(r))
    BY DEF Exact, SnapshotOf, Batches, Selectable
  <2> SUFFICES ASSUME NEW v \in Worker, NEW i \in pending'[v] \union answered'[v], i.row \notin shared'
               PROVE  Exact(i)
    BY <1>2 DEF SnapshotsExact, Exact
  <2>2. CASE v = w
    BY <1>2, <1>3, <2>1, <2>2
  <2>3. CASE v # w
    BY <1>1, <1>2, <1>3, <2>3 DEF SnapshotsExact
  <2> QED
    BY <2>2, <2>3
<1>6. OnePerRow'
  BY <1>3 DEF OnePerRow
<1>7. OneInFlight'
  BY <1>2, <1>3 DEF OneInFlight
<1>8. SamplesCounted' /\ SettledRowExplained'
  BY <1>1, <1>2 DEF SamplesCounted, SettledRowExplained, InFlightFor
<1> QED
  BY <1>4, <1>5, <1>6, <1>7, <1>8

LEMMA UnsharedTakeSample ==
    ASSUME IInv, UnsharedInv, NEW w \in Worker, TakeSample(w)
    PROVE  UnsharedInv'
<1> USE DEF UnsharedInv, table
<1>1. PICK i \in pending[w], conf \in Answer :
        /\ pending' = [pending EXCEPT ![w] = @ \ {i}]
        /\ answered' = [answered EXCEPT ![w] =
              {[row |-> i.row, attempts |-> i.attempts,
                maxConf |-> i.maxConf, conf |-> conf]}]
        /\ sampleCount' = [sampleCount EXCEPT ![i.row] = @ + 1]
  BY DEF TakeSample, Recorded
<1> DEFINE a == [row |-> i.row, attempts |-> i.attempts,
                 maxConf |-> i.maxConf, conf |-> conf]
<1>2. /\ UNCHANGED <<stored, attempts, maxConf, settled, shared, crashes>>
      /\ answered[w] = {}
  BY DEF TakeSample
<1>3. /\ i.row \in Row
      /\ a.row = i.row /\ a.attempts = i.attempts /\ a.maxConf = i.maxConf
      /\ pending'[w] = pending[w] \ {i} /\ answered'[w] = {a}
      /\ \A v \in Worker \ {w} : pending'[v] = pending[v] /\ answered'[v] = answered[v]
  BY <1>1, ItemsHaveRows DEF IInv, TypeOK
<1> HIDE DEF a
<1>4. \A v \in Worker, r \in Row : Holds(v, r)' => Holds(v, r)
  <2> SUFFICES ASSUME NEW v \in Worker, NEW r \in Row, NEW j \in pending'[v] \union answered'[v], j.row = r
               PROVE  \E k \in pending[v] \union answered[v] : k.row = r
    BY DEF Holds
  <2>1. CASE v = w
    BY <1>3, <2>1
  <2>2. CASE v # w
    BY <1>3, <2>2
  <2> QED
    BY <2>1, <2>2
<1>5. Alone'
  BY <1>2, <1>4 DEF Alone
<1>6. SnapshotsExact'
  <2> SUFFICES ASSUME NEW v \in Worker, NEW j \in pending'[v] \union answered'[v], j.row \notin shared
               PROVE  Exact(j)
    BY <1>2 DEF SnapshotsExact, Exact
  <2>1. CASE v = w /\ j = a
    BY <1>3, <2>1 DEF SnapshotsExact, Exact
  <2>2. CASE v # w \/ j # a
    BY <1>3, <2>2 DEF SnapshotsExact
  <2> QED
    BY <2>1, <2>2
<1>7. OnePerRow'
  <2>1. \A v \in Worker : pending'[v] \subseteq pending[v]
    BY <1>3
  <2> QED
    BY <2>1 DEF OnePerRow
<1>8. OneInFlight'
  <2>1. \A j \in pending[w] \ {i} : j.row # i.row
    BY DEF OnePerRow
  <2> QED
    BY <1>3, <2>1 DEF OneInFlight
<1>9. SamplesCounted'
  <2> SUFFICES ASSUME NEW r \in Row \ shared
               PROVE  sampleCount'[r] <= attempts[r] + crashes
                                           + (IF InFlightFor(r)' THEN 1 ELSE 0)
    BY <1>2 DEF SamplesCounted
  <2>1. /\ sampleCount[r] \in Nat /\ attempts[r] \in Nat /\ crashes \in Nat
    BY DEF IInv, TypeOK
  <2>2. CASE r = i.row
    <3>1. InFlightFor(r)'
      BY <1>3, <2>2 DEF InFlightFor
    <3>2. sampleCount'[r] = sampleCount[r] + 1
      BY <1>1, <2>2 DEF IInv, TypeOK
    <3>3. ~InFlightFor(r)
      <4>1. Holds(w, r)
        BY <1>1, <2>2 DEF Holds
      <4>2. \A v \in Worker : Holds(v, r) => v = w
        BY <4>1 DEF Alone
      <4> QED
        BY <1>2, <4>2 DEF InFlightFor, Holds
    <3> QED
      BY <2>1, <3>1, <3>2, <3>3 DEF SamplesCounted
  <2>3. CASE r # i.row
    <3>1. InFlightFor(r) => InFlightFor(r)'
      BY <1>2, <1>3 DEF InFlightFor
    <3>2. sampleCount'[r] = sampleCount[r]
      BY <1>1, <2>3 DEF IInv, TypeOK
    <3> QED
      BY <2>1, <3>1, <3>2 DEF SamplesCounted
  <2> QED
    BY <2>2, <2>3
<1>10. SettledRowExplained'
  BY <1>2 DEF SettledRowExplained
<1> QED
  BY <1>5, <1>6, <1>7, <1>8, <1>9, <1>10

\* A run that writes a row nobody else has writes back what is in it, and more.
LEMMA UnsharedUpdateHeader ==
    ASSUME IInv, UnsharedInv, NEW w \in Worker, UpdateHeader(w)
    PROVE  /\ UnsharedInv'
           /\ \A r \in Row \ shared : maxConf'[r] >= maxConf[r]
<1> USE DEF UnsharedInv, table
<1>1. PICK a \in answered[w] :
        /\ attempts' = [attempts EXCEPT ![a.row] = a.attempts + 1]
        /\ maxConf' = [maxConf EXCEPT ![a.row] = NewMax(a.maxConf, a.conf)]
        /\ settled' = SettledAfter(a.row, a.attempts + 1, a.conf)
  BY DEF UpdateHeader, NextAttempt
<1>2. /\ UNCHANGED <<stored, samples, sampleCount, pending, shared, crashes>>
      /\ answered' = [answered EXCEPT ![w] = {}]
  BY DEF UpdateHeader
<1>3. /\ a \in InFlight /\ a.row \in Row
      /\ a.attempts + 1 \in 1 .. MAX_ATTEMPTS
      /\ a.maxConf \in Maximum /\ a.conf \in Answer
  BY DEF IInv, TypeOK, InFlight
<1>4. a.row \notin shared =>
        /\ a.attempts = attempts[a.row] /\ a.maxConf = maxConf[a.row]
        /\ a.row \notin settled
  BY DEF SnapshotsExact, Exact
<1>5. /\ answered[w] = {a}
      /\ \A i \in pending[w] : i.row # a.row
  BY DEF OneInFlight
<1>6. /\ answered'[w] = {} /\ \A v \in Worker \ {w} : answered'[v] = answered[v]
      /\ \A v \in Worker : answered'[v] \subseteq answered[v]
  BY <1>2 DEF IInv, TypeOK
<1>7. \A r \in Row : r # a.row => /\ attempts'[r] = attempts[r]
                                  /\ maxConf'[r] = maxConf[r]
                                  /\ r \in settled' <=> r \in settled
  BY <1>1, <1>3 DEF IInv, TypeOK, SettledAfter
<1>8. attempts'[a.row] = a.attempts + 1 /\ maxConf'[a.row] = NewMax(a.maxConf, a.conf)
  BY <1>1, <1>3 DEF IInv, TypeOK
<1>9. Alone'
  <2>1. \A v \in Worker, r \in Row : Holds(v, r)' => Holds(v, r)
    BY <1>2, <1>6 DEF Holds
  <2> QED
    BY <1>2, <2>1 DEF Alone
<1>10. SnapshotsExact'
  <2> SUFFICES ASSUME NEW v \in Worker, NEW i \in pending[v] \union answered'[v], i.row \notin shared
               PROVE  Exact(i)'
    BY <1>2 DEF SnapshotsExact
  <2>1. i \in pending[v] \union answered[v] /\ Exact(i) /\ i.row \in Row
    BY <1>6, ItemsHaveRows DEF SnapshotsExact
  <2>2. i.row # a.row
    <3>1. CASE v = w
      BY <1>5, <1>6, <3>1
    <3>2. CASE v # w
      <4>1. Holds(v, i.row) /\ Holds(w, a.row)
        BY <2>1 DEF Holds
      <4> QED
        BY <2>1, <3>2, <4>1 DEF Alone
    <3> QED
      BY <3>1, <3>2
  <2> QED
    BY <1>7, <2>1, <2>2 DEF Exact
<1>11. OnePerRow' /\ OneInFlight'
  BY <1>2, <1>6 DEF OnePerRow, OneInFlight
<1>12. SamplesCounted'
  <2> SUFFICES ASSUME NEW r \in Row \ shared
               PROVE  sampleCount[r] <= attempts'[r] + crashes + (IF InFlightFor(r)' THEN 1 ELSE 0)
    BY <1>2 DEF SamplesCounted
  <2>1. /\ sampleCount[r] \in Nat /\ attempts[r] \in Nat /\ crashes \in Nat
        /\ sampleCount[r] <= attempts[r] + crashes + (IF InFlightFor(r) THEN 1 ELSE 0)
    BY DEF IInv, TypeOK, SamplesCounted
  <2>2. CASE r = a.row
    <3>1. attempts'[r] = attempts[r] + 1
      BY <1>4, <1>8, <2>2
    <3> QED
      BY <2>1, <3>1
  <2>3. CASE r # a.row
    <3>1. InFlightFor(r) => InFlightFor(r)'
      BY <1>5, <1>6, <2>3 DEF InFlightFor
    <3>2. attempts'[r] = attempts[r]
      BY <1>7, <2>3
    <3> QED
      BY <2>1, <3>1, <3>2
  <2> QED
    BY <2>2, <2>3
<1>13. SettledRowExplained'
  <2> SUFFICES ASSUME NEW r \in settled', r \notin shared
               PROVE  \/ attempts'[r] = MAX_ATTEMPTS
                      \/ maxConf'[r] >= SETTLE_CONFIDENCE_THRESHOLD
    BY <1>2 DEF SettledRowExplained
  <2>1. CASE r # a.row
    <3>1. r \in settled /\ r \in Row
      BY <1>1, <2>1 DEF SettledAfter, IInv, TypeOK
    <3> QED
      BY <1>7, <2>1, <3>1 DEF SettledRowExplained
  <2>2. CASE r = a.row
    <3>1. IsSettled(a.attempts + 1, a.conf)
      BY <1>1, <1>4, <2>2 DEF SettledAfter
    <3>2. NewMax(a.maxConf, a.conf) >= a.conf /\ NewMax(a.maxConf, a.conf) \in Maximum
      BY <1>3, NewMaxCovers, NewMaxChooses
    <3>3. NewMax(a.maxConf, a.conf) \in Int /\ a.conf \in Int
      BY <1>3, <3>2, MaximumIsInt
    <3>4. CASE a.attempts + 1 >= MAX_ATTEMPTS
      BY <1>3, <1>8, <2>2, <3>4
    <3>5. CASE a.conf >= SETTLE_CONFIDENCE_THRESHOLD
      BY <1>8, <2>2, <3>2, <3>3, <3>5
    <3> QED
      BY <3>1, <3>4, <3>5 DEF IsSettled
  <2> QED
    BY <2>1, <2>2
<1>14. \A r \in Row \ shared : maxConf'[r] >= maxConf[r]
  <2>1. a.row \notin shared => maxConf'[a.row] >= maxConf[a.row]
    BY <1>3, <1>4, <1>8, NewMaxChooses
  <2>2. \A r \in Row : maxConf[r] >= maxConf[r]
    <3>1. \A r \in Row : maxConf[r] \in Int
      BY MaximumIsInt DEF IInv, TypeOK
    <3> QED
      BY <3>1
  <2> QED
    BY <1>7, <2>1, <2>2
<1> QED
  BY <1>9, <1>10, <1>11, <1>12, <1>13, <1>14

LEMMA UnsharedDie ==
    ASSUME IInv, UnsharedInv, NEW w \in Worker, Die(w)
    PROVE  UnsharedInv'
<1> USE DEF UnsharedInv
<1>1. /\ UNCHANGED <<stored, attempts, maxConf, settled, samples, sampleCount, shared>>
      /\ crashes' = crashes + 1
      /\ \A v \in Worker : pending'[v] \subseteq pending[v] /\ answered'[v] \subseteq answered[v]
      /\ \A v \in Worker : answered'[v] \in {{}, answered[v]} /\ pending'[v] \in {{}, pending[v]}
  BY DEF Die, table, IInv, TypeOK
<1>2. Alone'
  <2>1. \A v \in Worker, r \in Row : Holds(v, r)' => Holds(v, r)
    BY <1>1 DEF Holds
  <2> QED
    BY <1>1, <2>1 DEF Alone
<1>3. SnapshotsExact'
  BY <1>1 DEF SnapshotsExact, Exact
<1>4. OnePerRow' /\ OneInFlight'
  BY <1>1 DEF OnePerRow, OneInFlight
<1>5. SamplesCounted'
  <2> SUFFICES ASSUME NEW r \in Row \ shared
               PROVE  sampleCount[r] <= attempts[r] + (crashes + 1) + (IF InFlightFor(r)' THEN 1 ELSE 0)
    BY <1>1 DEF SamplesCounted
  <2>1. /\ sampleCount[r] \in Nat /\ attempts[r] \in Nat /\ crashes \in Nat
        /\ sampleCount[r] <= attempts[r] + crashes + (IF InFlightFor(r) THEN 1 ELSE 0)
    BY DEF IInv, TypeOK, SamplesCounted
  <2> QED
    BY <2>1
<1>6. SettledRowExplained'
  BY <1>1 DEF SettledRowExplained
<1> QED
  BY <1>2, <1>3, <1>4, <1>5, <1>6

LEMMA UnsharedNext == IInv /\ UnsharedInv /\ [Next]_vars => UnsharedInv'
<1> SUFFICES ASSUME IInv, UnsharedInv, [Next]_vars
             PROVE  UnsharedInv'
  OBVIOUS
<1>1. CASE UNCHANGED vars
  BY <1>1 DEF vars, table, UnsharedInv, Alone, Holds, SnapshotsExact, Exact, OnePerRow,
              OneInFlight, SamplesCounted, SettledRowExplained, InFlightFor
<1>2. CASE Next
  BY <1>2, UnsharedInsertHeader, UnsharedStart, UnsharedTakeSample, UnsharedUpdateHeader,
     UnsharedDie DEF Next
<1> QED
  BY <1>1, <1>2

\* What holds of the rows no two runs have had at once, in every reachable state.
THEOREM UnsharedInvariance == Spec => []UnsharedInv
<1> QED
  BY UnsharedInit, UnsharedNext, Invariance, PTL DEF Spec

\* A row that is in flight has an attempt left.
LEMMA UnsharedWithinBudget == IInv /\ UnsharedInv => SampleBudget
<1> SUFFICES ASSUME IInv, UnsharedInv, NEW r \in Row \ shared
             PROVE  sampleCount[r] <= MAX_ATTEMPTS + crashes
  BY DEF SampleBudget
<1>1. /\ sampleCount[r] \in Nat /\ attempts[r] \in 0 .. MAX_ATTEMPTS /\ crashes \in Nat
      /\ sampleCount[r] <= attempts[r] + crashes + (IF InFlightFor(r) THEN 1 ELSE 0)
  BY DEF IInv, TypeOK, UnsharedInv, SamplesCounted
<1>2. CASE InFlightFor(r)
  <2>1. PICK w \in Worker : \E a \in answered[w] : a.row = r
    BY <1>2 DEF InFlightFor
  <2>2. PICK a \in answered[w] : a.row = r
    BY <2>1
  <2>3. a.attempts = attempts[r] /\ a \in InFlight
    BY <2>2 DEF UnsharedInv, SnapshotsExact, Exact, IInv, TypeOK
  <2>4. attempts[r] + 1 <= MAX_ATTEMPTS
    BY <2>3 DEF InFlight
  <2> QED
    BY <1>1, <1>2, <2>4
<1>3. CASE ~InFlightFor(r)
  BY <1>1, <1>3
<1> QED
  BY <1>2, <1>3

\* A row that no two runs have had at once is sampled more than MAX_ATTEMPTS times only
\* because of runs that died between its sample and its update, whatever else overlaps.
THEOREM SamplesWithinBudget == Spec => []SampleBudget
<1> QED
  BY UnsharedWithinBudget, UnsharedInvariance, Invariance, PTL

\* The columns of a settled row say why it is settled, if no two runs have had it at once.
THEOREM SettledIsExplained == Spec => []SettledRowExplained
<1>1. UnsharedInv => SettledRowExplained
  BY DEF UnsharedInv
<1> QED
  BY <1>1, UnsharedInvariance, PTL

\* Only UpdateHeader writes the maximum, and its snapshot of such a row is exact.
LEMMA UnsharedNeverFalls ==
    ASSUME IInv, UnsharedInv, Next
    PROVE  \A r \in Row \ shared : maxConf'[r] >= maxConf[r]
<1>1. \A r \in Row : maxConf[r] >= maxConf[r]
  <2>1. \A r \in Row : maxConf[r] \in Int
    BY MaximumIsInt DEF IInv, TypeOK
  <2> QED
    BY <2>1
<1>2. CASE maxConf' = maxConf
  BY <1>1, <1>2
<1>3. CASE \E w \in Worker : UpdateHeader(w)
  BY <1>3, UnsharedUpdateHeader
<1> QED
  BY <1>2, <1>3 DEF Next, InsertHeader, Start, TakeSample, Die, table

\* availability_max_confidence only falls on a row two runs have had at once: the lost update
\* of availability_check.py:74 takes no less.
THEOREM MaxIsMonotone == Spec => MaxNeverDecreases
<1>1. IInv /\ UnsharedInv /\ [Next]_vars => [\A r \in Row \ shared : maxConf'[r] >= maxConf[r]]_vars
  BY UnsharedNeverFalls
<1> QED
  BY <1>1, UnsharedInvariance, Invariance, PTL DEF Spec, MaxNeverDecreases

=============================================================================
