-------------------------- MODULE SharesCheckProofs --------------------------
(***************************************************************************)
(* Theorems about SharesCheck, for every finite set of overlapping runs    *)
(* and every set of header rows.                                           *)
(*                                                                         *)
(* The invariant counts, for a row that has its verdict, the runs that     *)
(* still hold it in their batch: each of them adds one sample at most, no  *)
(* run can join them, so samples and holders together never exceed the     *)
(* number of runs.  A row nobody holds is therefore done.                  *)
(***************************************************************************)
EXTENDS SharesCheck, FiniteSetTheorems, TLAPS

USE HeightAssumption, WorkerAssumption, BoundsAssumption

Holders(r) == {w \in Worker : r \in pending[w]}

\* A run has one transaction at a time, for a row it holds.
OpenOfBatch ==
    \A w \in Worker : \A t \in open[w] : open[w] = {t} /\ t.row \in pending[w]

\* No two transactions begin at the same time.
TimesDiffer ==
    /\ \A s, t \in samples : s.ts = t.ts => s = t
    /\ \A w \in Worker : \A t \in open[w] :
        /\ \A s \in samples : s.ts # t.ts
        /\ \A v \in Worker : \A u \in open[v] : u.ts = t.ts => v = w

HoldersBounded ==
    \A r \in Row :
        /\ IsFiniteSet(SamplesOf(r))
        /\ verdict[r] = Null => SamplesOf(r) = {}
        /\ verdict[r] # Null =>
              Cardinality(SamplesOf(r)) + Cardinality(Holders(r)) <= Cardinality(Worker)

IInv ==
    /\ TypeOK
    /\ OpenOfBatch
    /\ TimesDiffer
    /\ VerdictHasItsSample
    /\ HoldersBounded

Transaction == [row : stored, ts : 1 .. now, available : Answer]

LEMMA InitEstablishesIInv == Init => IInv
<1> SUFFICES ASSUME Init PROVE IInv
  OBVIOUS
<1>1. TypeOK /\ OpenOfBatch /\ TimesDiffer /\ VerdictHasItsSample
  BY DEF Init, TypeOK, OpenOfBatch, TimesDiffer, VerdictHasItsSample
<1>2. \A r \in Row : SamplesOf(r) = {} /\ verdict[r] = Null
  BY DEF Init, SamplesOf
<1>3. HoldersBounded
  BY <1>2, FS_EmptySet DEF HoldersBounded
<1> QED
  BY <1>1, <1>3 DEF IInv

\* The runs that hold a row are finitely many.
LEMMA HoldersFinite ==
    ASSUME NEW r \in Row
    PROVE  /\ IsFiniteSet(Holders(r)) /\ IsFiniteSet(Holders(r)')
           /\ Cardinality(Worker) \in Nat
           /\ Cardinality(Holders(r)) \in Nat
           /\ Cardinality(Holders(r)') \in Nat
           /\ Cardinality(Holders(r)) <= Cardinality(Worker)
<1>1. Holders(r) \subseteq Worker /\ Holders(r)' \subseteq Worker
  BY DEF Holders
<1> QED
  BY <1>1, FS_Subset, FS_CardinalityType

\* Fewer holders are not more.
LEMMA HoldersMonotone ==
    ASSUME NEW r \in Row, Holders(r)' \subseteq Holders(r)
    PROVE  Cardinality(Holders(r)') <= Cardinality(Holders(r))
  BY HoldersFinite, FS_Subset

\* Steps that write neither table, and give no run a row that has its verdict.
LEMMA TablesKept ==
    ASSUME IInv, UNCHANGED <<verdict, checkedAt, samples>>,
           \A r \in Row : verdict[r] # Null => Holders(r)' \subseteq Holders(r)
    PROVE  VerdictHasItsSample' /\ HoldersBounded'
<1>1. VerdictHasItsSample'
  BY DEF IInv, VerdictHasItsSample
<1>2. \A r \in Row : SamplesOf(r)' = SamplesOf(r)
  BY DEF SamplesOf
<1>3. HoldersBounded'
  <2> SUFFICES ASSUME NEW r \in Row
               PROVE  /\ IsFiniteSet(SamplesOf(r))
                      /\ verdict[r] = Null => SamplesOf(r) = {}
                      /\ verdict[r] # Null =>
                           Cardinality(SamplesOf(r)) + Cardinality(Holders(r)') <= Cardinality(Worker)
    BY <1>2 DEF HoldersBounded
  <2>1. IsFiniteSet(SamplesOf(r)) /\ (verdict[r] = Null => SamplesOf(r) = {})
    BY DEF IInv, HoldersBounded
  <2>2. Cardinality(SamplesOf(r)) \in Nat
    BY <2>1, FS_CardinalityType
  <2>3. ASSUME verdict[r] # Null
        PROVE  Cardinality(SamplesOf(r)) + Cardinality(Holders(r)') <= Cardinality(Worker)
    <3>1. Cardinality(SamplesOf(r)) + Cardinality(Holders(r)) <= Cardinality(Worker)
      BY <2>3 DEF IInv, HoldersBounded
    <3>2. Cardinality(Holders(r)') <= Cardinality(Holders(r))
      BY <2>3, HoldersMonotone
    <3> QED
      BY <2>2, <3>1, <3>2, HoldersFinite
  <2> QED
    BY <2>1, <2>3
<1> QED
  BY <1>1, <1>3

LEMMA InsertHeadersPreservesIInv ==
    ASSUME IInv, NEW new, InsertHeaders(new)
    PROVE  IInv'
<1> USE DEF InsertHeaders, columns
<1>1. TypeOK'
  BY DEF IInv, TypeOK
<1>2. OpenOfBatch' /\ TimesDiffer'
  BY DEF IInv, OpenOfBatch, TimesDiffer
<1>3. VerdictHasItsSample' /\ HoldersBounded'
  BY TablesKept DEF Holders
<1> QED
  BY <1>1, <1>2, <1>3 DEF IInv

\* Only rows without a verdict join a batch.
LEMMA StartPreservesIInv ==
    ASSUME IInv, NEW w \in Worker, Start(w)
    PROVE  IInv'
<1>1. PICK b \in Batches : pending' = [pending EXCEPT ![w] = b]
  BY DEF Start
<1>2. UNCHANGED <<stored, verdict, checkedAt, samples, open, now, crashes>> /\ pending[w] = {}
  BY DEF Start, Idle, columns
<1>3. b \subseteq stored /\ \A r \in b : verdict[r] = Null
  BY DEF Batches, Selectable
<1>4. TypeOK'
  BY <1>1, <1>2, <1>3 DEF IInv, TypeOK
<1>5. OpenOfBatch'
  BY <1>1, <1>2 DEF IInv, TypeOK, OpenOfBatch
<1>6. TimesDiffer'
  BY <1>2 DEF IInv, TimesDiffer
<1>7. \A r \in Row : verdict[r] # Null => Holders(r)' \subseteq Holders(r)
  BY <1>1, <1>3 DEF Holders, IInv, TypeOK
<1>8. VerdictHasItsSample' /\ HoldersBounded'
  BY <1>2, <1>7, TablesKept
<1> QED
  BY <1>4, <1>5, <1>6, <1>8 DEF IInv

\* A transaction begins later than all others.
LEMMA BeginPreservesIInv ==
    ASSUME IInv, NEW w \in Worker, Begin(w)
    PROVE  IInv'
<1>1. PICK r \in pending[w], ok \in Answer :
        open' = [open EXCEPT ![w] = {[row |-> r, ts |-> now', available |-> ok]}]
  BY DEF Begin
<1> DEFINE t == [row |-> r, ts |-> now', available |-> ok]
<1>2. /\ UNCHANGED <<stored, verdict, checkedAt, samples, pending, crashes>>
      /\ now' = now + 1 /\ open[w] = {} /\ now \in Nat
  BY DEF Begin, columns, IInv, TypeOK
<1>3. /\ open'[w] = {t} /\ \A v \in Worker \ {w} : open'[v] = open[v]
      /\ t.row = r /\ t.ts = now + 1 /\ r \in stored
  BY <1>1, <1>2 DEF IInv, TypeOK
<1>4. TypeOK'
  <2>1. t \in [row : stored, ts : 1 .. now', available : Answer]
    BY <1>2, <1>3
  <2>2. [row : stored, ts : 1 .. now, available : Answer]
          \subseteq [row : stored, ts : 1 .. now', available : Answer]
    BY <1>2
  <2>3. open' \in [Worker -> SUBSET [row : stored, ts : 1 .. now', available : Answer]]
    BY <1>1, <2>1, <2>2 DEF IInv, TypeOK
  <2> QED
    BY <1>2, <2>2, <2>3 DEF IInv, TypeOK
<1>5. \A s \in samples : s.ts # now + 1
  BY <1>2 DEF IInv, TypeOK
<1>6. \A v \in Worker : \A u \in open[v] : u.ts # now + 1
  BY <1>2 DEF IInv, TypeOK
<1> HIDE DEF t
<1>7. OpenOfBatch'
  BY <1>2, <1>3 DEF IInv, OpenOfBatch
<1>8. TimesDiffer'
  BY <1>2, <1>3, <1>5, <1>6 DEF IInv, TimesDiffer
<1>9. VerdictHasItsSample' /\ HoldersBounded'
  BY <1>2, TablesKept DEF Holders
<1> QED
  BY <1>4, <1>7, <1>8, <1>9 DEF IInv

\* What a commit does: one sample more, and its row the only one that is written.
LEMMA CommitFacts ==
    ASSUME IInv, NEW w \in Worker, Commit(w)
    PROVE  \E t \in open[w] :
             /\ open[w] = {t} /\ t \in Transaction /\ t \notin samples
             /\ t.row \in Row /\ t.row \in stored /\ t.available # Null /\ t.row \in pending[w]
             /\ samples' = samples \union {t}
             /\ pending' = [pending EXCEPT ![w] = @ \ {t.row}]
             /\ open' = [open EXCEPT ![w] = {}]
             /\ \A r \in Row \ {t.row} : /\ verdict'[r] = verdict[r] /\ checkedAt'[r] = checkedAt[r]
                                         /\ SamplesOf(r)' = SamplesOf(r)
             /\ verdict'[t.row] = t.available /\ checkedAt'[t.row] = t.ts
             /\ SamplesOf(t.row)' = SamplesOf(t.row) \union {t}
             /\ verdict' \in [Row -> Answer \union {Null}] /\ checkedAt' \in [Row -> Nat]
             /\ UNCHANGED <<stored, now, crashes>>
<1>1. PICK t \in open[w] :
        /\ samples' = samples \union {t}
        /\ verdict' = [r \in Row |-> IF r \in Updated(t.row) THEN VerdictAfter(r, t.available)
                                     ELSE verdict[r]]
        /\ checkedAt' = [r \in Row |-> IF r \in Updated(t.row) THEN CheckTime(t) ELSE checkedAt[r]]
        /\ pending' = [pending EXCEPT ![w] = @ \ {t.row}]
  BY DEF Commit
<1>2. t \in Transaction /\ stored \subseteq Row /\ open[w] = {t} /\ t.row \in pending[w]
  BY DEF Transaction, IInv, TypeOK, OpenOfBatch
<1>3. t.row \in stored /\ t.row \in Row /\ t.ts \in Nat /\ t.available \in Answer /\ t.available # Null
  BY <1>2 DEF Transaction, Answer, Null
<1>4. t \notin samples
  BY DEF IInv, TimesDiffer
<1>5. /\ verdict' = [r \in Row |-> IF r = t.row THEN t.available ELSE verdict[r]]
      /\ checkedAt' = [r \in Row |-> IF r = t.row THEN t.ts ELSE checkedAt[r]]
  BY <1>1 DEF Updated, VerdictAfter, CheckTime
<1>6. verdict' \in [Row -> Answer \union {Null}] /\ checkedAt' \in [Row -> Nat]
  BY <1>3, <1>5 DEF IInv, TypeOK
<1>7. /\ SamplesOf(t.row)' = SamplesOf(t.row) \union {t}
      /\ \A r \in Row \ {t.row} : SamplesOf(r)' = SamplesOf(r)
  BY <1>1 DEF SamplesOf
<1>8. UNCHANGED <<stored, now, crashes>> /\ open' = [open EXCEPT ![w] = {}]
  BY DEF Commit
<1> QED
  BY <1>1, <1>2, <1>3, <1>4, <1>5, <1>6, <1>7, <1>8

\* A run that commits adds a sample and lets go of the row.
LEMMA CommitPreservesIInv ==
    ASSUME IInv, NEW w \in Worker, Commit(w)
    PROVE  IInv'
<1>1. PICK t \in open[w] :
             /\ open[w] = {t} /\ t \in Transaction /\ t \notin samples
             /\ t.row \in Row /\ t.row \in stored /\ t.available # Null /\ t.row \in pending[w]
             /\ samples' = samples \union {t}
             /\ pending' = [pending EXCEPT ![w] = @ \ {t.row}]
             /\ open' = [open EXCEPT ![w] = {}]
             /\ \A r \in Row \ {t.row} : /\ verdict'[r] = verdict[r] /\ checkedAt'[r] = checkedAt[r]
                                         /\ SamplesOf(r)' = SamplesOf(r)
             /\ verdict'[t.row] = t.available /\ checkedAt'[t.row] = t.ts
             /\ SamplesOf(t.row)' = SamplesOf(t.row) \union {t}
             /\ verdict' \in [Row -> Answer \union {Null}] /\ checkedAt' \in [Row -> Nat]
             /\ UNCHANGED <<stored, now, crashes>>
  BY CommitFacts
<1>2. TypeOK'
  BY <1>1 DEF IInv, TypeOK, Transaction
<1>3. /\ open'[w] = {} /\ \A v \in Worker \ {w} : open'[v] = open[v] /\ pending'[v] = pending[v]
  BY <1>1 DEF IInv, TypeOK
<1>4. OpenOfBatch'
  BY <1>3 DEF IInv, OpenOfBatch
<1>5. \A s \in samples : s.ts # t.ts
  BY DEF IInv, TimesDiffer
<1>6. TimesDiffer'
  <2>1. \A s, u \in samples' : s.ts = u.ts => s = u
    BY <1>1, <1>5 DEF IInv, TimesDiffer
  <2>2. ASSUME NEW v \in Worker, NEW u \in open'[v]
        PROVE  /\ \A s \in samples' : s.ts # u.ts
               /\ \A x \in Worker : \A y \in open'[x] : y.ts = u.ts => x = v
    <3>1. v # w /\ u \in open[v]
      BY <1>3, <2>2
    <3>2. t.ts # u.ts /\ \A s \in samples : s.ts # u.ts
      BY <3>1 DEF IInv, TimesDiffer
    <3>3. \A x \in Worker : open'[x] \subseteq open[x]
      BY <1>3
    <3> QED
      BY <1>1, <3>1, <3>2, <3>3 DEF IInv, TimesDiffer
  <2> QED
    BY <2>1, <2>2 DEF TimesDiffer
<1>7. VerdictHasItsSample'
  <2> SUFFICES ASSUME NEW r \in Row, verdict'[r] # Null
               PROVE  /\ \E s \in samples' : s.ts = checkedAt'[r]
                      /\ \A s \in samples' : s.ts = checkedAt'[r] =>
                            HeightOf[s.row] = HeightOf[r] /\ s.available = verdict'[r]
    BY DEF VerdictHasItsSample
  <2>1. CASE r = t.row
    BY <1>1, <1>5, <2>1
  <2>2. CASE r # t.row
    <3>1. /\ \E s \in samples : s.ts = checkedAt[r]
          /\ \A s \in samples : s.ts = checkedAt[r] =>
                HeightOf[s.row] = HeightOf[r] /\ s.available = verdict[r]
      BY <1>1, <2>2 DEF IInv, VerdictHasItsSample
    <3> QED
      BY <1>1, <1>5, <2>2, <3>1
  <2> QED
    BY <2>1, <2>2
<1>8. HoldersBounded'
  <2> SUFFICES ASSUME NEW r \in Row
               PROVE  /\ IsFiniteSet(SamplesOf(r)')
                      /\ verdict'[r] = Null => SamplesOf(r)' = {}
                      /\ verdict'[r] # Null =>
                            Cardinality(SamplesOf(r)') + Cardinality(Holders(r)') <= Cardinality(Worker)
    BY DEF HoldersBounded
  <2>0. /\ IsFiniteSet(SamplesOf(r)) /\ (verdict[r] = Null => SamplesOf(r) = {})
        /\ verdict[r] # Null =>
              Cardinality(SamplesOf(r)) + Cardinality(Holders(r)) <= Cardinality(Worker)
    BY DEF IInv, HoldersBounded
  <2>1. CASE r # t.row
    <3>1. Holders(r)' = Holders(r)
      BY <1>1, <2>1 DEF Holders, IInv, TypeOK
    <3> QED
      BY <1>1, <2>0, <2>1, <3>1
  <2>2. CASE r = t.row
    <3>1. w \in Holders(r) /\ Holders(r)' = Holders(r) \ {w}
      BY <1>1, <2>2 DEF Holders, IInv, TypeOK
    <3>2. Cardinality(Holders(r)') = Cardinality(Holders(r)) - 1
      BY <3>1, HoldersFinite, FS_RemoveElement
    <3>3. t \notin SamplesOf(r)
      BY <1>1 DEF SamplesOf
    <3>4. /\ IsFiniteSet(SamplesOf(r)')
          /\ Cardinality(SamplesOf(r)') = Cardinality(SamplesOf(r)) + 1
      BY <1>1, <2>0, <2>2, <3>3, FS_AddElement
    <3>5. Cardinality(SamplesOf(r)) \in Nat /\ Cardinality({}) = 0
      BY <2>0, FS_CardinalityType, FS_EmptySet
    <3>6. Cardinality(SamplesOf(r)) + Cardinality(Holders(r)) <= Cardinality(Worker)
      BY <2>0, <3>5, HoldersFinite
    <3> QED
      BY <1>1, <2>2, <3>2, <3>4, <3>5, <3>6, HoldersFinite
  <2> QED
    BY <2>1, <2>2
<1> QED
  BY <1>2, <1>4, <1>6, <1>7, <1>8 DEF IInv

LEMMA DiePreservesIInv ==
    ASSUME IInv, NEW w \in Worker, Die(w)
    PROVE  IInv'
<1>1. /\ pending' = [pending EXCEPT ![w] = {}] /\ open' = [open EXCEPT ![w] = {}]
      /\ UNCHANGED <<stored, verdict, checkedAt, samples, now>>
      /\ crashes' = crashes + 1 /\ crashes < MaxCrash
  BY DEF Die, columns
<1>2. TypeOK'
  BY <1>1 DEF IInv, TypeOK
<1>3. /\ \A v \in Worker : open'[v] \subseteq open[v] /\ pending'[v] \subseteq pending[v]
      /\ open'[w] = {} /\ \A v \in Worker \ {w} : open'[v] = open[v] /\ pending'[v] = pending[v]
  BY <1>1 DEF IInv, TypeOK
<1>4. OpenOfBatch'
  BY <1>3 DEF IInv, OpenOfBatch
<1>5. TimesDiffer'
  BY <1>1, <1>3 DEF IInv, TimesDiffer
<1>6. VerdictHasItsSample' /\ HoldersBounded'
  BY <1>1, <1>3, TablesKept DEF Holders
<1> QED
  BY <1>2, <1>4, <1>5, <1>6 DEF IInv

LEMMA NextPreservesIInv == IInv /\ [Next]_vars => IInv'
<1> SUFFICES ASSUME IInv, [Next]_vars
             PROVE  IInv'
  OBVIOUS
<1>1. CASE UNCHANGED vars
  <2>1. UNCHANGED <<stored, verdict, checkedAt, samples, pending, open, now, crashes>>
    BY <1>1 DEF vars, columns
  <2>2. TypeOK' /\ OpenOfBatch' /\ TimesDiffer'
    BY <2>1 DEF IInv, TypeOK, OpenOfBatch, TimesDiffer
  <2>3. VerdictHasItsSample' /\ HoldersBounded'
    BY <2>1, TablesKept DEF Holders
  <2> QED
    BY <2>2, <2>3 DEF IInv
<1>2. CASE Next
  BY <1>2, InsertHeadersPreservesIInv, StartPreservesIInv, BeginPreservesIInv,
     CommitPreservesIInv, DiePreservesIInv DEF Next
<1> QED
  BY <1>1, <1>2

\* The invariant holds in every reachable state.
THEOREM Invariance == Spec => []IInv
<1> QED
  BY InitEstablishesIInv, NextPreservesIInv, PTL DEF Spec

\* Every variable keeps its type; a run only ever holds rows that exist.
THEOREM TypeCorrect == Spec => []TypeOK
<1>1. IInv => TypeOK
  BY DEF IInv
<1> QED
  BY <1>1, Invariance, PTL

\* The sample a verdict rests on can be found by height and shares_checked_at, also under
\* overlap and where two rows are of one block.
THEOREM VerdictsHaveTheirSamples == Spec => []VerdictHasItsSample
<1>1. IInv => VerdictHasItsSample
  BY DEF IInv
<1> QED
  BY <1>1, Invariance, PTL

\* A row that has no verdict has no sample, and another has one at most for every run that
\* no longer holds it.
LEMMA SamplesWithinOverlap == IInv => SamplesBoundedByOverlap
<1> SUFFICES ASSUME IInv, NEW r \in Row
             PROVE  Cardinality(SamplesOf(r)) <= Cardinality(Worker)
  BY DEF SamplesBoundedByOverlap
<1>1. Cardinality(SamplesOf(r)) \in Nat /\ Cardinality({}) = 0
  BY FS_CardinalityType, FS_EmptySet DEF IInv, HoldersBounded
<1> QED
  BY <1>1, HoldersFinite DEF IInv, HoldersBounded

\* No row has more samples than there are runs that can overlap.
THEOREM SamplesAreBounded == Spec => []SamplesBoundedByOverlap
<1> QED
  BY SamplesWithinOverlap, Invariance, PTL

-----------------------------------------------------------------------------
(* What is left of "single-shot" when runs overlap.                        *)

Final(r) ==
    Done(r) => /\ Done(r)' /\ verdict'[r] = verdict[r]
               /\ checkedAt'[r] = checkedAt[r] /\ SamplesOf(r)' = SamplesOf(r)

\* A row that is done is in nobody's batch, gets into none and is written by none.
LEMMA DoneStaysDone ==
    ASSUME IInv, Next, NEW r \in Row
    PROVE  Final(r)
<1> SUFFICES ASSUME Done(r)
             PROVE  /\ Done(r)' /\ verdict'[r] = verdict[r]
                    /\ checkedAt'[r] = checkedAt[r] /\ SamplesOf(r)' = SamplesOf(r)
  BY DEF Final
<1>1. verdict[r] # Null /\ \A w \in Worker : r \notin pending[w]
  BY DEF Done
<1>2. ASSUME UNCHANGED <<verdict, checkedAt, samples>>, \A w \in Worker : r \notin pending'[w]
      PROVE  /\ Done(r)' /\ verdict'[r] = verdict[r]
             /\ checkedAt'[r] = checkedAt[r] /\ SamplesOf(r)' = SamplesOf(r)
  BY <1>1, <1>2 DEF Done, SamplesOf
<1>3. ASSUME NEW new, InsertHeaders(new) PROVE Final(r)
  BY <1>1, <1>2, <1>3 DEF InsertHeaders, columns, Final
<1>4. ASSUME NEW w \in Worker, Start(w) PROVE Final(r)
  <2>1. PICK b \in Batches : pending' = [pending EXCEPT ![w] = b]
    BY <1>4 DEF Start
  <2>2. r \notin b
    BY <1>1 DEF Batches, Selectable
  <2>3. \A v \in Worker : r \notin pending'[v]
    BY <1>1, <2>1, <2>2 DEF IInv, TypeOK
  <2> QED
    BY <1>2, <1>4, <2>3 DEF Start, columns, Final
<1>5. ASSUME NEW w \in Worker, Begin(w) PROVE Final(r)
  BY <1>1, <1>2, <1>5 DEF Begin, columns, Final
<1>6. ASSUME NEW w \in Worker, Commit(w) PROVE Final(r)
  <2>1. PICK t \in open[w] :
          /\ t.row \in pending[w]
          /\ pending' = [pending EXCEPT ![w] = @ \ {t.row}]
          /\ \A q \in Row \ {t.row} : /\ verdict'[q] = verdict[q] /\ checkedAt'[q] = checkedAt[q]
                                      /\ SamplesOf(q)' = SamplesOf(q)
    BY <1>6, CommitFacts
  <2>2. r # t.row
    BY <1>1, <2>1
  <2>3. \A v \in Worker : r \notin pending'[v]
    BY <1>1, <2>1 DEF IInv, TypeOK
  <2> QED
    BY <1>1, <2>1, <2>2, <2>3 DEF Final, Done
<1>7. ASSUME NEW w \in Worker, Die(w) PROVE Final(r)
  <2>1. \A v \in Worker : r \notin pending'[v]
    BY <1>1, <1>7 DEF Die, IInv, TypeOK
  <2> QED
    BY <1>2, <1>7, <2>1 DEF Die, columns, Final
<1>8. Final(r)
  BY <1>3, <1>4, <1>5, <1>6, <1>7 DEF Next
<1> QED
  BY <1>8 DEF Final

\* A row that has its verdict and is in no run's batch is never sampled or written again,
\* however many runs overlap or die: what the docstring calls single-shot.
THEOREM DoneRowsAreFinal == Spec => DoneIsFinal
<1>1. IInv /\ [Next]_vars => [\A r \in Row : Done(r) =>
        /\ Done(r)' /\ verdict'[r] = verdict[r]
        /\ checkedAt'[r] = checkedAt[r] /\ SamplesOf(r)' = SamplesOf(r)]_vars
  <2> SUFFICES ASSUME IInv, Next, NEW r \in Row, Done(r)
               PROVE  /\ Done(r)' /\ verdict'[r] = verdict[r]
                      /\ checkedAt'[r] = checkedAt[r] /\ SamplesOf(r)' = SamplesOf(r)
    OBVIOUS
  <2> QED
    BY DoneStaysDone DEF Final
<1> QED
  BY <1>1, Invariance, PTL DEF Spec, DoneIsFinal

-----------------------------------------------------------------------------
(* The job implements the safety part of Settlement.                       *)

LEMMA InitRefines == Init => Abstract!Init
  BY DEF Init, Abstract!Init

\* A commit settles a row that was not settled and changes nothing otherwise.
LEMMA NextRefines == IInv /\ [Next]_vars => [Abstract!Next]_(Abstract!vars)
<1> SUFFICES ASSUME IInv, [Next]_vars
             PROVE  Abstract!Next \/ UNCHANGED Abstract!vars
  OBVIOUS
<1> USE DEF Abstract!vars, columns
<1>1. CASE UNCHANGED vars
  BY <1>1 DEF vars
<1>2. ASSUME NEW new \in SUBSET Row, InsertHeaders(new)
      PROVE  Abstract!Next
  BY <1>2 DEF InsertHeaders, Abstract!Next, Abstract!Appear
<1>3. ASSUME NEW w \in Worker, Start(w) \/ Begin(w) \/ Die(w)
      PROVE  UNCHANGED Abstract!vars
  BY <1>3 DEF Start, Begin, Die
<1>4. ASSUME NEW w \in Worker, Commit(w)
      PROVE  Abstract!Next \/ UNCHANGED Abstract!vars
  <2>1. PICK t \in open[w] :
          /\ t.row \in Row /\ t.row \in stored /\ t.available # Null
          /\ samples' = samples \union {t}
          /\ \A r \in Row \ {t.row} : verdict'[r] = verdict[r]
          /\ verdict'[t.row] = t.available
          /\ stored' = stored
    BY <1>4, CommitFacts
  <2>2. /\ {s.row : s \in samples'} = {s.row : s \in samples} \union {t.row}
        /\ {r \in Row : verdict'[r] # Null} = {r \in Row : verdict[r] # Null} \union {t.row}
    BY <2>1
  <2>3. CASE verdict[t.row] = Null
    BY <2>1, <2>2, <2>3 DEF Abstract!Next, Abstract!Settle
  <2>4. CASE verdict[t.row] # Null
    <3>1. Abstract!Sample(t.row)
      BY <2>1, <2>2, <2>4 DEF Abstract!Sample
    <3> QED
      BY <2>1, <3>1 DEF Abstract!Next
  <2> QED
    BY <2>3, <2>4
<1> QED
  BY <1>1, <1>2, <1>3, <1>4 DEF Next

\* A row is settled once and for all, and only when it has a sample.
THEOREM ImplementsSettlement == Spec => Abstract!Safety
<1> QED
  BY InitRefines, NextRefines, Invariance, PTL DEF Spec, Abstract!Safety

=============================================================================
