-------------------------- MODULE AvailabilityCheck --------------------------
(***************************************************************************)
(* workers/avail/availability_check.py: the cron job that asks the Avail   *)
(* light client, for every header row not yet settled, how confident it is *)
(* that the block is available, and settles the row when the confidence    *)
(* reaches a threshold or the attempts run out.                            *)
(*                                                                         *)
(* cron starts a run every minute and nothing keeps two runs apart, so     *)
(* Worker is the set of runs that may be in progress at the same time.  A  *)
(* run reads its batch in one transaction, then for each row of the batch  *)
(* asks the light client, inserts a sample in a second transaction and     *)
(* updates the header row in a third: between any two of them other runs   *)
(* read and write the same rows, and the run may die.  The attempt number  *)
(* and the maximum a run writes are computed from its snapshot of the row, *)
(* not from the row as it is when the run writes it.                       *)
(***************************************************************************)
EXTENDS Integers, FiniteSets

CONSTANTS
    Worker,                       \* runs of the job that can overlap
    Row,                          \* rows of headers with da_layer = 'avail'
    HeightOf,                     \* [Row -> Nat], column height
    Confidence,                   \* the confidences the light client answers, in percent
    SETTLE_CONFIDENCE_THRESHOLD,
    MAX_ATTEMPTS,
    MAX_PENDING_PER_RUN,
    MaxCrash                      \* bound: runs that die before they finish

Null == -1                        \* SQL NULL, Python None

ASSUME HeightAssumption == HeightOf \in [Row -> Nat]
ASSUME ConfidenceAssumption == Confidence \subseteq Nat
ASSUME ThresholdAssumption == SETTLE_CONFIDENCE_THRESHOLD \in Nat \ {0}
ASSUME AttemptsAssumption == MAX_ATTEMPTS \in Nat \ {0}
ASSUME BoundsAssumption == MAX_PENDING_PER_RUN \in Nat /\ MaxCrash \in Nat

VARIABLES
    stored,       \* the rows the header worker has inserted
    attempts,     \* availability_attempts, NULL read as 0
    maxConf,      \* availability_max_confidence
    settled,      \* rows with availability_settled_at not NULL
    samples,      \* contents of block_availability_samples
    sampleCount,  \* how many sample rows each header row has
    pending,      \* per run: snapshots of the batch still to be checked
    answered,     \* per run: the row whose sample is in and whose header is not updated
    shared,       \* history: rows that two runs have had in their batches at once
    crashes       \* runs that died so far

table == <<attempts, maxConf, settled>>
vars == <<stored, attempts, maxConf, settled, samples, sampleCount,
          pending, answered, shared, crashes>>

\* What r.get("confidence") yields; Null also when the request failed.
Answer == Confidence \union {Null}

Maximum == Confidence \union {0, Null}

Snapshot == [row : Row, attempts : 0 .. MAX_ATTEMPTS - 1, maxConf : Maximum]

\* A row in flight: its snapshot and the answer the light client gave.
InFlight == [row : Row, attempts : 0 .. MAX_ATTEMPTS - 1, maxConf : Maximum,
             conf : Answer]

Sample == [row : Row, attempt : 1 .. MAX_ATTEMPTS, conf : Answer]

Idle(w) == pending[w] = {} /\ answered[w] = {}

\* The row is in the batch of the run, and the run is not through with it.
Holds(w, r) == \E i \in pending[w] \union answered[w] : i.row = r

-----------------------------------------------------------------------------
(* The computations of main on one row.                                    *)

\* Mutation: `new_max = confidence or 0.0`: the best confidence so far is forgotten.
NewMaxForgetsOld(old, conf) == IF conf # Null THEN conf ELSE 0

\* new_max = max_conf or 0.0, then max(new_max, confidence) if there is one.
NewMax(old, conf) ==
    LET base == IF old = Null THEN 0 ELSE old
    IN  IF conf # Null /\ conf > base THEN conf ELSE base

\* Mutation: `attempt > MAX_ATTEMPTS`: the last attempt leaves the row unsettled.
IsSettledTooLate(attempt, conf) ==
    \/ conf # Null /\ conf >= SETTLE_CONFIDENCE_THRESHOLD
    \/ attempt > MAX_ATTEMPTS

\* Mutation: `attempt + 1 >= MAX_ATTEMPTS`: gives up one attempt too early.
IsSettledTooEarly(attempt, conf) ==
    \/ conf # Null /\ conf >= SETTLE_CONFIDENCE_THRESHOLD
    \/ attempt + 1 >= MAX_ATTEMPTS

IsSettled(attempt, conf) ==
    \/ conf # Null /\ conf >= SETTLE_CONFIDENCE_THRESHOLD
    \/ attempt >= MAX_ATTEMPTS

\* Mutation: availability_settled_at is set to NULL by a run that does not settle the row.
SettledAfterOverwrite(r, attempt, conf) ==
    IF IsSettled(attempt, conf) THEN settled \union {r} ELSE settled \ {r}

\* CASE WHEN is_settled THEN NOW() ELSE availability_settled_at END
SettledAfter(r, attempt, conf) ==
    IF IsSettled(attempt, conf) THEN settled \union {r} ELSE settled

\* Mutation: A request that failed is not counted as an attempt.
NextAttemptOnSuccess(a) == IF a.conf = Null THEN a.attempts ELSE a.attempts + 1

NextAttempt(a) == a.attempts + 1

-----------------------------------------------------------------------------
(* get_pending                                                             *)

Selectable(r) == r \in stored \ settled /\ attempts[r] < MAX_ATTEMPTS

\* ORDER BY height LIMIT MAX_PENDING_PER_RUN: rows of equal height (a block
\* recorded twice) come in any order.
Batches ==
    LET rows == {r \in Row : Selectable(r)}
    IN  {b \in SUBSET rows :
            /\ Cardinality(b) <= MAX_PENDING_PER_RUN
            /\ b # rows => Cardinality(b) = MAX_PENDING_PER_RUN
            /\ \A r \in b, s \in rows \ b : HeightOf[r] <= HeightOf[s]}

SnapshotOf(r) == [row |-> r, attempts |-> attempts[r], maxConf |-> maxConf[r]]

-----------------------------------------------------------------------------
Init ==
    /\ stored = {}
    /\ attempts = [r \in Row |-> 0]
    /\ maxConf = [r \in Row |-> Null]
    /\ settled = {}
    /\ samples = {}
    /\ sampleCount = [r \in Row |-> 0]
    /\ pending = [w \in Worker |-> {}]
    /\ answered = [w \in Worker |-> {}]
    /\ shared = {}
    /\ crashes = 0

\* The header worker inserts a row, its availability columns NULL.
InsertHeader(r) ==
    /\ r \in Row \ stored
    /\ stored' = stored \union {r}
    /\ UNCHANGED <<table, samples, sampleCount, pending, answered, shared, crashes>>

\* cron starts a run, which reads its batch.  A run that finds nothing pending
\* returns at once and changes nothing.
Start(w) ==
    /\ Idle(w)
    /\ \E b \in Batches :
        /\ b # {}
        /\ pending' = [pending EXCEPT ![w] = {SnapshotOf(r) : r \in b}]
        /\ shared' = shared \union {r \in b : \E v \in Worker \ {w} : Holds(v, r)}
    /\ UNCHANGED <<stored, table, samples, sampleCount, answered, crashes>>

\* Mutation: The sample row is only inserted when the request succeeded.
RecordedOnSuccess(s) == IF s.conf = Null THEN {} ELSE {s}

\* What the INSERT adds to block_availability_samples.
Recorded(s) == {s}

\* The next row of the batch: the light client answers (or the request fails)
\* and the sample is committed.  The request itself touches nothing shared, so
\* it is one step with the transaction that follows it.
TakeSample(w) ==
    /\ answered[w] = {}
    /\ \E i \in pending[w], conf \in Answer :
        /\ \A j \in pending[w] : HeightOf[i.row] <= HeightOf[j.row]
        /\ LET a == [row |-> i.row, attempts |-> i.attempts,
                     maxConf |-> i.maxConf, conf |-> conf]
               new == Recorded([row |-> i.row, attempt |-> i.attempts + 1,
                                conf |-> conf])
           IN  /\ pending' = [pending EXCEPT ![w] = @ \ {i}]
               /\ answered' = [answered EXCEPT ![w] = {a}]
               /\ samples' = samples \union new
               /\ sampleCount' = IF new = {} THEN sampleCount
                                 ELSE [sampleCount EXCEPT ![i.row] = @ + 1]
    /\ UNCHANGED <<stored, table, shared, crashes>>

\* The header row is updated from the snapshot and the answer.
UpdateHeader(w) ==
    /\ \E a \in answered[w] :
        LET attempt == NextAttempt(a)
        IN  /\ attempts' = [attempts EXCEPT ![a.row] = attempt]
            /\ maxConf' = [maxConf EXCEPT ![a.row] = NewMax(a.maxConf, a.conf)]
            /\ settled' = SettledAfter(a.row, attempt, a.conf)
    /\ answered' = [answered EXCEPT ![w] = {}]
    /\ UNCHANGED <<stored, samples, sampleCount, pending, shared, crashes>>

\* The run dies: killed, or a database error that cursor() raises again after
\* its rollback and main does not catch.  What it committed stays.
Die(w) ==
    /\ ~Idle(w)
    /\ crashes < MaxCrash
    /\ crashes' = crashes + 1
    /\ pending' = [pending EXCEPT ![w] = {}]
    /\ answered' = [answered EXCEPT ![w] = {}]
    /\ UNCHANGED <<stored, table, samples, sampleCount, shared>>

Next ==
    \/ \E r \in Row : InsertHeader(r)
    \/ \E w \in Worker : Start(w) \/ TakeSample(w) \/ UpdateHeader(w) \/ Die(w)

\* cron keeps starting runs, and a run goes on: every request has a timeout.
Fairness ==
    /\ WF_vars(\E w \in Worker : Start(w))
    /\ \A w \in Worker : WF_vars(TakeSample(w) \/ UpdateHeader(w))

Spec == Init /\ [][Next]_vars /\ Fairness

-----------------------------------------------------------------------------
TypeOK ==
    /\ stored \subseteq Row
    /\ attempts \in [Row -> 0 .. MAX_ATTEMPTS]
    /\ maxConf \in [Row -> Maximum]
    /\ settled \subseteq stored
    /\ samples \subseteq Sample
    /\ sampleCount \in [Row -> Nat]
    /\ pending \in [Worker -> SUBSET Snapshot]
    /\ answered \in [Worker -> SUBSET InFlight]
    /\ shared \subseteq stored
    /\ crashes \in 0 .. MaxCrash

SamplesOf(r) == {s \in samples : s.row = r}

(* Safety, with any number of overlapping runs and crashes.                *)

\* No row is stranded: get_pending skips a row whose attempts are used up, so
\* such a row must have been settled in the same update, even by a run that
\* worked from a stale snapshot.
NoStrandedRow ==
    \A r \in Row : attempts[r] = MAX_ATTEMPTS => r \in settled

\* A row is settled for a reason that is on record: a sample at or above the
\* threshold, or a last attempt.
SettledJustified ==
    \A r \in settled : \E s \in SamplesOf(r) :
        \/ s.attempt = MAX_ATTEMPTS
        \/ s.conf >= SETTLE_CONFIDENCE_THRESHOLD

\* The summary on the header row never claims more than the samples show: it
\* counts no attempt that has no sample row, and its maximum is a confidence
\* that was sampled (or 0 when none was).
SummaryBackedBySamples ==
    \A r \in Row :
        /\ attempts[r] <= sampleCount[r]
        /\ maxConf[r] \in {Null, 0} \union {s.conf : s \in SamplesOf(r)}

(* What runs that overlap can spoil: a run writes back what it read before *)
(* the other's update.  That takes two runs with the same row in their     *)
(* batches; whatever else they do, and whoever dies, a row that no two     *)
(* runs have had at once is as it should be.                               *)

\* availability_max_confidence is the best confidence reached: it never falls.
MaxNeverDecreases == [][\A r \in Row \ shared : maxConf'[r] >= maxConf[r]]_vars

\* A settled row explains itself: its own columns show the threshold reached or
\* the attempts used up.
SettledRowExplained ==
    \A r \in settled \ shared : \/ attempts[r] = MAX_ATTEMPTS
                                \/ maxConf[r] >= SETTLE_CONFIDENCE_THRESHOLD

\* Only a run that died after its sample was committed makes the job sample a
\* row more than MAX_ATTEMPTS times.
SampleBudget == \A r \in Row \ shared : sampleCount[r] <= MAX_ATTEMPTS + crashes

(* The job implements Settlement, and with it settles every row in the     *)
(* end: overlapping runs may set the attempt counter of a row back, but    *)
(* the least of the counter and the snapshots in progress never falls.     *)
Abstract == INSTANCE Settlement WITH sampled <- {s.row : s \in samples}

RefinesSettlement == Abstract!Spec

=============================================================================
