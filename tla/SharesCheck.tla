----------------------------- MODULE SharesCheck -----------------------------
(***************************************************************************)
(* workers/celestia/shares_check.py: the cron job that asks the Celestia   *)
(* light node once for every header row whether the block's shares are     *)
(* available, and records the answer for good: a request that fails for    *)
(* whatever reason is recorded as "unavailable".                           *)
(*                                                                         *)
(* As in AvailabilityCheck, Worker is the set of runs that can be in       *)
(* progress together and a run works through a batch it read earlier.      *)
(* Here the sample and the header update are one transaction.  Both carry  *)
(* NOW(), the time at which it began: of two that overlap, the one that    *)
(* began first may be the last to write the row.                           *)
(***************************************************************************)
EXTENDS Integers, FiniteSets

CONSTANTS
    Worker,               \* runs of the job that can overlap
    Row,                  \* rows of headers with da_layer = 'celestia'
    HeightOf,             \* [Row -> Nat], column height
    MAX_BLOCKS_PER_RUN,
    MaxCrash              \* bound: runs that die before they finish

ASSUME HeightAssumption == HeightOf \in [Row -> Nat]
ASSUME WorkerAssumption == IsFiniteSet(Worker)
ASSUME BoundsAssumption == MAX_BLOCKS_PER_RUN \in Nat /\ MaxCrash \in Nat

VARIABLES
    stored,     \* the rows the header worker has inserted
    verdict,    \* shares_available; availability_settled_at is set with it
    checkedAt,  \* shares_checked_at, 0 for NULL
    samples,    \* block_availability_samples; of the row only the height is in the table
    pending,    \* per run: rows of its batch still to be checked
    open,       \* per run: what its transaction in progress inserts
    now,        \* when the last transaction began: no two have the same time
    crashes     \* runs that died so far

columns == <<verdict, checkedAt>>
vars == <<stored, columns, samples, pending, open, now, crashes>>

Null == "null"
Answer == {"available", "unavailable"}

Idle(w) == pending[w] = {}

\* Mutation: The WHERE clause without `shares_available IS NULL`.
SelectableAny(r) == r \in stored

Selectable(r) == r \in stored /\ verdict[r] = Null

\* ORDER BY height LIMIT MAX_BLOCKS_PER_RUN
Batches ==
    LET rows == {r \in Row : Selectable(r)}
    IN  {b \in SUBSET rows :
            /\ Cardinality(b) <= MAX_BLOCKS_PER_RUN
            /\ b # rows => Cardinality(b) = MAX_BLOCKS_PER_RUN
            /\ \A r \in b, s \in rows \ b : HeightOf[r] <= HeightOf[s]}

-----------------------------------------------------------------------------
Init ==
    /\ stored = {}
    /\ verdict = [r \in Row |-> Null]
    /\ checkedAt = [r \in Row |-> 0]
    /\ samples = {}
    /\ pending = [w \in Worker |-> {}]
    /\ open = [w \in Worker |-> {}]
    /\ now = 0 /\ crashes = 0

\* The header worker inserts the rows it has fetched in one transaction, their shares
\* columns NULL.
InsertHeaders(new) ==
    /\ new \in (SUBSET (Row \ stored)) \ {{}}
    /\ stored' = stored \union new
    /\ UNCHANGED <<columns, samples, pending, open, now, crashes>>

\* cron starts a run, which reads its batch; with nothing pending it returns.
Start(w) ==
    /\ Idle(w)
    /\ \E b \in Batches :
        /\ b # {}
        /\ pending' = [pending EXCEPT ![w] = b]
    /\ UNCHANGED <<stored, columns, samples, open, now, crashes>>

\* The next row of the batch: the light node answers, or the request fails, and the
\* transaction begins with the INSERT.
Begin(w) ==
    /\ open[w] = {}
    /\ now' = now + 1
    /\ \E r \in pending[w], ok \in Answer :
        /\ \A s \in pending[w] : HeightOf[r] <= HeightOf[s]
        /\ open' = [open EXCEPT ![w] = {[row |-> r, ts |-> now', available |-> ok]}]
    /\ UNCHANGED <<stored, columns, samples, pending, crashes>>

\* Mutation: A failed request sets the column back to NULL, to be retried.
VerdictAfterRetry(r, ok) == IF ok = "unavailable" THEN Null ELSE ok

\* SET shares_available = ok, whatever it was
VerdictAfter(r, ok) == ok

\* Mutation: `WHERE height = %s`: the verdict goes to all rows of the block.
UpdatedBlock(r) == {s \in stored : HeightOf[s] = HeightOf[r]}

\* WHERE ts = %s AND height = %s
Updated(r) == {r}

\* Mutation: shares_checked_at is the time of the UPDATE.
CheckTimeLate(t) == now

\* SET shares_checked_at = NOW()
CheckTime(t) == t.ts

\* The UPDATE, which waits for that of another transaction on the row, and the commit.
Commit(w) ==
    /\ \E t \in open[w] :
        /\ samples' = samples \union {t}
        /\ verdict' = [r \in Row |-> IF r \in Updated(t.row) THEN VerdictAfter(r, t.available)
                                     ELSE verdict[r]]
        /\ checkedAt' = [r \in Row |-> IF r \in Updated(t.row) THEN CheckTime(t) ELSE checkedAt[r]]
        /\ pending' = [pending EXCEPT ![w] = @ \ {t.row}]
    /\ open' = [open EXCEPT ![w] = {}]
    /\ UNCHANGED <<stored, now, crashes>>

\* The run dies: its transaction is rolled back, what it committed stays.
Die(w) ==
    /\ ~Idle(w)
    /\ crashes < MaxCrash
    /\ crashes' = crashes + 1
    /\ pending' = [pending EXCEPT ![w] = {}]
    /\ open' = [open EXCEPT ![w] = {}]
    /\ UNCHANGED <<stored, columns, samples, now>>

Next ==
    \/ \E new \in SUBSET Row : InsertHeaders(new)
    \/ \E w \in Worker : Start(w) \/ Begin(w) \/ Commit(w) \/ Die(w)

\* cron keeps starting runs, and a run goes on: every request has a timeout, and every
\* transaction ends.
Fairness ==
    /\ WF_vars(\E w \in Worker : Start(w))
    /\ \A w \in Worker : WF_vars(Begin(w) \/ Commit(w))

Spec == Init /\ [][Next]_vars /\ Fairness

-----------------------------------------------------------------------------
TypeOK ==
    /\ stored \subseteq Row
    /\ verdict \in [Row -> Answer \union {Null}]
    /\ checkedAt \in [Row -> Nat]
    /\ samples \subseteq [row : stored, ts : 1 .. now, available : Answer]
    /\ pending \in [Worker -> SUBSET stored]
    /\ open \in [Worker -> SUBSET [row : stored, ts : 1 .. now, available : Answer]]
    /\ now \in Nat /\ crashes \in 0 .. MaxCrash

(* With any number of overlapping runs and crashes.                        *)

\* The two tables can be joined by height and time, also where two runs checked a row or two
\* rows are of one block: there is one such sample, and its answer is the verdict.  (It need
\* not be the newest one of the block.)
VerdictHasItsSample ==
    \A r \in Row : verdict[r] # Null =>
        /\ \E s \in samples : s.ts = checkedAt[r]
        /\ \A s \in samples : s.ts = checkedAt[r] =>
              HeightOf[s.row] = HeightOf[r] /\ s.available = verdict[r]

SamplesOf(r) == {s \in samples : s.row = r}

\* A row is sampled at most once by each of the runs that overlap: once it has a
\* verdict only a run that read its batch before can still sample it.
SamplesBoundedByOverlap ==
    \A r \in Row : Cardinality(SamplesOf(r)) <= Cardinality(Worker)

\* The row has a verdict, and no run has it in its batch.
Done(r) == verdict[r] # Null /\ \A w \in Worker : r \notin pending[w]

\* What "single-shot" comes to when runs overlap: a verdict can be turned round as long as
\* some run that read its batch before still has the row, and is final from then on.  No run
\* takes the row up again, and none writes it that checks another row of the block.
DoneIsFinal ==
    [][\A r \in Row : Done(r) =>
        /\ Done(r)' /\ verdict'[r] = verdict[r]
        /\ checkedAt'[r] = checkedAt[r] /\ SamplesOf(r)' = SamplesOf(r)]_vars

(* The job implements Settlement; every row gets its verdict in the end.   *)
Abstract == INSTANCE Settlement WITH
    sampled <- {s.row : s \in samples},
    settled <- {r \in Row : verdict[r] # Null}

RefinesSettlement == Abstract!Spec

=============================================================================
