----------------------------- MODULE AvailHeader -----------------------------
(***************************************************************************)
(* workers/avail/header.py: the cron job that copies the headers of new    *)
(* Avail blocks from the light client into table headers and their blob    *)
(* aggregates into avail_block_blobs.                                      *)
(*                                                                         *)
(* Unlike its Celestia counterpart (CelestiaHeader) a run inserts block by *)
(* block and goes on after a request that failed: a block answered with    *)
(* 404 is skipped, and other failures only end the run when there are      *)
(* MAX_FAILURES of them without a success in between.  The next run starts *)
(* above the highest stored height, so what was skipped is never fetched   *)
(* again.  Worker is the set of runs that can be in progress together.     *)
(***************************************************************************)
EXTENDS Integers, FiniteSets

CONSTANTS
    Worker,               \* runs of the job that can overlap
    MaxHeight,            \* bound: the chain is followed up to this height
    Missing,              \* heights the light client never has a header for
    MAX_BLOCKS_PER_RUN,
    BOOTSTRAP,            \* how far below the head the first run starts (50)
    MAX_FAILURES,         \* consecutive failures that end a run (3)
    MaxCrash              \* bound: runs that die before they finish

Height == 1 .. MaxHeight

ASSUME WorkerAssumption == IsFiniteSet(Worker) /\ Worker # {}
ASSUME BoundsAssumption == MaxHeight \in Nat \ {0} /\ MaxCrash \in Nat
ASSUME LimitsAssumption ==
    /\ MAX_BLOCKS_PER_RUN \in Nat \ {0}
    /\ BOOTSTRAP \in Nat
    /\ MAX_FAILURES \in Nat \ {0}
ASSUME MissingAssumption == Missing \subseteq Height

VARIABLES
    available,  \* the light client's range of blocks; last = 0: none yet
    rows,       \* how many rows of headers each height has
    blobs,      \* heights with a row in avail_block_blobs
    excused,    \* history: heights answered with 404 or below a run's start
    missed,     \* history: heights whose aggregate failed, or was left to a run that died
    pc,         \* per run: what it does next
    range,      \* per run: the available range it was told
    next,       \* per run: the height it is at
    end,        \* per run: the last height it will ask for
    fails,      \* per run: consecutive_failures
    crashes     \* runs that died so far

local == <<pc, range, next, end, fails>>
vars == <<available, rows, blobs, excused, missed, pc, range, next, end, fails, crashes>>

Ranges == [first : 0 .. MaxHeight, last : 0 .. MaxHeight]
NoRange == [first |-> 0, last |-> 0]

stored == {h \in Height : rows[h] > 0}

Larger(a, b) == IF a > b THEN a ELSE b
Smaller(a, b) == IF a < b THEN a ELSE b

\* SELECT COALESCE(MAX(height), 0)
IsLastHeight(last) ==
    IF stored = {} THEN last = 0
    ELSE last \in stored /\ \A h \in stored : h <= last

\* Mutation: The last height is fetched again.
FirstHeightInclusive(last, r) ==
    IF last = 0 THEN Larger(r.last - BOOTSTRAP, r.first) ELSE Larger(last, r.first)

FirstHeight(last, r) ==
    IF last = 0 THEN Larger(r.last - BOOTSTRAP, r.first) ELSE Larger(last + 1, r.first)

FinalHeight(first, r) == Smaller(r.last, first + MAX_BLOCKS_PER_RUN - 1)

-----------------------------------------------------------------------------
Init ==
    /\ available = NoRange
    /\ rows = [h \in Height |-> 0]
    /\ blobs = {}
    /\ excused = {}
    /\ missed = {}
    /\ pc = [w \in Worker |-> "idle"]
    /\ range = [w \in Worker |-> NoRange]
    /\ next = [w \in Worker |-> 0]
    /\ end = [w \in Worker |-> 0]
    /\ fails = [w \in Worker |-> 0]
    /\ crashes = 0

\* The light client syncs further blocks and may drop old ones.
NewBlocks ==
    /\ available' \in {r \in Ranges :
            /\ r.last > available.last /\ r.first <= r.last
            /\ r.first >= Larger(available.first, 1)}
    /\ UNCHANGED <<rows, blobs, excused, missed, local, crashes>>

\* cron starts a run and /v2/status answers with a range.  When it fails or has
\* no range the run returns and has changed nothing.
Status(w) ==
    /\ pc[w] = "idle"
    /\ available.last # 0
    /\ pc' = [pc EXCEPT ![w] = "read"]
    /\ range' = [range EXCEPT ![w] = available]
    /\ UNCHANGED <<available, rows, blobs, excused, missed, next, end, fails, crashes>>

Finish(w) ==
    /\ pc' = [pc EXCEPT ![w] = "idle"]
    /\ range' = [range EXCEPT ![w] = NoRange]
    /\ next' = [next EXCEPT ![w] = 0]
    /\ end' = [end EXCEPT ![w] = 0]
    /\ fails' = [fails EXCEPT ![w] = 0]

\* get_last_height, and what main makes of it.
ReadLast(w) ==
    /\ pc[w] = "read"
    /\ \E last \in Height \union {0} :
        /\ IsLastHeight(last)
        /\ LET first == FirstHeight(last, range[w])
           IN  IF first > range[w].last
                 THEN Finish(w) /\ UNCHANGED excused
                 ELSE /\ pc' = [pc EXCEPT ![w] = "fetch"]
                      /\ next' = [next EXCEPT ![w] = first]
                      /\ end' = [end EXCEPT ![w] = FinalHeight(first, range[w])]
                      /\ excused' = excused \union (last + 1 .. first - 1)
                      /\ range' = [range EXCEPT ![w] = NoRange]
                      /\ UNCHANGED fails
    /\ UNCHANGED <<available, rows, blobs, missed, crashes>>

\* The loop goes on to the next height or ends.
Advance(w, failures) ==
    IF next[w] = end[w] THEN Finish(w)
    ELSE /\ pc' = [pc EXCEPT ![w] = "fetch"]
         /\ next' = [next EXCEPT ![w] = @ + 1]
         /\ fails' = [fails EXCEPT ![w] = failures]
         /\ UNCHANGED <<range, end>>

\* The header is answered and inserted; consecutive_failures is reset.
FetchOk(w) ==
    /\ pc[w] = "fetch"
    /\ next[w] \notin Missing
    /\ rows' = [rows EXCEPT ![next[w]] = @ + 1]
    /\ pc' = [pc EXCEPT ![w] = "blobs"]
    /\ fails' = [fails EXCEPT ![w] = 0]
    /\ UNCHANGED <<available, blobs, excused, missed, range, next, end, crashes>>

\* Mutation: 404 ends the run, as a failed request does in celestia/header.py.
NotFoundBreaks(w) ==
    /\ pc[w] = "fetch"
    /\ excused' = excused \union {next[w]}
    /\ Finish(w)
    /\ UNCHANGED <<available, rows, blobs, missed, crashes>>

\* 404: skip the block.
NotFound(w) ==
    /\ pc[w] = "fetch"
    /\ excused' = excused \union {next[w]}
    /\ Advance(w, fails[w])
    /\ UNCHANGED <<available, rows, blobs, missed, crashes>>

\* Mutation: `consecutive_failures > 3`
GivesUpLate(failures) == failures > MAX_FAILURES

GivesUp(failures) == failures >= MAX_FAILURES

\* Any other failure: count it, and end the run or go on to the next block.
Fail(w) ==
    /\ pc[w] = "fetch"
    /\ IF GivesUp(fails[w] + 1) THEN Finish(w) ELSE Advance(w, fails[w] + 1)
    /\ UNCHANGED <<available, rows, blobs, excused, missed, crashes>>

\* Mutation: the aggregate is stored under the height that comes next.
CollectedOffByOne(h) == {{}, {h + 1} \intersect Height}

\* _upsert_block_blobs: an error, or a header without a time, leaves no row.
Collected(h) == {{}, {h}}

CollectBlobs(w) ==
    /\ pc[w] = "blobs"
    /\ \E new \in Collected(next[w]) :
        /\ blobs' = blobs \union new
        /\ missed' = IF new = {} THEN missed \union {next[w]} ELSE missed
    /\ Advance(w, fails[w])
    /\ UNCHANGED <<available, rows, excused, crashes>>

\* The run dies; what it committed stays.
Die(w) ==
    /\ pc[w] # "idle"
    /\ crashes < MaxCrash
    /\ crashes' = crashes + 1
    /\ missed' = IF pc[w] = "blobs" THEN missed \union {next[w]} ELSE missed
    /\ Finish(w)
    /\ UNCHANGED <<available, rows, blobs, excused>>

Next ==
    \/ NewBlocks
    \/ \E w \in Worker :
        \/ Status(w) \/ ReadLast(w) \/ FetchOk(w) \/ NotFound(w) \/ Fail(w)
        \/ CollectBlobs(w) \/ Die(w)

\* cron keeps starting runs, and a run goes on.  Requests may fail any number of times,
\* but a run that asks again and again for blocks the light client has is in the end
\* served one, and told of the others, when it keeps asking for them, that there are none.
Fairness ==
    \A w \in Worker : /\ WF_vars(Status(w))
                      /\ WF_vars(ReadLast(w))
                      /\ WF_vars(FetchOk(w) \/ NotFound(w) \/ Fail(w))
                      /\ SF_vars(FetchOk(w)) /\ SF_vars(NotFound(w))
                      /\ WF_vars(CollectBlobs(w))

Spec == Init /\ [][Next]_vars /\ Fairness

-----------------------------------------------------------------------------
TypeOK ==
    /\ available \in Ranges
    /\ rows \in [Height -> Nat]
    /\ blobs \subseteq Height
    /\ excused \subseteq Height
    /\ missed \subseteq Height
    /\ pc \in [Worker -> {"idle", "read", "fetch", "blobs"}]
    /\ range \in [Worker -> Ranges]
    /\ next \in [Worker -> 0 .. MaxHeight]
    /\ end \in [Worker -> 0 .. MaxHeight]
    /\ fails \in [Worker -> 0 .. MAX_FAILURES - 1]
    /\ crashes \in 0 .. MaxCrash

\* What can be lost is limited: between two stored heights fewer than
\* MAX_FAILURES heights are missing that were neither answered with 404 nor
\* below the start of a run.
ShortGaps ==
    \A b \in stored : \A a \in 1 .. b - 1 :
        (a .. b - 1) \intersect stored = {}
            => Cardinality((a .. b - 1) \ excused) < MAX_FAILURES

\* The blob table never has a block the header table does not have: the header
\* is committed before its aggregate.
BlobsOfStoredBlocks == blobs \subseteq stored

\* A stored block has its aggregate unless there is a reason: the parsing or the upsert
\* failed, or the run died between its two transactions, or is still between them.
AggregatesAccountedFor ==
    \A h \in stored \ (blobs \union missed) :
        \E w \in Worker : pc[w] = "blobs" /\ next[w] = h

\* Overlap duplicates a block at most once per overlapping run.
DuplicatesBounded == \A h \in Height : rows[h] <= Cardinality(Worker)

\* The heights the next run will ask for, as the table and the light client stand.
NextBatch ==
    LET last == CHOOSE h \in Height \union {0} : IsLastHeight(h)
        first == FirstHeight(last, available)
    IN  first .. FinalHeight(first, available)

\* Every one of them will be answered with 404, and the run after it asks for the same.
HeldUp == NextBatch # {} /\ NextBatch \subseteq Missing

\* When the light client comes to rest at a block it has, the table reaches that block,
\* over missing blocks too.  Only a whole batch of missing blocks can keep it from there,
\* and such a batch keeps it for ever.
CatchesUp ==
    \A h \in Height \ Missing :
        <>[](available.last = h) => <>[](HeldUp \/ \E g \in stored : g >= h)

=============================================================================
