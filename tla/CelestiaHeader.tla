--------------------------- MODULE CelestiaHeader ---------------------------
(***************************************************************************)
(* workers/celestia/header.py: the cron job that copies the headers of new *)
(* Celestia blocks from the light node into table headers, and then, block *)
(* by block, the blob aggregate of the block into celestia_block_blobs.    *)
(*                                                                         *)
(* A run asks the node for its local head, asks the database for the last  *)
(* height it has, fetches the headers between the two up to the first      *)
(* request that fails, inserts what it has in one transaction, and         *)
(* collects the blobs of these blocks one transaction at a time.  Worker   *)
(* is the set of runs that can be in progress together.                    *)
(***************************************************************************)
EXTENDS Integers, FiniteSets

CONSTANTS
    Worker,               \* runs of the job that can overlap
    MaxHeight,            \* bound: the chain is followed up to this height
    InitialHeights,       \* heights in the table when the model starts
    EmptyBlock,           \* heights of blocks whose square has no rows
    MAX_BLOCKS_PER_RUN,
    BOOTSTRAP,            \* how far below the head the first run starts (50)
    MaxCrash              \* bound: runs that die before they finish

Height == 1 .. MaxHeight

ASSUME WorkerAssumption == IsFiniteSet(Worker) /\ Worker # {}
ASSUME BoundsAssumption ==
    /\ MaxHeight \in Nat \ {0}
    /\ MaxCrash \in Nat
ASSUME LimitsAssumption ==
    /\ MAX_BLOCKS_PER_RUN \in Nat \ {0}
    /\ BOOTSTRAP \in Nat
ASSUME HeightsAssumption ==
    /\ InitialHeights \subseteq Height
    /\ \A l, h \in InitialHeights : l .. h \subseteq InitialHeights
    /\ EmptyBlock \subseteq Height

VARIABLES
    head,      \* the local head of the light node
    rows,      \* how many rows of headers each height has
    blobs,     \* heights with a row in celestia_block_blobs
    pc,        \* per run: what it does next
    lh,        \* per run: the local head it was told
    start,     \* per run: the first height it still has to deal with
    end,       \* per run: the last one
    missed,    \* history: heights whose aggregate failed, or was left to a run that died
    crashes    \* runs that died so far

local == <<pc, lh, start, end>>
vars == <<head, rows, blobs, pc, lh, start, end, missed, crashes>>

stored == {h \in Height : rows[h] > 0}

\* SELECT COALESCE(MAX(height), 0)
IsLastHeight(last) ==
    IF stored = {} THEN last = 0
    ELSE last \in stored /\ \A h \in stored : h <= last

\* max(local_head - 50, 1)
BootstrapStart(local_head) ==
    IF local_head - BOOTSTRAP > 1 THEN local_head - BOOTSTRAP ELSE 1

\* Mutation: Catching up always starts near the head, as bootstrapping does.
FirstHeightNearHead(last, local_head) ==
    IF last = 0 \/ BootstrapStart(local_head) > last + 1
      THEN BootstrapStart(local_head) ELSE last + 1

\* Mutation: The last height is fetched again.
FirstHeightInclusive(last, local_head) ==
    IF last = 0 THEN BootstrapStart(local_head) ELSE last

FirstHeight(last, local_head) ==
    IF last = 0 THEN BootstrapStart(local_head) ELSE last + 1

\* min(local_head, start + MAX_BLOCKS_PER_RUN - 1)
FinalHeight(first, local_head) ==
    IF local_head < first + MAX_BLOCKS_PER_RUN - 1
      THEN local_head ELSE first + MAX_BLOCKS_PER_RUN - 1

-----------------------------------------------------------------------------
Init ==
    /\ head \in {h \in Height : \A g \in InitialHeights : g <= h}
    /\ rows = [h \in Height |-> IF h \in InitialHeights THEN 1 ELSE 0]
    /\ blobs = {}
    /\ pc = [w \in Worker |-> "idle"]
    /\ lh = [w \in Worker |-> 0]
    /\ start = [w \in Worker |-> 0]
    /\ end = [w \in Worker |-> 0]
    /\ missed = {}
    /\ crashes = 0

\* The light node syncs blocks, possibly several between two runs.
NewHead ==
    /\ head' \in head + 1 .. MaxHeight
    /\ UNCHANGED <<rows, blobs, local, missed, crashes>>

\* cron starts a run and header.LocalHead answers.  When it does not, the run
\* returns 1 and has changed nothing.
ReadHead(w) ==
    /\ pc[w] = "idle"
    /\ pc' = [pc EXCEPT ![w] = "read"]
    /\ lh' = [lh EXCEPT ![w] = head]
    /\ UNCHANGED <<head, rows, blobs, start, end, missed, crashes>>

Finish(w) ==
    /\ pc' = [pc EXCEPT ![w] = "idle"]
    /\ lh' = [lh EXCEPT ![w] = 0]
    /\ start' = [start EXCEPT ![w] = 0]
    /\ end' = [end EXCEPT ![w] = 0]

\* get_last_height, and what main makes of it.
ReadLast(w) ==
    /\ pc[w] = "read"
    /\ \E last \in Height \union {0} :
        /\ IsLastHeight(last)
        /\ LET first == FirstHeight(last, lh[w])
           IN  IF first > lh[w] THEN Finish(w)
               ELSE /\ pc' = [pc EXCEPT ![w] = "fetch"]
                    /\ start' = [start EXCEPT ![w] = first]
                    /\ end' = [end EXCEPT ![w] = FinalHeight(first, lh[w])]
                    /\ UNCHANGED lh
    /\ UNCHANGED <<head, rows, blobs, missed, crashes>>

\* Mutation: failed requests are passed over, as in avail/header.py.
FetchedWithHoles(first, last) == {first, last}

\* The heights fetched when the last request to succeed was for last: every
\* request before it succeeded, or fetching would have stopped there.
Fetched(first, last) == first .. last

\* fetch_and_insert: at least the first request succeeds and the fetched rows are
\* inserted in one transaction.  The requests touch nothing shared, so they are
\* one step with it.  (The ON CONFLICT clause never applies: ts, which is part
\* of the key, is the time of the transaction.)
Insert(w) ==
    /\ pc[w] = "fetch"
    /\ \E last \in start[w] .. end[w] :
        /\ rows' = [h \in Height |-> IF h \in Fetched(start[w], last)
                                     THEN rows[h] + 1 ELSE rows[h]]
        /\ end' = [end EXCEPT ![w] = last]
    /\ pc' = [pc EXCEPT ![w] = "blobs"]
    /\ UNCHANGED <<head, blobs, lh, start, missed, crashes>>

\* The first request fails: the run returns without a row.
FetchNothing(w) ==
    /\ pc[w] = "fetch"
    /\ Finish(w)
    /\ UNCHANGED <<head, rows, blobs, missed, crashes>>

\* Mutation: collects the aggregate under the height that comes next.
CollectedOffByOne(h) == IF h \in EmptyBlock THEN {{}} ELSE {{}, {h + 1} \intersect Height}

\* What _collect_block_blobs adds to celestia_block_blobs: nothing for a block
\* without rows (`not eds_size` returns before the branch for eds_size <= 0),
\* and either the row or, when the request or the parsing fails, nothing.
Collected(h) == IF h \in EmptyBlock THEN {{}} ELSE {{}, {h}}

\* One turn of the second phase.
Collect(w) ==
    /\ pc[w] = "blobs"
    /\ \E new \in Collected(start[w]) :
        /\ blobs' = blobs \union new
        /\ missed' = IF new = {} THEN missed \union ({start[w]} \ EmptyBlock) ELSE missed
    /\ IF start[w] = end[w] THEN Finish(w)
       ELSE /\ start' = [start EXCEPT ![w] = @ + 1]
            /\ UNCHANGED <<pc, lh, end>>
    /\ UNCHANGED <<head, rows, crashes>>

\* The run dies; what it committed stays.
Die(w) ==
    /\ pc[w] # "idle"
    /\ crashes < MaxCrash
    /\ crashes' = crashes + 1
    /\ missed' = IF pc[w] = "blobs" THEN missed \union (start[w] .. end[w]) ELSE missed
    /\ Finish(w)
    /\ UNCHANGED <<head, rows, blobs>>

Next ==
    \/ NewHead
    \/ \E w \in Worker :
        \/ ReadHead(w) \/ ReadLast(w) \/ Insert(w) \/ FetchNothing(w)
        \/ Collect(w) \/ Die(w)

\* cron keeps starting runs, and a run goes on.  The node may fail a request any
\* number of times, but a run that comes to fetch again and again is in the end
\* served its first block.
Fairness ==
    /\ \A w \in Worker : /\ WF_vars(ReadHead(w))
                         /\ WF_vars(ReadLast(w))
                         /\ WF_vars(Insert(w) \/ FetchNothing(w))
                         /\ SF_vars(Insert(w))
                         /\ WF_vars(Collect(w))

Spec == Init /\ [][Next]_vars /\ Fairness

-----------------------------------------------------------------------------
TypeOK ==
    /\ head \in Height
    /\ rows \in [Height -> Nat]
    /\ blobs \subseteq Height
    /\ pc \in [Worker -> {"idle", "read", "fetch", "blobs"}]
    /\ lh \in [Worker -> 0 .. head]
    /\ start \in [Worker -> 0 .. head]
    /\ end \in [Worker -> 0 .. head]
    /\ crashes \in 0 .. MaxCrash

\* The stored heights have no gap: a later run starts above the highest height,
\* so a gap would never be filled.
Contiguous ==
    \A l, h \in stored : l .. h \subseteq stored

\* The blob table never has a block the header table does not have: headers are
\* committed before the second phase begins, and a failed transaction ends the
\* run.
BlobsOfStoredBlocks == blobs \subseteq stored

\* The second phase comes to every block the first one has inserted: a block without an
\* aggregate is empty, or its request failed, or its run died or still has it to do.
\* (Blocks that were there before are the business of earlier runs.)
AggregatesAccountedFor ==
    \A h \in stored \ (blobs \union missed \union EmptyBlock \union InitialHeights) :
        \E w \in Worker : pc[w] = "blobs" /\ h \in start[w] .. end[w]

\* Overlap duplicates a block at most once per overlapping run.
DuplicatesBounded == \A h \in Height : rows[h] <= Cardinality(Worker)

\* Every block up to the head is stored in the end, save those below the height
\* at which the table begins; failed requests and crashes only delay it.
EveryBlockStored ==
    \A h \in Height :
        head >= h ~> (h \in stored \/ (stored # {} /\ \A l \in stored : l > h))

=============================================================================
