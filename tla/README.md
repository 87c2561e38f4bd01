# DABEAT light node workers: TLA+ specifications and proofs

DABEAT measures two data availability layers, Celestia and Avail, from the
outside. It runs one light node of each and, next to them, a set of small Python
jobs (`workers/`) that cron starts every minute or every five minutes. A job asks
its light node some questions, writes the answers into PostgreSQL, and exits.
There is no daemon and no lock: everything a run knows of the runs before it is
in the tables, and nothing keeps a run that takes longer than its period from
overlapping the next one. That is where the difficulty of this code is, and what
these specifications are about.

## 1. The system

| component | state it keeps | operations | talks to |
|---|---|---|---|
| `celestia/header.py` | rows of `headers`, `celestia_block_blobs` | local head, MAX(height), fetch loop, one insert per batch, blob aggregate per block | node RPC |
| `avail/header.py` | rows of `headers`, `avail_block_blobs` | status, MAX(height), per block: fetch, insert, aggregate | LC HTTP |
| `avail/availability_check.py` | `headers.availability_*`, `block_availability_samples` | select pending, per row: request, insert sample, update row | rows of avail/header |
| `celestia/shares_check.py` | `headers.shares_*`, `block_availability_samples` | select pending, per row: request, insert and update | rows of celestia/header |
| `{avail,celestia}/submit.py` | `probes` | balance, submit, balance, insert | light node |
| `{avail,celestia}/retrieve.py` | `retrievals` | per age bucket: select candidates, per probe: fetch, compare, insert | rows of submit |
| `avail/watchdog.py` | `service_events` | probe statistics, cooldown, ssh restart, wait for health, log | rows of avail/submit, the light client |
| `avail/app_id_mon.py`, `celestia/namespace_mon.py` | `namespace_observations` | watermark per id, scan, insert | light node |
| `celestia/fraud_monitor.py` | `fraud_events` | fraud.Get, one insert per proof | node RPC |
| `{avail,celestia}/health.py` | `node_health` | requests one after the other, one row per run | light node |
| `celestia/share_parser.py`, `common/rpc.py`, `common/db.py`, `common/config.py` | none | pure parsing, one request, one transaction | |
| `scripts/`, `systemd/`, `schema/`, `grafana/` | | installation, backup, backfill, tables, dashboards | |

Jobs interact through the tables alone: `header.py` feeds the check of its chain,
`submit.py` feeds `retrieve.py` and the watchdog, the watchdog restarts the light
client that `submit.py` depends on.

Each `with cursor()` block of the code (`common/db.py`) is one transaction, so it
is one atomic step here; a run is a sequence of such steps, and other runs may
take theirs between any two of them. A request is part of the step that stores
its answer, except where the code stores something computed from an earlier read
(a *snapshot*), in which case the read is an action of its own.

What is hard, and where the properties are aimed (`hazards` in `PROJECT.json` has the
lines):

* overlapping runs that write back what they computed from a stale snapshot;
* a run that dies between two transactions that belong together;
* watermarks: `MAX(height)` decides what is fetched, so whatever is passed over
  once is passed over for ever;
* retry limits, thresholds and windows whose margins are exact to the minute;
* requests that time out although the work was done: a submit that is given up may still
  be included, and paid for, minutes later;
* numbers computed from two answers, between which the node goes on: fees are the
  difference of two balances, the lag that of two heads.

## 2. Modules

| module | models | abstract specification |
|---|---|---|
| `Settlement` | the promise of both checks: a row, once stored, gets its mark exactly once and in the end | (is one) |
| `AvailabilityCheck` | `avail/availability_check.py`, with an action for the inserts of `avail/header.py` | `Settlement` |
| `SharesCheck` | `celestia/shares_check.py`, with an action for the inserts of `celestia/header.py` | `Settlement` |
| `CelestiaHeader` | `celestia/header.py` | |
| `AvailHeader` | `avail/header.py` | |
| `AvailTable` | `AvailHeader` and `AvailabilityCheck` over one table | `AvailabilityCheck`, of rows; `Settlement`, of blocks |
| `CelestiaTable` | `CelestiaHeader` and `SharesCheck` over one table | `SharesCheck`, of rows; `Settlement` (safety), of blocks |
| `Watchdog` | `avail/watchdog.py` with `avail/submit.py` and the light client | |
| `Retrieve` | `submit.py` and `retrieve.py` of both chains | |
| `Rpc` | `common/rpc.py`: how a Celestia request can end, and what the caller sees | |
| `SelfProbe` | `celestia/submit.py` and the verdict of `celestia/retrieve.py`, with chain, account and light node | |
| `ShareParser` | `celestia/share_parser.py`, and the squares it reads | the contents of a block |
| `CelestiaAggregates` | `CelestiaHeader` and `ShareParser` together | |
| `NodeHealth` | `celestia/health.py` | |
| `FraudMonitor` | `celestia/fraud_monitor.py` | |
| `NodeMonitors` | `NodeHealth` and `FraudMonitor` at the same node, which comes and goes | |
| `AppIdMonitor` | `avail/app_id_mon.py` | |
| `NamespaceMonitor` | `celestia/namespace_mon.py` | |

`MC*.tla` only give constants their values; `*Proofs.tla` hold the theorems. A
definition whose comment starts with "Mutation:" is a wrong variant of the one
below it and is used by nothing: it says which mistake a property would catch.

**AvailabilityCheck.** One row of `headers` is one element of `Row`; two rows may
be of one height, since the insert's conflict key contains the time of insertion.
`stored`, `attempts`, `maxConf` and `settled` are its columns, `samples` and
`sampleCount` its rows in `block_availability_samples`. A run (`Worker`) has
`pending`, the snapshot `get_pending` read, and `answered` between the sample's
transaction and the update's. `Start` is `get_pending`, `TakeSample` the request
and the insert, `UpdateHeader` the update. `Die` ends a run anywhere. The history variable
`shared` holds the rows that two runs have had in their batches at once: what overlap can spoil is
claimed of the others, whatever else the runs do.

**SharesCheck** is the same job without retries; sample and verdict are one transaction, which
`Begin` opens with the INSERT and `Commit` ends with the UPDATE. Both write `NOW()`, the time the
transaction began (`now`, counted), so that transactions which overlap may commit in either order.
A sample has a height, a time and an answer; its `row` is known to the model and not to the
table, and no definition that stands for a query uses it. `InsertHeaders` inserts any set of rows, since a Celestia
header run inserts all it has fetched at once; `AvailabilityCheck` has `InsertHeader`, one row.
`Appear` of `Settlement` allows for both.

**CelestiaHeader.** `ReadHead` and `ReadLast` are the two reads that fix the range
(kept apart: another run may insert between them), `Insert` the fetch loop with
its single transaction, any failed request cutting it short, `Collect` one step of
the second phase. `rows` is a bag, height to number of rows. `InitialHeights` is what the table holds at the start.

**AvailHeader.** One action per outcome of a block's request: `FetchOk`,
`NotFound` (skipped), `Fail` (skipped and counted, three in a row end the run), and
`CollectBlobs` after the header's transaction. Here and in `CelestiaHeader` the history variable
`missed` holds the blocks whose aggregate was not written for a reason outside the job: an empty
block or an error, or a run that died.

**AvailTable, CelestiaTable.** In `AvailabilityCheck` and `SharesCheck` the header job is an action that
makes rows appear. Here it is the header job itself: `AvailTable` extends `AvailHeader` and takes
the check from an instance of `AvailabilityCheck` whose `stored` is computed from `rows`, the bag of the header
job. A row is a height and a number, for the time of insertion in the key. `HeadersOnlyAppear` is what
`AvailabilityCheck` assumes of the other job, stated of that job: every step of the composition is a step
of the check's own model. It holds by how the two are put together, so it is no property of a run: it is
proved, and carries the theorems about the check over. `BlocksAreSettled` is about what a reader of the table asks for, which is blocks:
a block counts as settled when one of its rows is, and keeps that although a slower header run may
add a row that is pending again. `CelestiaTable` is the same for the other chain, without liveness.

**Watchdog.** Time is counted in minutes as the age of each event, with the tunables of
the code (15, 3, 30). What happens in a minute is unordered, so an event of age
exactly *n* may be on either side of a comparison with *n* and the queries
(`Windows`, `InCooldown`) are nondeterministic there. The light client gets stuck
whenever it likes; a restart may bring it up stuck again.

**Retrieve.** As Watchdog, in ticks. The submit run records its probe within
`SUBMIT_MAX` ticks of cron's firing or not at all; a retrieve run reads one
bucket's candidates at a time (`FindCandidates`) and spends up to `HTTP_TIMEOUT` on
each (`Retrieve`).

**SelfProbe.** A payload is the number of its run; `block[p]` is the block of its transaction
(0: none), `outOfGas` are those that failed in their block, `pruned` the blobs the network has
lost. The light node knows the charges `seen` and the top-ups `seenTop`, which `Sync` brings
up to date. `Start` is `make_payload` and the first balance, `Submit` and `Answer` the two ends of
`blob.Submit` (the chain goes on between them), `Record` the second balance and the row,
`Retrieve` one candidate of `check_block`. The responses come from `Rpc`. Every balance may be
of any age, the second one too: `submit.py:91-94` sleeps 15 s for the light node and does not look
whether it has followed. `stale` is history, the successes it had not followed by the time of their rows;
so are `measured` and `died`. A retrieval may be answered "not found" whatever the block has, since
`retrieve.py:74` looks for these words in any error, so a verdict comes with its `info`
(`details`): an empty list of blobs says something about the block, an error does not.

**ShareParser** is a module of operators: `CountBlobs` is `count_blobs`, `Extended` lays the items of a
block out as Celestia does, `Contents` counts the items. `CelestiaAggregates` puts it behind the second phase of
`CelestiaHeader`: `counts` are the columns of `celestia_block_blobs`, written by the same step.

**NodeHealth, FraudMonitor, NodeMonitors.** `Ask` is one of the two head requests, in the order of
the code, `Insert` the row computed from both answers; `behind` is history, the least the node
was behind when it was asked. In `FraudMonitor`, `Get` reads the proofs and `Insert` is the
transaction of one of them. The two jobs share nothing but the node (`node`).

**AppIdMonitor.** `observed` holds the heights an app_id has a row for (a block observed
twice has two rows, which nothing depends on). `ReadLast` reads the last heights one app_id
after the other, `Plan` fixes the range they share, `Observe` inserts one row. Two
history variables record why a block may be missing: `failed`, a request for it was not
answered; `skipped`, a scan began above it with reason (`PassedOver`).

**NamespaceMonitor.** Each namespace has a range of its own (`Select`). `Observe` is one
request and its row; failed requests leave a row too, so that unlike in `AppIdMonitor` they
are no reason for a block to be missing. `tooOld` records the heights below the clamp.

## 3. Runs

| run | question | bounds |
|---|---|---|
| `avail_check` | two overlapping runs and a crash: `NoStrandedRow`, `SettledJustified`, `SummaryBackedBySamples`, `RefinesSettlement`; and of rows that no two runs had at once `SampleBudget`, `MaxNeverDecreases` | two rows, batches of two, two attempts, confidences below and at the threshold |
| `shares_check` | two overlapping runs and a crash: `VerdictHasItsSample`, `SamplesBoundedByOverlap`, `DoneIsFinal`, `RefinesSettlement` | three rows, two of them of one block, batches of two |
| `celestia_header` | two overlapping runs, failures, a crash: `Contiguous`, `AggregatesAccountedFor`, `DuplicatesBounded`, `CountsAgree`, `EveryBlockStored` | five heights, one an empty block, batches of three; squares of side 1 and 2 (extended: 2 and 4) |
| `avail_header` | the same with 404s and a failure limit: `ShortGaps`, `AggregatesAccountedFor`, `DuplicatesBounded`, `CatchesUp` | five heights, three missing in a row, batches of three, a limit of two failures |
| `avail_table` | header job and check together: `BlocksAreSettled` | two header runs, one check run at a time, one height in up to two rows, batches of one row, two attempts, confidences below and at the threshold, a crash of either job |
| `watchdog` | `RestartJustified`, `ConfirmedRestartRests`, `StuckIsRestarted` | the real tunables; one lost run |
| `watchdog_throttled` | violated: at most one restart in `COOLDOWN_MIN` | the real tunables |
| `retrieve` | `RunsDoNotOverlap`, `OncePerBucket`, `LabelIsHonest`, `PassedOverOnlyWhenLate` | three buckets one period apart, one lost run |
| `self_probe` | `TypeOK`, `FeesWithinCharges`, `FeeExplained`, `ProbesAccountForBlobs`, `VerdictIsTrue` | two submits, four blocks, one top-up, a crash, an account that can pay for the second blob only after the top-up |
| `node_monitors` | `LagNotOverstated`, `StallIsReported`, `OutageShows`, `EveryProofRecorded` | three heights, two proofs, a crash of either job |
| `app_id` | `HolesExplained`, `CatchesUp` | two app_ids, one switched on or off, four heights, one missing, batches of two, a crash |
| `namespaces` | `GapsAreTooOld`, `CatchesUp` | two overlapping runs, two namespaces, one switched on or off, three heights, batches of two, a clamp of one block, a crash |

A property that is proved for every instance and would need a run of its own to be repeated in
is left to the proof (`BlobsOfStoredBlocks`, `SettledRowExplained`), and so is type correctness
where a run does not list it.

Why the bounds are enough. A row's columns depend on no other row, so one row
shows every interleaving of the runs that write it. Two let `shared` tell rows apart, and two runs
have batches of which some rows are in common; three, two of them of one block, show a batch that
leaves a row out, and a verdict next to a sample of another row of its height. Two overlapping runs are
the smallest number that can disagree; the safety properties that `avail_check`,
`shares_check` and the header runs check are proved for any number. The heights of the
header runs exceed a batch, so that a run ends before the head. In `avail_header` the missing blocks are
as many as a batch: a run meets them as a whole batch, or in part, behind or before
other blocks, as heads and starts fall. The run of `AvailTable` needs two header runs, for a
second row; with two checks as well it takes longer than a run here may, so overlapping checks are in
`avail_check` only, and what is safety of `BlocksAreSettled` is proved for any number of either. `CelestiaTable` has no run: it adds no action and no variable to the
two modules it joins, which both have runs, and what is said of it is proved. A fee depends on one earlier charge at
a time, so two submits show what a late one does to the next; the theorems of `SelfProbe` are
about any number. Three heights let a node be two blocks behind, which is where `is_syncing`
begins, and two proofs let a run die between them. Squares of side two have a row break, and
their four shares hold every pair of items that can follow each other. In `Retrieve`, the instance keeps the
relations the nine buckets of the code have among each other: the requests of a
run just fit in a period (9 x 30 s < 300 s there, 3 x 3 < 10 ticks here), a run
that waits out every timeout reads its last bucket later than the tolerance (240 s
> 90 s; 6 > 4), which is late enough that it and the next run can both see one probe
(300 s - 240 s <= 90 s; 10 - 6 <= 4).

Deadlock is not checked in the runs of the two checks alone: their inputs are finite
and the system stops when all rows are done. Nor in those of the two monitors: with
nothing active no run does anything.

### Fairness

Cron starts a run every minute whatever became of the last one, every request has a
timeout (20 s, 30 s, 60 s) and every transaction ends, so a run that has not died
takes its next step: weak fairness of each run's steps. Strong fairness is
assumed of two things, both of the world and not of the code: a light node that is
asked for the same thing again and again answers some time (a block: `CelestiaHeader`,
`AvailHeader`, `AppIdMonitor`; for `AvailHeader` also that there is none, of a block that is missing; its head: `NamespaceMonitor`; both heads of one run, and the fraud
proofs, for as long as it is up time and again: `NodeMonitors`), and ssh does not fail each
time for ever (`Watchdog`). Crashes and lost runs are bounded by `MaxCrash` and `MaxLost` instead. Of a node that stays away
for good only `OutageShows` says anything. `AvailTable` has the fairness of the two jobs
it puts together. `SelfProbe` and `CelestiaTable` are about safety only and have no fairness.

The liveness of the availability check is less obvious than it looks: the update
writes `attempt` from a snapshot, so an overlapping run can set the counter *back*.
It settles all the same because the smallest value among the counter and the
snapshots in progress never falls and has to rise; `RefinesSettlement` checks it (`Settles` in `Settlement`).

## 4. What the violated run shows, and observations

`watchdog_throttled`: only `avail_lc_restart` counts for the cooldown. A restart after
which the client is not healthy within a minute, or whose ssh call fails or
times out, is repeated five minutes later, and again.

Observations that have no run of their own:

* `availability_max_confidence` is computed from the snapshot and written over whatever is
  there, so of two runs with one row the best confidence reached can be lost, which
  `README.md:345` says the column is. Of a row no two runs had at once it cannot (`MaxNeverDecreases`).
* In `avail/header.py`, a block whose request failed and above which another was stored is below
  the next run's start and never asked for again. `ShortGaps` bounds such gaps.
* Under overlap a row can get more than three samples (`README.md:374` says one to
  three) and a checked row of shares can be checked again (`shares_check.py:5` says
  single-shot). `SampleBudget` and `DoneIsFinal` say what is true of them.
* Of the samples of a Celestia block the newest need not be the verdict: the times are those the
  transactions began at, the verdict is that of the last to write, and another row of the block may
  have been sampled since. Height and `shares_checked_at` lead to the right one (`VerdictHasItsSample`).
* `ON CONFLICT (da_layer, height, ts)` never applies, since `ts` is the time of the
  insert: overlapping header runs store a block twice. `DuplicatesBounded` bounds it.
* `celestia/header.py:79-82` is dead: `not eds_size` returned before, so an empty
  block gets no row of zeros.
* Two first runs of `celestia/header.py` that both find the table empty, at different heads,
  can leave a gap that is never filled (185). `Contiguous` is about tables that have rows.
* `app_id_mon.py:59` calls the range it scans the union of all app_ids' progress. An app_id
  without rows moves the start of the scan to 30 blocks below the head for all of them: if
  the job was behind, the others lose the blocks between. A block whose request fails is
  lost as in `avail/header.py`. `HolesExplained` says that there are no other losses.
* A submit that timed out and is included later charges its blob to the difference of whichever
  run measures next: `fee_paid` of a probe after a failure may be that of two blobs, or more. A light
  node that has not followed after 15 s makes the fee of a success zero, or too small, and
  that of a later run too large. And a top-up between the two balances makes a fee too small, or
  negative. `FeeExplained` says that there is no fourth reason, `FeesWithinCharges` that no charge is counted twice. If two submit
  runs overlapped each would count the other's fee; their timeouts exclude it.
* `submit.py:77` looks for the word "insufficient" anywhere in an error; a node that says
  "insufficient fee", which is about the gas price, is recorded as an account without funds.
* `retrieve.py:74` takes any error with "not found" in it for a blob that is not found, where
  `retrieve.py:11` says that the block has no matching one: a header the node does not have, or
  data it has lost, count as lost blobs. Only the rows with "empty blob list" in `details` are proof
  (`VerdictIsTrue`).
* `fraud_monitor.py:29` takes errors that mention "datastore" or "not found" for "no fraud proofs"; a
  node without the method says so too. Only `node_health` tells that silence from good news.
* A stored fraud proof is returned, and inserted, by every run; `EveryProofRecorded` is about
  the first row.
* `sync_lag` can be smaller than any lag the node ever had, even negative, when it syncs between the two
  requests; it is never larger (`LagNotOverstated`).
* `README.md:520` advises consumers to page by `collected_at`. That is the start of the transaction, so
  rows can become visible after a consumer has read past their time.
* `avail/header.py:89` skips a missing block within a run only: where the next batch has nothing but
  404s, every run asks for the same blocks again and the table stays where it is, however far the light client
  goes. `CatchesUp` says that nothing less keeps it. `app_id_mon.py:80` has the same loop; there
  the run has one missing block, which is less than a batch, and its `CatchesUp` says nothing of a stretch.
* `README.md:610` and `:612` list the submit jobs of both chains as every minute;
  `install_cron.sh:28` and `:31` install `*/5`, which is the period taken here. With a period of one minute the
  margins of `Retrieve` (`MarginAssumption`) fail, and submit runs can overlap. `docs/DATA-CATALOG`
  line 271 counts 9 to 30 candidates in a retrieve run, which does not fit `*/5` either: there are nine at most.
* `avail/submit.py:43` asks for the balance without a timeout. `Watchdog` and `Retrieve` take a submit
  run to be over within its limit or lost (`WithinLimits`): one that hangs there is a lost one, and where it
  ends after all, later than the limit, they say nothing.

## 5. Proofs

All proofs are of the safety part `Init /\ [][Next]_vars`, for every value of the
constants that satisfies the named assumptions (numbers are naturals, limits are
positive, `HeightOf` maps rows to heights): any number of runs, rows, heights and
crashes.

* `AvailabilityCheckProofs`: type correctness; `NoStrandedRow`, `SettledJustified`,
  `SummaryBackedBySamples`; each step of the job is a step of `Settlement` or a
  stutter. A snapshot may be stale, so the invariant speaks about snapshots too:
  what a snapshot claims is backed by samples, as the row is, and a run between
  its two transactions has its sample on record. Of a row that no two runs have had at once a
  snapshot *is* the row until it is written back (`UnsharedInv`), whatever overlaps elsewhere. From that:
  the budget of samples, the monotonic maximum, and that a settled row explains itself.
* `SharesCheckProofs`: every verdict has its sample, which rests on no two transactions beginning at
  one time (`TimesDiffer`: of those committed and those open); the number of a row's samples is bounded by
  the runs that had the row in their batch when it was first checked; a verdict is final once no run
  has the row; refinement of `Settlement`.
* `CelestiaHeaderProofs`: contiguity holds because a batch starts at most one above some
  height that is stored and rows are never removed; `Contiguous` alone is not inductive
  since the start is an old read. Also `AggregatesAccountedFor`, `BlobsOfStoredBlocks`,
  `DuplicatesBounded`; for the aggregates, that a run keeps the range it has inserted until it
  has been through it.

  The last part is about `count_blobs`. `CountBlobsIsExact` says that it gets every block right
  that fits into its square: any side, any number of items, blobs of any length, in any
  namespaces that are not reserved. (The run has blocks of two sides, with blobs of one
  share or two.) `CountsAgree`, that the rows in the table have the counts of their blocks,
  follows because only `CollectCounts` writes them, under the height it has fetched (`CountsAreRight`).
  `CountBlobsIsExact` is by induction over the items: the shares of each lie
  behind those of the one before, so the first shares are as many as the items; the rows and columns
  of the original square are the digits of a share's index, so no two shares have one place in the
  extended square and `Positions` are those of all of them. The library's induction theorems take the
  claim as an operator, which the provers cannot instantiate; `LeastNumber`, which follows from the
  theorem on minimal elements, takes a set, and `Induction` is derived from it.
* `AvailHeaderProofs`: `ShortGaps`. A gap between two stored blocks was walked over
  by one run, whose counter of consecutive failures bounds it; the invariant ties the counter
  to the blocks below the run's cursor. And `DuplicatesBounded`, which is not inductive alone: the rows of a
  stored block and the runs that may still insert it (`Behind`) are together no more than all runs, and
  no run joins those behind a stored block, since it starts above all of them. And
  `AggregatesAccountedFor`: a stored block without an aggregate is in `missed`, or a run is still at it.

  The last part is about `AvailTable`. `CheckAssumesRightly` proves `HeadersOnlyAppear`: a header step adds
  the next row of one block, and there is one for it in `Row` because of `DuplicatesBounded`; all other
  steps are the check's own. So the composition implements `AvailabilityCheck`, and the lemmas of
  `AvailabilityCheckProofs`, instantiated, hold in it (`TableKeepsCheckPromises`): what was proved with
  an environment action in place of the header job is true with the job, however many runs of either
  overlap; `TableMaxIsMonotone` is the action property among them. `BlocksImplementSettlement` is
  the safety part of `BlocksAreSettled`: a step of rows is a step of blocks, or a stutter when the
  block had a row, a sample or a settled row before.
* The last part of `CelestiaHeaderProofs` says the same of `CelestiaTable`, with
  `SharesCheckProofs` instantiated. There one transaction inserts many rows, each of its height the
  next; and that a block with a verdict has a sample needs that every verdict has its sample, by height and time.
  The theorems assume `CheckBounds`, which `SharesCheck` asks of its constants.
* `WatchdogProofs`: `TypeOK`, `RestartJustified`, `ConfirmedRestartRests`. The invariant says
  of a run that was justified to go on that it still is: probes in the window it read were as many
  minutes younger then as the run is old now, and what was recorded since is younger than the run. That
  nothing was logged meanwhile holds because only a run that restarts logs a restart, and a run is over
  before cron starts the next (`RunsKeepTheirPeriod`). The proof uses `CooldownAssumption`, window plus
  run shorter than the cooldown (15 + 2 < 30): the code does not state it, but without it the failures
  that led to a restart would still be in the window when the cooldown is over.

  Two further parts are about other jobs that watch something. `NodeMonitors`: `LagNotOverstated` and
  `MonitorsTypeOK`. The invariant (`Told`) says that after the first answer the network head on hand is not above
  the node's, and its distance to the local head not above the recorded minimum; both heads only go up.
  That what is in `fraud_events` is a proof of the node's store needs the same of what is still to be inserted.
  `NamespaceMonitor`: `GapsAreTooOld` and `NamespacesTypeOK`. Below a run's cursor every height of the
  namespace it is at has a row or was too old; unlike in `AppIdMonitor` no smallest of several last heights is
  involved. The modules share no variable, and their definitions have names of their own, so that
  one module can extend all three.
* `RetrieveProofs`: probes are further apart than a window is wide, so a run finds one
  candidate per bucket at most, so it makes one request per bucket at most, so it is
  over before the next one starts (`RunsDoNotOverlap`), so nobody else retrieves the candidate
  it holds (`OncePerBucket`). The proof uses `MarginAssumption`: the requests of all buckets fit
  in a period, and `SUBMIT_MAX + 2 * TOLERANCE < PERIOD`. The code states neither; both
  hold of its numbers (270 s < 300 s; 75 s + 180 s < 300 s for Celestia, and for Avail as
  long as its balance query, which has no timeout, takes less than 50 s in all).
  `PassedOverOnlyWhenLate` is a statement about the end of a period; the invariant behind it,
  `FoundWhenRead`, is about any tick: a probe that was within reach when a bucket was read has
  its retrieval or is among those the run has still to make.
* `AppIdMonitorProofs`: `HolesExplained`, for any number of overlapping runs (the run has
  one). The invariant says that the smallest last height a run has read is above no app_id's
  rows it has read, and that everything below its cursor is accounted for.
* `SelfProbeProofs`: all properties of `self_probe`. `FeesWithinCharges` is not inductive: the
  invariant says that the fees on record are covered by charges the light node has *seen*, and
  that a balance a run has read is that of some set of them which covers the record, does not contain
  the run's own transaction and contains those of all successes that are not `stale`. The difference to a
  later balance is then the fee of the rest, less top-ups; the rest has the run's own blob unless that
  is stale, and others of runs that failed or were stale. What the account can pay for does not matter.

Every invariant and every action property of a passing run is proved. Of the refinements of `Settlement`
(`RefinesSettlement` of rows, `BlocksAreSettled` of Avail blocks) the safety part is proved, as
`ImplementsSettlement` and `BlocksImplementSettlement`. Only model-checked is what needs
fairness: `Settles` in these refinements, `EveryBlockStored`, both `CatchesUp` of the
monitors and that of `AvailHeader`, `StuckIsRestarted`, `StallIsReported`, `OutageShows` and
`EveryProofRecorded`. No prover here reasons about fairness, which is defined by `ENABLED`.

## 6. Not modelled, and the plan

Not modelled because it is I/O or keeps no state that anything depends on: schema, cron
installation, backup, `backfill.py` (three idempotent updates of rows with NULL columns, run by
hand), configuration, systemd, dashboards. `avail/health.py` takes both its numbers from one answer,
so nothing can come between them. `AvailLC` in `common/rpc.py` makes one request and returns what
came; its outcomes are actions of the modules of its callers. Of the Avail probe, what is timed is in
`Watchdog` and `Retrieve`; its names for HTTP errors are left out.

What the plan had was done in this order: the checks with `Settlement`, the header jobs, watchdog and probes, the
monitors, `SelfProbe`, the share parser, the theorems about each, and last the compositions of header
job and check. What could come next is an abstract specification of the header jobs and of the monitors
that look for the next height in the table (a set that grows upwards from a watermark), implemented by the four of them, and the
composition of `SelfProbe` with the schedule of `Retrieve`.
