----------------------------- MODULE AppIdMonitor -----------------------------
(***************************************************************************)
(* workers/avail/app_id_mon.py: the cron job that writes one row of        *)
(* namespace_observations per active app_id and Avail block.  All app_ids  *)
(* are observed in one scan, which starts above the smallest of their last *)
(* heights, or BOOTSTRAP blocks below the head if one has no row yet.      *)
(*                                                                         *)
(* Each of the scan's rows is a transaction of its own, so a run that dies *)
(* leaves a block observed for some of the app_ids only.  Blob counts and  *)
(* sizes are left out, and so is how many rows a block has of one app_id.  *)
(***************************************************************************)
EXTENDS Integers

CONSTANTS
    AppId,
    Worker,                      \* runs of the job that can overlap
    MaxHeight,                   \* bound: the chain is followed up to this height
    Missing,                     \* heights the light client never has a header for
    MAX_BLOCKS_PER_APP_PER_RUN,
    BOOTSTRAP,                   \* how far below the head a new app_id starts (30)
    MAX_FAILURES,                \* consecutive failures that end a run (3)
    MaxSwitches,                 \* bound: changes of monitored_namespaces.active
    MaxCrash                     \* bound: runs that die before they finish

Height == 1 .. MaxHeight

ASSUME BoundsAssumption == MaxHeight \in Nat \ {0} /\ MaxSwitches \in Nat /\ MaxCrash \in Nat
ASSUME LimitsAssumption ==
    /\ MAX_BLOCKS_PER_APP_PER_RUN \in Nat \ {0}
    /\ BOOTSTRAP \in Nat
    /\ MAX_FAILURES \in Nat \ {0}
ASSUME MissingAssumption == Missing \subseteq Height

VARIABLES
    active,    \* monitored_namespaces: the active app_ids
    available, \* the light client's range of blocks; last = 0: none yet
    observed,  \* namespace_observations: the heights each app_id has a row for
    failed,    \* history: heights some request for which was not answered
    skipped,   \* history: heights a scan of the app_id passed over with reason
    pc,        \* per run: what it does next
    ids,       \* per run: the active app_ids it read
    range,     \* per run: the available range it was told
    todo,      \* per run: the app_ids it has still to read or to write a row of
    minLast,   \* per run: the smallest last height read so far
    next,      \* per run: the height it is at
    end,       \* per run: the last height it will ask for
    fails,     \* per run: consecutive_failures
    switches,  \* changes of active so far
    crashes    \* runs that died so far

table == <<active, available, switches>>
history == <<failed, skipped>>
local == <<pc, ids, range, todo, minLast, next, end, fails>>
vars == <<table, observed, history, local, crashes>>

Ranges == [first : 0 .. MaxHeight, last : 0 .. MaxHeight]
NoRange == [first |-> 0, last |-> 0]
NoLast == MaxHeight + 1

Larger(a, b) == IF a > b THEN a ELSE b
Smaller(a, b) == IF a < b THEN a ELSE b

\* SELECT COALESCE(MAX(height), 0) of an app_id
IsLastHeight(a, last) ==
    /\ last = 0 <=> observed[a] = {}
    /\ last # 0 => last \in observed[a]
    /\ \A h \in observed[a] : h <= last

\* Mutation: the largest of the last heights.
LowerLarger(low, last) == IF low = NoLast THEN last ELSE Larger(low, last)

\* min_last is None or h < min_last
Lower(low, last) == Smaller(low, last)

ScanStart(low, r) ==
    IF low = 0 THEN Larger(r.last - BOOTSTRAP, r.first) ELSE Larger(low + 1, r.first)

ScanEnd(start, r) == Smaller(r.last, start + MAX_BLOCKS_PER_APP_PER_RUN - 1)

-----------------------------------------------------------------------------
Init ==
    /\ active \in SUBSET AppId
    /\ available = NoRange
    /\ observed = [a \in AppId |-> {}]
    /\ failed = {}
    /\ skipped = [a \in AppId |-> {}]
    /\ pc = [w \in Worker |-> "idle"]
    /\ ids = [w \in Worker |-> {}]
    /\ range = [w \in Worker |-> NoRange]
    /\ todo = [w \in Worker |-> {}]
    /\ minLast = [w \in Worker |-> NoLast]
    /\ next = [w \in Worker |-> 0]
    /\ end = [w \in Worker |-> 0]
    /\ fails = [w \in Worker |-> 0]
    /\ switches = 0 /\ crashes = 0

\* The light client syncs further blocks and may drop old ones.
NewBlocks ==
    /\ available' \in {r \in Ranges :
            /\ r.last > available.last /\ r.first <= r.last
            /\ r.first >= Larger(available.first, 1)}
    /\ UNCHANGED <<active, switches, observed, history, local, crashes>>

\* An operator switches an app_id on or off.
Switch(a) ==
    /\ switches < MaxSwitches /\ switches' = switches + 1
    /\ active' = IF a \in active THEN active \ {a} ELSE active \union {a}
    /\ UNCHANGED <<available, observed, history, local, crashes>>

\* get_active_app_ids; without any the run is over.
Start(w) ==
    /\ pc[w] = "idle"
    /\ active # {}
    /\ pc' = [pc EXCEPT ![w] = "status"]
    /\ ids' = [ids EXCEPT ![w] = active]
    /\ UNCHANGED <<table, observed, history, range, todo, minLast, next, end, fails, crashes>>

Finish(w) ==
    /\ pc' = [pc EXCEPT ![w] = "idle"]
    /\ ids' = [ids EXCEPT ![w] = {}]
    /\ range' = [range EXCEPT ![w] = NoRange]
    /\ todo' = [todo EXCEPT ![w] = {}]
    /\ minLast' = [minLast EXCEPT ![w] = NoLast]
    /\ next' = [next EXCEPT ![w] = 0]
    /\ end' = [end EXCEPT ![w] = 0]
    /\ fails' = [fails EXCEPT ![w] = 0]

\* /v2/status: a failed request, or a client without blocks, ends the run.
Status(w) ==
    /\ pc[w] = "status"
    /\ \/ /\ available.last # 0
          /\ pc' = [pc EXCEPT ![w] = "last"]
          /\ range' = [range EXCEPT ![w] = available]
          /\ todo' = [todo EXCEPT ![w] = ids[w]]
          /\ UNCHANGED <<ids, minLast, next, end, fails>>
       \/ Finish(w)
    /\ UNCHANGED <<table, observed, history, crashes>>

\* get_last_height_for, one app_id after the other.
ReadLast(w) ==
    /\ pc[w] = "last"
    /\ \E a \in todo[w], last \in Height \union {0} :
        /\ IsLastHeight(a, last)
        /\ minLast' = [minLast EXCEPT ![w] = Lower(@, last)]
        /\ todo' = [todo EXCEPT ![w] = @ \ {a}]
    /\ UNCHANGED <<table, observed, history, pc, ids, range, next, end, fails, crashes>>

\* What a scan may pass over: blocks the client dropped, and those of before the
\* last BOOTSTRAP ones, if it is the first scan of one of its app_ids.
PassedOver(w) ==
    {h \in Height : h < range[w].first \/ (minLast[w] = 0 /\ h < range[w].last - BOOTSTRAP)}

\* The range to scan is fixed.
Plan(w) ==
    /\ pc[w] = "last" /\ todo[w] = {}
    /\ LET start == ScanStart(minLast[w], range[w])
       IN  IF start > range[w].last
             THEN Finish(w) /\ UNCHANGED skipped
             ELSE /\ pc' = [pc EXCEPT ![w] = "fetch"]
                  /\ next' = [next EXCEPT ![w] = start]
                  /\ end' = [end EXCEPT ![w] = ScanEnd(start, range[w])]
                  /\ skipped' = [a \in AppId |-> skipped[a] \union
                        {h \in PassedOver(w) :
                            a \in ids[w] /\ h < start /\ \A g \in observed[a] : g < h}]
                  /\ UNCHANGED <<ids, range, todo, minLast, fails>>
    /\ UNCHANGED <<table, observed, failed, crashes>>

\* The loop goes on to the next height or ends.
Advance(w, failures) ==
    IF next[w] = end[w] THEN Finish(w)
    ELSE /\ pc' = [pc EXCEPT ![w] = "fetch"]
         /\ next' = [next EXCEPT ![w] = @ + 1]
         /\ fails' = [fails EXCEPT ![w] = failures]
         /\ UNCHANGED <<ids, range, todo, minLast, end>>

\* The header is answered; consecutive_failures is reset.
FetchOk(w) ==
    /\ pc[w] = "fetch"
    /\ next[w] \notin Missing
    /\ pc' = [pc EXCEPT ![w] = "insert"]
    /\ todo' = [todo EXCEPT ![w] = ids[w]]
    /\ fails' = [fails EXCEPT ![w] = 0]
    /\ UNCHANGED <<table, observed, history, ids, range, minLast, next, end, crashes>>

\* Mutation: a block the client does not have ends the run.
NotFoundEnds(w) ==
    /\ pc[w] = "fetch"
    /\ failed' = failed \union {next[w]}
    /\ Finish(w)
    /\ UNCHANGED <<table, observed, skipped, crashes>>

\* 404: on to the next block.
NotFound(w) ==
    /\ pc[w] = "fetch"
    /\ failed' = failed \union {next[w]}
    /\ Advance(w, fails[w])
    /\ UNCHANGED <<table, observed, skipped, crashes>>

\* Any other failure: count it, and end the run or go on to the next block.
Fail(w) ==
    /\ pc[w] = "fetch"
    /\ failed' = failed \union {next[w]}
    /\ IF fails[w] + 1 >= MAX_FAILURES THEN Finish(w) ELSE Advance(w, fails[w] + 1)
    /\ UNCHANGED <<table, observed, skipped, crashes>>

\* The block's row of one app_id is inserted, zeros if it has no blobs there; after the
\* last one the loop goes on.
Observe(w) ==
    /\ pc[w] = "insert"
    /\ \E a \in todo[w] :
        /\ observed' = [observed EXCEPT ![a] = @ \union {next[w]}]
        /\ IF todo[w] = {a} THEN Advance(w, fails[w])
           ELSE /\ todo' = [todo EXCEPT ![w] = @ \ {a}]
                /\ UNCHANGED <<pc, ids, range, minLast, next, end, fails>>
    /\ UNCHANGED <<table, history, crashes>>

\* The run dies; what it committed stays.
Die(w) ==
    /\ pc[w] # "idle"
    /\ crashes < MaxCrash /\ crashes' = crashes + 1
    /\ Finish(w)
    /\ UNCHANGED <<table, observed, history>>

Next ==
    \/ NewBlocks
    \/ \E a \in AppId : Switch(a)
    \/ \E w \in Worker :
        \/ Start(w) \/ Status(w) \/ ReadLast(w) \/ Plan(w)
        \/ FetchOk(w) \/ NotFound(w) \/ Fail(w) \/ Observe(w) \/ Die(w)

\* cron keeps starting runs, and a run goes on.  Requests may fail any number of
\* times, but a run that asks again and again is in the end answered.
Fairness ==
    \A w \in Worker : /\ WF_vars(Start(w))
                      /\ WF_vars(Status(w)) /\ SF_vars(Status(w) /\ pc'[w] = "last")
                      /\ WF_vars(ReadLast(w) \/ Plan(w))
                      /\ WF_vars(FetchOk(w) \/ NotFound(w) \/ Fail(w)) /\ SF_vars(FetchOk(w))
                      /\ WF_vars(Observe(w))

Spec == Init /\ [][Next]_vars /\ Fairness

-----------------------------------------------------------------------------
TypeOK ==
    /\ active \subseteq AppId
    /\ available \in Ranges
    /\ observed \in [AppId -> SUBSET Height]
    /\ failed \subseteq Height
    /\ skipped \in [AppId -> SUBSET Height]
    /\ pc \in [Worker -> {"idle", "status", "last", "fetch", "insert"}]
    /\ ids \in [Worker -> SUBSET AppId]
    /\ range \in [Worker -> Ranges]
    /\ todo \in [Worker -> SUBSET AppId]
    /\ minLast \in [Worker -> 0 .. NoLast]
    /\ next \in [Worker -> 0 .. MaxHeight]
    /\ end \in [Worker -> 0 .. MaxHeight]
    /\ fails \in [Worker -> 0 .. MAX_FAILURES - 1]
    /\ switches \in 0 .. MaxSwitches /\ crashes \in 0 .. MaxCrash

\* An app_id has a row of the block, or misses it for a reason on record.
Accounted(a, h) == h \in observed[a] \union failed \union skipped[a]

\* A block missing among the observations of an app_id has a reason in the outside
\* world: a request for it failed, the client had dropped it, or an app_id new to the
\* scan had it begin near the head.  It is never a run that died between two app_ids,
\* nor one that overlapped another, nor a time in which the app_id was switched off.
HolesExplained ==
    \A a \in AppId : \A g \in observed[a] : \A h \in 1 .. g - 1 : Accounted(a, h)

\* Every app_id that stays active catches up with a light client that comes to rest
\* at a block it has, whichever other app_ids were switched on and off before.
CatchesUp ==
    \A a \in AppId, h \in Height \ Missing :
        <>[](a \in active /\ available.last = h) => <>(\E g \in observed[a] : g >= h)

=============================================================================
