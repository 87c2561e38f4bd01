-------------------------- MODULE AppIdMonitorProofs --------------------------
(***************************************************************************)
(* Theorems about AppIdMonitor, for any app_ids, any number of overlapping *)
(* runs, any chain and range of the light client, and any limits.          *)
(*                                                                         *)
(* A scan shared by several app_ids leaves no hole unaccounted for because *)
(* it begins above none of their last heights except for a reason on       *)
(* record, and everything below its cursor is observed or failed.          *)
(***************************************************************************)
EXTENDS AppIdMonitor, TLAPS

USE BoundsAssumption, LimitsAssumption, MissingAssumption

\* The ranges and heights a run works with.
RunOK(w) ==
    /\ todo[w] \subseteq ids[w]
    /\ pc[w] \in {"idle", "status"} => todo[w] = {}
    /\ pc[w] = "last" => range[w].first >= 1
    /\ pc[w] \in {"fetch", "insert"} => 1 <= next[w] /\ next[w] <= end[w]

RunsOK ==
    /\ available.last # 0 => available.first >= 1
    /\ \A w \in Worker : RunOK(w)

\* minLast is not above the last height of an app_id the run has read.
Watermark ==
    \A w \in Worker : pc[w] = "last" =>
        \A a \in ids[w] \ todo[w] : minLast[w] = 0 \/ \E g \in observed[a] : minLast[w] <= g

\* All that is below a run's cursor is accounted for, for each app_id it observes.
Walked ==
    \A w \in Worker : pc[w] \in {"fetch", "insert"} =>
        \A a \in ids[w] : \A h \in 1 .. next[w] - 1 : Accounted(a, h)

\* The app_ids a run is done with in a block have their row.
RowsWritten ==
    \A w \in Worker : pc[w] = "insert" =>
        \A a \in ids[w] \ todo[w] : next[w] \in observed[a]

IInv == TypeOK /\ RunsOK /\ Watermark /\ Walked /\ RowsWritten /\ HolesExplained

LEMMA InitEstablishesIInv == Init => IInv
<1> SUFFICES ASSUME Init
             PROVE  IInv
  OBVIOUS
<1>1. TypeOK
  BY DEF Init, TypeOK, Ranges, NoRange, NoLast, Height
<1> QED
  BY <1>1 DEF Init, IInv, RunsOK, RunOK, NoRange, Watermark, Walked, RowsWritten, HolesExplained

\* Rows and reasons are only ever added.
Grows ==
    /\ \A a \in AppId : observed[a] \subseteq observed'[a] /\ skipped[a] \subseteq skipped'[a]
    /\ failed \subseteq failed'

\* What is true of the rows stays true of a run that a step leaves alone.
Same(w) ==
    /\ pc'[w] = pc[w] /\ ids'[w] = ids[w] /\ range'[w] = range[w] /\ todo'[w] = todo[w]
    /\ minLast'[w] = minLast[w] /\ next'[w] = next[w] /\ end'[w] = end[w]

RunInv(w) ==
    /\ RunOK(w)
    /\ pc[w] = "last" =>
        \A a \in ids[w] \ todo[w] : minLast[w] = 0 \/ \E g \in observed[a] : minLast[w] <= g
    /\ pc[w] \in {"fetch", "insert"} =>
        \A a \in ids[w] : \A h \in 1 .. next[w] - 1 : Accounted(a, h)
    /\ pc[w] = "insert" => \A a \in ids[w] \ todo[w] : next[w] \in observed[a]

\* The invariant, run by run.
LEMMA ByRun ==
    IInv <=> /\ TypeOK /\ HolesExplained
             /\ available.last # 0 => available.first >= 1
             /\ \A w \in Worker : RunInv(w)
  BY DEF IInv, RunInv, RunsOK, Watermark, Walked, RowsWritten

LEMMA ByRunNext ==
    IInv' <=> /\ TypeOK' /\ HolesExplained'
              /\ available'.last # 0 => available'.first >= 1
              /\ \A w \in Worker : RunInv(w)'
  BY DEF IInv, RunInv, RunsOK, RunOK, Watermark, Walked, RowsWritten

LEMMA SameRunKept ==
    ASSUME TypeOK, NEW w \in Worker, RunInv(w), Same(w), Grows
    PROVE  RunInv(w)'
<1>1. ids[w] \subseteq AppId
  BY DEF TypeOK
<1> QED
  BY <1>1 DEF RunInv, RunOK, Same, Grows, Accounted

\* A run that has ended has nothing to keep.
LEMMA IdleRunKept ==
    ASSUME NEW w \in Worker, pc'[w] \in {"idle", "status"}, todo'[w] = {}
    PROVE  RunInv(w)'
  BY DEF RunInv, RunOK

\* Without new rows, holes stay explained.
LEMMA HolesKept ==
    ASSUME HolesExplained, Grows, observed' = observed
    PROVE  HolesExplained'
  BY DEF HolesExplained, Grows, Accounted

\* What Finish does to the types, and to the runs.
LEMMA FinishKeeps ==
    ASSUME TypeOK, NEW w \in Worker, Finish(w)
    PROVE  /\ pc' \in [Worker -> {"idle", "status", "last", "fetch", "insert"}]
           /\ ids' \in [Worker -> SUBSET AppId]
           /\ range' \in [Worker -> Ranges]
           /\ todo' \in [Worker -> SUBSET AppId]
           /\ minLast' \in [Worker -> 0 .. NoLast]
           /\ next' \in [Worker -> 0 .. MaxHeight]
           /\ end' \in [Worker -> 0 .. MaxHeight]
           /\ fails' \in [Worker -> 0 .. MAX_FAILURES - 1]
           /\ pc'[w] = "idle" /\ todo'[w] = {}
           /\ \A v \in Worker \ {w} : Same(v)
<1>1. NoRange \in Ranges /\ NoLast \in 0 .. NoLast /\ 0 \in 0 .. MaxHeight
      /\ 0 \in 0 .. MAX_FAILURES - 1
  BY DEF NoRange, Ranges, NoLast
<1> QED
  BY <1>1 DEF TypeOK, Finish, Same

\* The loop goes on: the block it leaves is accounted for, so is all below the next.
LEMMA AdvanceKeeps ==
    ASSUME TypeOK, NEW w \in Worker, RunInv(w), pc[w] \in {"fetch", "insert"}, Grows,
           NEW failures \in 0 .. MAX_FAILURES - 1, Advance(w, failures),
           \A a \in ids[w] : next[w] \in observed'[a] \union failed' \union skipped'[a]
    PROVE  /\ pc' \in [Worker -> {"idle", "status", "last", "fetch", "insert"}]
           /\ ids' \in [Worker -> SUBSET AppId]
           /\ range' \in [Worker -> Ranges]
           /\ todo' \in [Worker -> SUBSET AppId]
           /\ minLast' \in [Worker -> 0 .. NoLast]
           /\ next' \in [Worker -> 0 .. MaxHeight]
           /\ end' \in [Worker -> 0 .. MaxHeight]
           /\ fails' \in [Worker -> 0 .. MAX_FAILURES - 1]
           /\ RunInv(w)'
           /\ \A v \in Worker \ {w} : Same(v)
<1>1. CASE next[w] = end[w]
  <2>1. Finish(w)
    BY <1>1 DEF Advance
  <2> QED
    BY <2>1, FinishKeeps, IdleRunKept
<1>2. CASE next[w] # end[w]
  <2>1. /\ pc' = [pc EXCEPT ![w] = "fetch"]
        /\ next' = [next EXCEPT ![w] = next[w] + 1]
        /\ fails' = [fails EXCEPT ![w] = failures]
        /\ UNCHANGED <<ids, range, todo, minLast, end>>
    BY <1>2 DEF Advance
  <2>2. next[w] \in 0 .. MaxHeight /\ end[w] \in 0 .. MaxHeight /\ 1 <= next[w] /\ next[w] <= end[w]
    BY DEF TypeOK, RunInv, RunOK
  <2>3. next[w] + 1 \in 0 .. MaxHeight /\ next[w] + 1 <= end[w]
    BY <1>2, <2>2
  <2>4. /\ pc' \in [Worker -> {"idle", "status", "last", "fetch", "insert"}]
        /\ next' \in [Worker -> 0 .. MaxHeight]
        /\ fails' \in [Worker -> 0 .. MAX_FAILURES - 1]
    BY <2>1, <2>3 DEF TypeOK
  <2>5. /\ pc'[w] = "fetch" /\ next'[w] = next[w] + 1 /\ ids'[w] = ids[w] /\ end'[w] = end[w]
        /\ todo'[w] = todo[w] /\ todo[w] \subseteq ids[w]
    BY <2>1 DEF TypeOK, RunInv, RunOK
  <2>6. ASSUME NEW a \in ids[w], NEW h \in 1 .. next[w]
        PROVE  Accounted(a, h)'
    <3>1. CASE h = next[w]
      BY <3>1 DEF Accounted
    <3>2. CASE h # next[w]
      <4>1. h \in 1 .. next[w] - 1 /\ a \in AppId
        BY <2>2, <3>2 DEF TypeOK
      <4>2. Accounted(a, h)
        BY <4>1 DEF RunInv
      <4> QED
        BY <4>1, <4>2 DEF Accounted, Grows
    <3> QED
      BY <3>1, <3>2
  <2>7. 1 .. next'[w] - 1 = 1 .. next[w]
    BY <2>2, <2>5
  <2>8. RunInv(w)'
    BY <2>2, <2>3, <2>5, <2>6, <2>7 DEF RunInv, RunOK
  <2>9. \A v \in Worker \ {w} : Same(v)
    BY <2>1 DEF TypeOK, Same
  <2> QED
    BY <2>1, <2>4, <2>8, <2>9 DEF TypeOK
<1> QED
  BY <1>1, <1>2

-----------------------------------------------------------------------------
LEMMA NewBlocksPreservesIInv == IInv /\ NewBlocks => IInv'
<1> SUFFICES ASSUME IInv, NewBlocks
             PROVE  IInv'
  OBVIOUS
<1>1. TypeOK'
  BY DEF IInv, NewBlocks, TypeOK, history, local
<1>2. available'.last # 0 => available'.first >= 1
  BY DEF NewBlocks, Larger, IInv, TypeOK, Ranges
<1>3. Grows /\ \A w \in Worker : Same(w)
  BY DEF NewBlocks, Grows, Same, history, local
<1>4. HolesExplained'
  BY HolesKept, <1>3 DEF IInv, NewBlocks
<1> QED
  BY <1>1, <1>2, <1>3, <1>4, ByRun, ByRunNext, SameRunKept

LEMMA SwitchPreservesIInv == IInv /\ (\E a \in AppId : Switch(a)) => IInv'
<1> SUFFICES ASSUME IInv, NEW a \in AppId, Switch(a)
             PROVE  IInv'
  OBVIOUS
<1>1. TypeOK'
  <2>1. switches' \in 0 .. MaxSwitches
    BY DEF Switch, IInv, TypeOK
  <2>2. active' \subseteq AppId
    BY DEF Switch, IInv, TypeOK
  <2> QED
    BY <2>1, <2>2 DEF Switch, IInv, TypeOK, history, local
<1>2. available' = available
  BY DEF Switch
<1>3. Grows /\ \A w \in Worker : Same(w)
  BY DEF Switch, Grows, Same, history, local
<1>4. HolesExplained'
  BY HolesKept, <1>3 DEF IInv, Switch
<1> QED
  BY <1>1, <1>2, <1>3, <1>4, ByRun, ByRunNext, SameRunKept

\* Steps of a run that add no rows.
LEMMA RunStepKeeps ==
    ASSUME IInv, NEW w \in Worker, TypeOK', UNCHANGED <<table, observed>>, Grows,
           RunInv(w)', \A v \in Worker \ {w} : Same(v)
    PROVE  IInv'
<1>1. available' = available
  BY DEF table
<1>2. HolesExplained'
  BY HolesKept DEF IInv
<1>3. \A v \in Worker : RunInv(v)'
  BY ByRun, SameRunKept
<1> QED
  BY <1>1, <1>2, <1>3, ByRun, ByRunNext

LEMMA StartPreservesIInv == ASSUME IInv, NEW w \in Worker, Start(w) PROVE IInv'
<1>1. pc'[w] = "status" /\ todo'[w] = {} /\ \A v \in Worker \ {w} : Same(v)
  BY DEF Start, IInv, TypeOK, RunsOK, RunOK, Same
<1>2. TypeOK'
  BY DEF Start, IInv, TypeOK, table, history
<1>3. Grows /\ UNCHANGED <<table, observed>>
  BY DEF Start, Grows, history
<1> QED
  BY <1>1, <1>2, <1>3, IdleRunKept, RunStepKeeps

\* A run that ends, whatever the reason.
LEMMA FinishPreservesIInv ==
    ASSUME IInv, NEW w \in Worker, Finish(w), UNCHANGED <<table, observed, skipped>>,
           failed \subseteq failed', failed' \subseteq Height, crashes' \in 0 .. MaxCrash
    PROVE  IInv'
<1>1. TypeOK
  BY DEF IInv
<1>2. TypeOK'
  BY <1>1, FinishKeeps DEF TypeOK, table
<1>3. Grows
  BY DEF Grows
<1> QED
  BY <1>1, <1>2, <1>3, FinishKeeps, IdleRunKept, RunStepKeeps

LEMMA StatusPreservesIInv == ASSUME IInv, NEW w \in Worker, Status(w) PROVE IInv'
<1>1. UNCHANGED <<table, observed, history, crashes>>
  BY DEF Status
<1>2. CASE Finish(w)
  BY <1>1, <1>2, FinishPreservesIInv DEF history, IInv, TypeOK
<1>3. CASE ~Finish(w)
  <2>1. /\ available.last # 0
        /\ pc' = [pc EXCEPT ![w] = "last"]
        /\ range' = [range EXCEPT ![w] = available]
        /\ todo' = [todo EXCEPT ![w] = ids[w]]
        /\ UNCHANGED <<ids, minLast, next, end, fails>>
    BY <1>3 DEF Status
  <2>2. TypeOK'
    BY <1>1, <2>1 DEF IInv, TypeOK, table, history
  <2>3. /\ pc'[w] = "last" /\ range'[w] = available /\ todo'[w] = ids[w] /\ ids'[w] = ids[w]
        /\ \A v \in Worker \ {w} : Same(v)
    BY <2>1 DEF IInv, TypeOK, Same
  <2>4. RunInv(w)'
    BY <2>1, <2>3 DEF IInv, RunsOK, RunInv, RunOK
  <2>5. Grows
    BY <1>1 DEF Grows, history
  <2> QED
    BY <1>1, <2>2, <2>3, <2>4, <2>5, RunStepKeeps
<1> QED
  BY <1>2, <1>3

LEMMA ReadLastPreservesIInv == ASSUME IInv, NEW w \in Worker, ReadLast(w) PROVE IInv'
<1>1. PICK a \in todo[w], last \in Height \union {0} :
        /\ IsLastHeight(a, last)
        /\ minLast' = [minLast EXCEPT ![w] = Lower(minLast[w], last)]
        /\ todo' = [todo EXCEPT ![w] = todo[w] \ {a}]
  BY DEF ReadLast
<1>2. pc[w] = "last" /\ UNCHANGED <<table, observed, history, pc, ids, range, next, end, fails, crashes>>
  BY DEF ReadLast
<1>3. minLast[w] \in 0 .. NoLast /\ NoLast = MaxHeight + 1 /\ last \in 0 .. MaxHeight
  BY DEF IInv, TypeOK, NoLast, Height
<1>4. /\ Lower(minLast[w], last) \in 0 .. NoLast
      /\ Lower(minLast[w], last) <= minLast[w] /\ Lower(minLast[w], last) <= last
  BY <1>3 DEF Lower, Smaller
<1>5. TypeOK'
  BY <1>1, <1>2, <1>4 DEF IInv, TypeOK, table, history
<1>6. /\ minLast'[w] = Lower(minLast[w], last) /\ todo'[w] = todo[w] \ {a} /\ pc'[w] = "last"
      /\ \A v \in Worker \ {w} : Same(v)
  BY <1>1, <1>2 DEF IInv, TypeOK, Same
<1>7. ASSUME NEW b \in ids[w] \ (todo[w] \ {a})
      PROVE  minLast'[w] = 0 \/ \E g \in observed[b] : minLast'[w] <= g
  <2>0. b \in AppId /\ observed[b] \subseteq Height
    BY DEF IInv, TypeOK
  <2>1. CASE b = a
    <3>1. last = 0 => minLast'[w] = 0
      BY <1>3, <1>4, <1>6
    <3>2. last # 0 => last \in observed[b] /\ minLast'[w] <= last
      BY <1>1, <1>4, <1>6, <2>1 DEF IsLastHeight
    <3> QED
      BY <3>1, <3>2
  <2>2. CASE b # a
    <3>1. minLast[w] = 0 \/ \E g \in observed[b] : minLast[w] <= g
      BY <1>2, <2>2 DEF IInv, Watermark
    <3>2. minLast[w] = 0 => minLast'[w] = 0
      BY <1>3, <1>4, <1>6
    <3>3. \A g \in observed[b] : minLast[w] <= g => minLast'[w] <= g
      BY <1>3, <1>4, <1>6, <2>0 DEF Height
    <3> QED
      BY <3>1, <3>2, <3>3
  <2> QED
    BY <2>1, <2>2
<1>8. RunInv(w)'
  <2>1. ids' = ids /\ observed' = observed /\ range' = range
    BY <1>2
  <2>2. range[w].first >= 1 /\ todo[w] \subseteq ids[w]
    BY <1>2 DEF IInv, RunsOK, RunOK
  <2> QED
    BY <1>6, <1>7, <2>1, <2>2 DEF RunInv, RunOK
<1>9. Grows
  BY <1>2 DEF Grows, history
<1> QED
  BY <1>2, <1>5, <1>6, <1>8, <1>9, RunStepKeeps

\* The first height of a scan is above none of the last heights it has read, but for
\* the blocks PassedOver.
LEMMA StartAccounted ==
    ASSUME IInv, NEW w \in Worker, pc[w] = "last", todo[w] = {}, NEW a \in ids[w],
           NEW start \in Int, start = ScanStart(minLast[w], range[w]),
           NEW h \in Height, h < start
    PROVE  Accounted(a, h) \/ (h \in PassedOver(w) /\ \A g \in observed[a] : g < h)
<1>1. a \in AppId /\ observed[a] \subseteq Height /\ h \in Int /\ minLast[w] \in Int
      /\ range[w] \in Ranges
  BY DEF IInv, TypeOK, Height
<1>2. CASE \E g \in observed[a] : h <= g
  <2>1. PICK g \in observed[a] : h <= g
    BY <1>2
  <2>2. CASE h = g
    BY <2>2 DEF Accounted
  <2>3. CASE h # g
    <3>1. h \in 1 .. g - 1
      BY <1>1, <2>1, <2>3 DEF Height
    <3> QED
      BY <1>1, <3>1 DEF IInv, HolesExplained
  <2> QED
    BY <2>2, <2>3
<1>3. CASE \A g \in observed[a] : ~(h <= g)
  <2>1. \A g \in observed[a] : g < h
    BY <1>1, <1>3 DEF Height
  <2>2. minLast[w] = 0 \/ \E g \in observed[a] : minLast[w] <= g
    BY DEF IInv, Watermark
  <2>3. minLast[w] = 0 \/ minLast[w] < h
    BY <1>1, <2>1, <2>2 DEF Height
  <2>4. range[w].first \in Int /\ range[w].last \in Int
    BY <1>1 DEF Ranges
  <2>5. h < range[w].first \/ (minLast[w] = 0 /\ h < range[w].last - BOOTSTRAP)
    BY <1>1, <2>3, <2>4 DEF ScanStart, Larger
  <2> QED
    BY <2>1, <2>5 DEF PassedOver
<1> QED
  BY <1>2, <1>3

LEMMA PlanPreservesIInv == ASSUME IInv, NEW w \in Worker, Plan(w) PROVE IInv'
<1>1. /\ pc[w] = "last" /\ todo[w] = {}
      /\ UNCHANGED <<table, observed, failed, crashes>>
  BY DEF Plan
<1>2. CASE Finish(w) /\ UNCHANGED skipped
  BY <1>1, <1>2, FinishPreservesIInv DEF IInv, TypeOK
<1>3. CASE ~(Finish(w) /\ UNCHANGED skipped)
  <2>1. PICK start : start = ScanStart(minLast[w], range[w])
    OBVIOUS
  <2>2. /\ ~(start > range[w].last)
        /\ pc' = [pc EXCEPT ![w] = "fetch"]
        /\ next' = [next EXCEPT ![w] = start]
        /\ end' = [end EXCEPT ![w] = ScanEnd(start, range[w])]
        /\ skipped' = [a \in AppId |-> skipped[a] \union
              {h \in PassedOver(w) : a \in ids[w] /\ h < start /\ \A g \in observed[a] : g < h}]
        /\ UNCHANGED <<ids, range, todo, minLast, fails>>
    BY <1>3, <2>1 DEF Plan
  <2>3. /\ minLast[w] \in Int /\ minLast[w] >= 0 /\ range[w].first \in Int /\ range[w].first >= 1
        /\ range[w].last \in 0 .. MaxHeight
    BY <1>1 DEF IInv, TypeOK, Ranges, RunsOK, RunOK, NoLast
  <2>4. start \in Int /\ start >= 1 /\ start <= range[w].last /\ start \in 0 .. MaxHeight
    BY <2>1, <2>2, <2>3 DEF ScanStart, Larger
  <2>5. ScanEnd(start, range[w]) \in 0 .. MaxHeight /\ start <= ScanEnd(start, range[w])
    BY <2>3, <2>4 DEF ScanEnd, Smaller
  <2>6. skipped' \in [AppId -> SUBSET Height]
    BY <2>2 DEF IInv, TypeOK, PassedOver
  <2>7. TypeOK'
    BY <1>1, <2>2, <2>4, <2>5, <2>6 DEF IInv, TypeOK, table
  <2>8. Grows
    BY <1>1, <2>2 DEF Grows
  <2>9. /\ pc'[w] = "fetch" /\ next'[w] = start /\ end'[w] = ScanEnd(start, range[w])
        /\ ids'[w] = ids[w] /\ todo'[w] = {}
        /\ \A v \in Worker \ {w} : Same(v)
    BY <1>1, <2>2 DEF IInv, TypeOK, Same
  <2>10. ASSUME NEW a \in ids[w], NEW h \in 1 .. start - 1
         PROVE  Accounted(a, h)'
    <3>1. h \in Height /\ h < start /\ a \in AppId
      BY <2>4 DEF Height, IInv, TypeOK
    <3>2. CASE Accounted(a, h)
      BY <2>8, <3>1, <3>2 DEF Accounted, Grows
    <3>3. CASE ~Accounted(a, h)
      <4>1. h \in PassedOver(w) /\ \A g \in observed[a] : g < h
        BY <1>1, <2>1, <2>4, <3>1, <3>3, StartAccounted
      <4>2. h \in skipped'[a]
        BY <2>2, <3>1, <4>1
      <4> QED
        BY <4>2 DEF Accounted
    <3> QED
      BY <3>2, <3>3
  <2>11. RunInv(w)'
    BY <2>4, <2>5, <2>9, <2>10 DEF RunInv, RunOK
  <2> QED
    BY <1>1, <2>7, <2>8, <2>9, <2>11, RunStepKeeps
<1> QED
  BY <1>2, <1>3

LEMMA FetchOkPreservesIInv == ASSUME IInv, NEW w \in Worker, FetchOk(w) PROVE IInv'
<1>1. TypeOK'
  BY DEF FetchOk, IInv, TypeOK, table, history
<1>2. Grows /\ UNCHANGED <<table, observed>>
  BY DEF FetchOk, Grows, history
<1>3. /\ pc[w] = "fetch" /\ pc'[w] = "insert" /\ todo'[w] = ids[w] /\ ids' = ids /\ next' = next
      /\ end' = end
      /\ \A v \in Worker \ {w} : Same(v)
  BY DEF FetchOk, IInv, TypeOK, Same
<1>4. RunInv(w)
  BY ByRun
<1>5. RunInv(w)'
  BY <1>2, <1>3, <1>4 DEF RunInv, RunOK, Accounted, FetchOk, history
<1> QED
  BY <1>1, <1>2, <1>3, <1>5, RunStepKeeps

\* A block that failed is accounted for, whether the loop goes on or ends.
LEMMA FailedBlock ==
    ASSUME IInv, NEW w \in Worker, pc[w] = "fetch", failed' = failed \union {next[w]},
           UNCHANGED <<table, observed, skipped, crashes>>,
           NEW failures \in 0 .. MAX_FAILURES - 1, Advance(w, failures)
    PROVE  IInv'
<1>1. TypeOK /\ RunInv(w)
  BY ByRun
<1>2. Grows
  BY DEF Grows
<1>3. next[w] \in Height
  BY DEF IInv, TypeOK, RunsOK, RunOK, Height
<1>4. /\ pc' \in [Worker -> {"idle", "status", "last", "fetch", "insert"}]
      /\ ids' \in [Worker -> SUBSET AppId]
      /\ range' \in [Worker -> Ranges]
      /\ todo' \in [Worker -> SUBSET AppId]
      /\ minLast' \in [Worker -> 0 .. NoLast]
      /\ next' \in [Worker -> 0 .. MaxHeight]
      /\ end' \in [Worker -> 0 .. MaxHeight]
      /\ fails' \in [Worker -> 0 .. MAX_FAILURES - 1]
      /\ RunInv(w)'
      /\ \A v \in Worker \ {w} : Same(v)
  BY <1>1, <1>2, AdvanceKeeps
<1>5. TypeOK'
  BY <1>1, <1>3, <1>4 DEF TypeOK, table
<1> QED
  BY <1>2, <1>4, <1>5, RunStepKeeps

LEMMA NotFoundPreservesIInv == ASSUME IInv, NEW w \in Worker, NotFound(w) PROVE IInv'
<1>1. fails[w] \in 0 .. MAX_FAILURES - 1
  BY DEF IInv, TypeOK
<1> QED
  BY <1>1, FailedBlock DEF NotFound

LEMMA FailPreservesIInv == ASSUME IInv, NEW w \in Worker, Fail(w) PROVE IInv'
<1>1. /\ pc[w] = "fetch" /\ failed' = failed \union {next[w]}
      /\ UNCHANGED <<table, observed, skipped, crashes>>
  BY DEF Fail
<1>2. fails[w] \in 0 .. MAX_FAILURES - 1 /\ next[w] \in Height
  BY <1>1 DEF IInv, TypeOK, RunsOK, RunOK, Height
<1>3. CASE fails[w] + 1 >= MAX_FAILURES
  <2>1. Finish(w)
    BY <1>3 DEF Fail
  <2>2. failed \subseteq failed' /\ failed' \subseteq Height /\ crashes' \in 0 .. MaxCrash
    BY <1>1, <1>2 DEF IInv, TypeOK
  <2> QED
    BY <1>1, <2>1, <2>2, FinishPreservesIInv
<1>4. CASE ~(fails[w] + 1 >= MAX_FAILURES)
  <2>1. Advance(w, fails[w] + 1) /\ fails[w] + 1 \in 0 .. MAX_FAILURES - 1
    BY <1>2, <1>4 DEF Fail
  <2> QED
    BY <1>1, <2>1, FailedBlock
<1> QED
  BY <1>3, <1>4

LEMMA ObservePreservesIInv == ASSUME IInv, NEW w \in Worker, Observe(w) PROVE IInv'
<1>1. PICK a \in todo[w] :
        /\ observed' = [observed EXCEPT ![a] = observed[a] \union {next[w]}]
        /\ IF todo[w] = {a} THEN Advance(w, fails[w])
           ELSE /\ todo' = [todo EXCEPT ![w] = todo[w] \ {a}]
                /\ UNCHANGED <<pc, ids, range, minLast, next, end, fails>>
  BY DEF Observe
<1>2. pc[w] = "insert" /\ UNCHANGED <<table, history, crashes>>
  BY DEF Observe
<1>3. TypeOK /\ RunInv(w)
  BY ByRun
<1>4. a \in AppId /\ next[w] \in Height /\ fails[w] \in 0 .. MAX_FAILURES - 1
  BY <1>2 DEF IInv, TypeOK, RunsOK, RunOK, Height
<1>5. /\ observed' \in [AppId -> SUBSET Height]
      /\ observed'[a] = observed[a] \union {next[w]}
      /\ \A b \in AppId \ {a} : observed'[b] = observed[b]
  BY <1>1, <1>3, <1>4 DEF TypeOK
<1>6. Grows
  BY <1>2, <1>4, <1>5 DEF Grows, history
<1>7. \A b \in ids[w] \ todo[w] : next[w] \in observed'[b]
  <2>1. ids[w] \subseteq AppId
    BY <1>3 DEF TypeOK
  <2> QED
    BY <1>2, <1>3, <1>6, <2>1 DEF RunInv, Grows
<1>8. /\ pc' \in [Worker -> {"idle", "status", "last", "fetch", "insert"}]
      /\ ids' \in [Worker -> SUBSET AppId]
      /\ range' \in [Worker -> Ranges]
      /\ todo' \in [Worker -> SUBSET AppId]
      /\ minLast' \in [Worker -> 0 .. NoLast]
      /\ next' \in [Worker -> 0 .. MaxHeight]
      /\ end' \in [Worker -> 0 .. MaxHeight]
      /\ fails' \in [Worker -> 0 .. MAX_FAILURES - 1]
      /\ RunInv(w)'
      /\ \A v \in Worker \ {w} : Same(v)
  <2>1. CASE todo[w] = {a}
    <3>1. \A b \in ids[w] : next[w] \in observed'[b]
      BY <1>5, <1>7, <2>1
    <3>2. Advance(w, fails[w])
      BY <1>1, <2>1
    <3> QED
      BY <1>2, <1>3, <1>4, <1>6, <3>1, <3>2, AdvanceKeeps
  <2>2. CASE todo[w] # {a}
    <3>1. /\ todo' = [todo EXCEPT ![w] = todo[w] \ {a}]
          /\ UNCHANGED <<pc, ids, range, minLast, next, end, fails>>
      BY <1>1, <2>2
    <3>2. todo' \in [Worker -> SUBSET AppId] /\ todo'[w] = todo[w] \ {a}
      BY <1>3, <3>1 DEF TypeOK
    <3>3. \A v \in Worker \ {w} : Same(v)
      BY <1>3, <3>1 DEF TypeOK, Same
    <3>4. ASSUME NEW b \in ids[w] \ (todo[w] \ {a})
          PROVE  next[w] \in observed'[b]
      BY <1>5, <1>7, <3>4
    <3>5. ASSUME NEW b \in ids[w], NEW h \in 1 .. next[w] - 1
          PROVE  Accounted(b, h)'
      <4>1. Accounted(b, h) /\ b \in AppId
        BY <1>2, <1>3 DEF RunInv, TypeOK
      <4> QED
        BY <1>6, <4>1 DEF Accounted, Grows
    <3>6. RunInv(w)'
      BY <1>2, <1>3, <3>1, <3>2, <3>4, <3>5 DEF RunInv, RunOK
    <3> QED
      BY <1>3, <3>1, <3>2, <3>3, <3>6 DEF TypeOK
  <2> QED
    BY <2>1, <2>2
<1>9. TypeOK'
  BY <1>2, <1>3, <1>5, <1>8 DEF TypeOK, table, history
<1>10. HolesExplained'
  <2> SUFFICES ASSUME NEW b \in AppId, NEW g \in observed'[b], NEW h \in 1 .. g - 1
               PROVE  Accounted(b, h)'
    BY DEF HolesExplained
  <2>1. CASE g \in observed[b]
    <3>1. Accounted(b, h)
      BY <2>1 DEF IInv, HolesExplained
    <3> QED
      BY <1>6, <3>1 DEF Accounted, Grows
  <2>2. CASE g \notin observed[b]
    <3>1. b = a /\ g = next[w]
      BY <1>5, <2>2
    <3>2. Accounted(b, h)
      BY <1>2, <1>3, <3>1 DEF RunInv, RunOK
    <3> QED
      BY <1>6, <3>2 DEF Accounted, Grows
  <2> QED
    BY <2>1, <2>2
<1>11. \A v \in Worker : RunInv(v)'
  BY <1>3, <1>6, <1>8, ByRun, SameRunKept
<1>12. available' = available
  BY <1>2 DEF table
<1> QED
  BY <1>9, <1>10, <1>11, <1>12, ByRun, ByRunNext

LEMMA DiePreservesIInv == ASSUME IInv, NEW w \in Worker, Die(w) PROVE IInv'
<1>1. crashes' \in 0 .. MaxCrash /\ failed \subseteq failed' /\ failed' \subseteq Height
  BY DEF Die, IInv, TypeOK, history
<1> QED
  BY <1>1, FinishPreservesIInv DEF Die, history

LEMMA NextPreservesIInv == IInv /\ [Next]_vars => IInv'
<1> SUFFICES ASSUME IInv, [Next]_vars
             PROVE  IInv'
  OBVIOUS
<1>1. CASE NewBlocks
  BY <1>1, NewBlocksPreservesIInv
<1>2. CASE \E a \in AppId : Switch(a)
  BY <1>2, SwitchPreservesIInv
<1>3. ASSUME NEW w \in Worker,
             \/ Start(w) \/ Status(w) \/ ReadLast(w) \/ Plan(w)
             \/ FetchOk(w) \/ NotFound(w) \/ Fail(w) \/ Observe(w) \/ Die(w)
      PROVE  IInv'
  BY <1>3, StartPreservesIInv, StatusPreservesIInv, ReadLastPreservesIInv, PlanPreservesIInv,
     FetchOkPreservesIInv, NotFoundPreservesIInv, FailPreservesIInv, ObservePreservesIInv,
     DiePreservesIInv
<1>4. CASE UNCHANGED vars
  <2>1. UNCHANGED <<active, available, switches, observed, failed, skipped, pc, ids, range,
                    todo, minLast, next, end, fails, crashes>>
    BY <1>4 DEF vars, table, history, local
  <2> QED
    BY <2>1 DEF IInv, TypeOK, RunsOK, RunOK, Watermark, Walked, RowsWritten, HolesExplained,
                Accounted
<1> QED
  BY <1>1, <1>2, <1>3, <1>4 DEF Next

LEMMA Invariance == Spec => []IInv
  BY InitEstablishesIInv, NextPreservesIInv, PTL DEF Spec

\* TypeOK: the types of all variables; a run only observes heights the chain has.
THEOREM TypeCorrect == Spec => []TypeOK
<1>1. IInv => TypeOK
  BY DEF IInv
<1> QED
  BY <1>1, Invariance, PTL

\* HolesExplained: below the last observation of an app_id, every block is observed,
\* had a request that failed, was dropped by the client, or came before a first scan.
THEOREM NoUnexplainedHole == Spec => []HolesExplained
<1>1. IInv => HolesExplained
  BY DEF IInv
<1> QED
  BY <1>1, Invariance, PTL

=============================================================================
