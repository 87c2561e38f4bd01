--------------------------- MODULE NamespaceMonitor ---------------------------
(***************************************************************************)
(* workers/celestia/namespace_mon.py: the cron job that writes one row of  *)
(* namespace_observations per active namespace and Celestia block.  Each   *)
(* namespace has a range of its own, above its last height and not more    *)
(* than BACKFILL blocks below the head.                                    *)
(*                                                                         *)
(* A request that fails is written down like one that succeeds, and the    *)
(* block is not asked for again.  Blob counts and the other columns are    *)
(* left out, and so is how many rows a block has of one namespace.         *)
(***************************************************************************)
EXTENDS Integers

CONSTANTS
    Namespace,
    Placeholder,                 \* namespaces with a placeholder for a name
    Worker,                      \* runs of the job that can overlap
    MaxHead,                     \* bound: the chain is followed up to this height
    MAX_BLOCKS_PER_NAMESPACE_PER_RUN,
    BACKFILL,                    \* how far below the head a range can start (100)
    MaxSwitches,                 \* bound: changes of monitored_namespaces.active
    MaxDeaths                    \* bound: runs that die before they finish

Height == 1 .. MaxHead

ASSUME NamespaceAssumption == Placeholder \subseteq Namespace
ASSUME NamespaceBounds == MaxHead \in Nat \ {0} /\ MaxSwitches \in Nat /\ MaxDeaths \in Nat
ASSUME NamespaceLimits ==
    MAX_BLOCKS_PER_NAMESPACE_PER_RUN \in Nat \ {0} /\ BACKFILL \in Nat

VARIABLES
    active,    \* monitored_namespaces: the active namespaces
    head,      \* the local head of the light node
    observed,  \* namespace_observations: the heights each namespace has a row for
    tooOld,    \* history: heights of each namespace a run found below its BACKFILL
    pc,        \* per run: what it does next
    lh,        \* per run: the local head it was told
    ahead,     \* per run: the active namespaces it has not come to yet
    ns,        \* per run: the namespaces it is at, one or none
    next,      \* per run: the height it is at
    end,       \* per run: the last height it will ask for
    switches,  \* changes of active so far
    deaths     \* runs that died so far

local == <<pc, lh, ahead, ns, next, end>>
namespaceVars == <<active, head, observed, tooOld, local, switches, deaths>>

Larger(a, b) == IF a > b THEN a ELSE b
Smaller(a, b) == IF a < b THEN a ELSE b

\* SELECT COALESCE(MAX(height), 0) of a namespace
IsLastHeight(n, last) ==
    /\ last = 0 <=> observed[n] = {}
    /\ last # 0 => last \in observed[n]
    /\ \A h \in observed[n] : h <= last

FirstHeight(last, local_head) == Larger(last + 1, local_head - BACKFILL)

FinalHeight(first, local_head) ==
    Smaller(local_head, first + MAX_BLOCKS_PER_NAMESPACE_PER_RUN - 1)

-----------------------------------------------------------------------------
NamespacesInit ==
    /\ active \in SUBSET Namespace
    /\ head \in Height
    /\ observed = [n \in Namespace |-> {}]
    /\ tooOld = [n \in Namespace |-> {}]
    /\ pc = [w \in Worker |-> "idle"]
    /\ lh = [w \in Worker |-> 0]
    /\ ahead = [w \in Worker |-> {}]
    /\ ns = [w \in Worker |-> {}]
    /\ next = [w \in Worker |-> 0]
    /\ end = [w \in Worker |-> 0]
    /\ switches = 0 /\ deaths = 0

\* The light node syncs further blocks.
NewHead ==
    /\ head' \in head + 1 .. MaxHead
    /\ UNCHANGED <<active, observed, tooOld, local, switches, deaths>>

\* An operator switches a namespace on or off.
Switch(n) ==
    /\ switches < MaxSwitches /\ switches' = switches + 1
    /\ active' = IF n \in active THEN active \ {n} ELSE active \union {n}
    /\ UNCHANGED <<head, observed, tooOld, local, deaths>>

\* get_active_namespaces; without any the run is over.
Start(w) ==
    /\ pc[w] = "idle"
    /\ active # {}
    /\ pc' = [pc EXCEPT ![w] = "head"]
    /\ ahead' = [ahead EXCEPT ![w] = active]
    /\ UNCHANGED <<active, head, observed, tooOld, lh, ns, next, end, switches, deaths>>

Finish(w) ==
    /\ pc' = [pc EXCEPT ![w] = "idle"]
    /\ lh' = [lh EXCEPT ![w] = 0]
    /\ ahead' = [ahead EXCEPT ![w] = {}]
    /\ ns' = [ns EXCEPT ![w] = {}]
    /\ next' = [next EXCEPT ![w] = 0]
    /\ end' = [end EXCEPT ![w] = 0]

\* get_local_head answers.
ReadHead(w) ==
    /\ pc[w] = "head"
    /\ pc' = [pc EXCEPT ![w] = "select"]
    /\ lh' = [lh EXCEPT ![w] = head]
    /\ UNCHANGED <<active, head, observed, tooOld, ahead, ns, next, end, switches, deaths>>

\* get_local_head does not answer: the run is over.
NoHead(w) ==
    /\ pc[w] = "head"
    /\ Finish(w)
    /\ UNCHANGED <<active, head, observed, tooOld, switches, deaths>>

\* Mutation: nothing to do for one namespace ends the run.
PassOverEnds(w, n) == Finish(w)

\* continue: on to the next namespace
PassOver(w, n) ==
    /\ ahead' = [ahead EXCEPT ![w] = @ \ {n}]
    /\ UNCHANGED <<pc, lh, ns, next, end>>

\* The next namespace of the run: its last height is read and its range fixed.
Select(w) ==
    /\ pc[w] = "select"
    /\ \E n \in ahead[w], last \in Height \union {0} :
        LET first == FirstHeight(last, lh[w])
        IN  /\ IsLastHeight(n, last)
            /\ IF n \in Placeholder \/ first > lh[w]
                 THEN PassOver(w, n) /\ UNCHANGED tooOld
                 ELSE /\ pc' = [pc EXCEPT ![w] = "fetch"]
                      /\ ahead' = [ahead EXCEPT ![w] = @ \ {n}]
                      /\ ns' = [ns EXCEPT ![w] = {n}]
                      /\ next' = [next EXCEPT ![w] = first]
                      /\ end' = [end EXCEPT ![w] = FinalHeight(first, lh[w])]
                      /\ tooOld' = [tooOld EXCEPT ![n] = @ \union
                                        {h \in last + 1 .. MaxHead : h < lh[w] - BACKFILL}]
                      /\ UNCHANGED lh
    /\ UNCHANGED <<active, head, observed, switches, deaths>>

\* The run has come to the end of the namespaces.
EndRun(w) ==
    /\ pc[w] = "select" /\ ahead[w] = {}
    /\ Finish(w)
    /\ UNCHANGED <<active, head, observed, tooOld, switches, deaths>>

\* What blob.GetAll says; "not found" in an error stands for a block without blobs.
Answer == {"blobs", "not found", "error"}

\* Mutation: a failed request leaves no row.
RecordedIfAnswered(answer, h) == IF answer = "error" THEN {} ELSE {h}

\* The row that is inserted has fetch_success = FALSE for an error.
Recorded(answer, h) == {h}

\* blob.GetAll and the insert of its row; then the next height or the next namespace.
Observe(w) ==
    /\ pc[w] = "fetch"
    /\ \E answer \in Answer, n \in ns[w] :
        observed' = [observed EXCEPT ![n] = @ \union Recorded(answer, next[w])]
    /\ IF next[w] = end[w]
         THEN /\ pc' = [pc EXCEPT ![w] = "select"]
              /\ ns' = [ns EXCEPT ![w] = {}]
              /\ next' = [next EXCEPT ![w] = 0]
              /\ end' = [end EXCEPT ![w] = 0]
         ELSE /\ next' = [next EXCEPT ![w] = @ + 1]
              /\ UNCHANGED <<pc, ns, end>>
    /\ UNCHANGED <<active, head, tooOld, lh, ahead, switches, deaths>>

\* The run dies; what it committed stays.
Die(w) ==
    /\ pc[w] # "idle"
    /\ deaths < MaxDeaths /\ deaths' = deaths + 1
    /\ Finish(w)
    /\ UNCHANGED <<active, head, observed, tooOld, switches>>

NamespacesNext ==
    \/ NewHead
    \/ \E n \in Namespace : Switch(n)
    \/ \E w \in Worker :
        \/ Start(w) \/ ReadHead(w) \/ NoHead(w) \/ Select(w) \/ EndRun(w)
        \/ Observe(w) \/ Die(w)

\* cron keeps starting runs, and a run goes on: its requests have a timeout.  A node
\* that is asked for its head again and again answers in the end.  Runs come to the
\* namespaces in the order the database returns them, which may be any.
NamespacesFairness ==
    \A w \in Worker : /\ WF_namespaceVars(Start(w))
                      /\ WF_namespaceVars(ReadHead(w) \/ NoHead(w)) /\ SF_namespaceVars(ReadHead(w))
                      /\ WF_namespaceVars(Select(w) \/ EndRun(w))
                      /\ WF_namespaceVars(Observe(w))

NamespacesSpec == NamespacesInit /\ [][NamespacesNext]_namespaceVars /\ NamespacesFairness

-----------------------------------------------------------------------------
NamespacesTypeOK ==
    /\ active \subseteq Namespace
    /\ head \in Height
    /\ observed \in [Namespace -> SUBSET Height]
    /\ tooOld \in [Namespace -> SUBSET Height]
    /\ pc \in [Worker -> {"idle", "head", "select", "fetch"}]
    /\ lh \in [Worker -> 0 .. MaxHead]
    /\ ahead \in [Worker -> SUBSET Namespace]
    /\ ns \in [Worker -> SUBSET Namespace]
    /\ next \in [Worker -> 0 .. MaxHead]
    /\ end \in [Worker -> 0 .. MaxHead]
    /\ switches \in 0 .. MaxSwitches /\ deaths \in 0 .. MaxDeaths

\* Between its first and its last row a namespace has a row of every block, of failed
\* requests too, except of blocks that were more than BACKFILL below the head when a
\* run came to it.  Overlapping and dying runs, and other namespaces, change nothing.
GapsAreTooOld ==
    \A n \in Namespace : \A g \in observed[n] : \A h \in 1 .. g - 1 :
        h \in observed[n] \union tooOld[n]

\* Every namespace that stays active has in the end a row of the block the light node
\* comes to rest at, whatever the other namespaces of a run have left to do.
CatchesUp ==
    \A n \in Namespace \ Placeholder, h \in Height :
        <>[](n \in active /\ head = h) => <>(h \in observed[n])

=============================================================================
