------------------------------ MODULE NodeHealth ------------------------------
(***************************************************************************)
(* workers/celestia/health.py: every minute one row of node_health, from   *)
(* requests made one after the other.  The node goes on syncing between    *)
(* header.NetworkHead and header.LocalHead, so sync_lag is the difference  *)
(* of numbers of different moments.  The other requests fill columns that  *)
(* stand for themselves, whether they succeed or not; they are left out.   *)
(* None or a value is a set of no or of one element.                       *)
(***************************************************************************)
EXTENDS Integers, Sequences

CONSTANTS
    MaxHeight,    \* bound: the chain is followed up to this height
    MaxCrash      \* bound: runs that die

VARIABLES
    node,      \* the light node: "up", or "down" and answering nothing
    network,   \* the head of the chain as the node knows it
    loc,       \* the head of what it has synced
    asked,     \* how many requests the run has made
    answers,   \* what they gave
    behind,    \* history: the least the node was behind when it was asked
    row,       \* the newest row of node_health, with that
    crashes    \* runs that died

nodeVars == <<node, network, loc>>
healthVars == <<asked, answers, behind, row>>

Height == 1 .. MaxHeight

\* Mutation: the local head is asked for first.
RequestsReversed == <<"LocalHead", "NetworkHead">>

Requests == <<"NetworkHead", "LocalHead">>

NoAnswers == [NetworkHead |-> {}, LocalHead |-> {}]

Init ==
    /\ node = "up"
    /\ network \in Height /\ loc \in 1 .. network
    /\ asked = 0 /\ answers = NoAnswers /\ behind = MaxHeight
    /\ row = [sync_lag |-> {}, is_syncing |-> {}, rpc_success |-> TRUE, behind |-> MaxHeight]
    /\ crashes = 0

\* The node hears of blocks, syncs them, stops and comes back.
NodeStep ==
    /\ \/ network' \in network + 1 .. MaxHeight /\ UNCHANGED <<node, loc>>
       \/ loc' \in loc + 1 .. network /\ UNCHANGED <<node, network>>
       \/ node' \in {"up", "down"} \ {node} /\ UNCHANGED <<network, loc>>
    /\ UNCHANGED <<healthVars, crashes>>

\* What a request can give: a node that is up may fail it all the same.
Answers(request) ==
    IF node = "down" THEN {{}}
    ELSE {{}, {IF request = "NetworkHead" THEN network ELSE loc}}

\* One of the two requests.
Ask ==
    /\ asked < Len(Requests) /\ asked' = asked + 1
    /\ \E answer \in Answers(Requests[asked']) :
        answers' = [answers EXCEPT ![Requests[asked']] = answer]
    /\ behind' = IF network - loc < behind THEN network - loc ELSE behind
    /\ UNCHANGED <<nodeVars, row, crashes>>

\* Mutation: a lag of two blocks is put down to the time between the requests.
IsSyncingTolerant(sync_lag) == sync_lag > 2

\* is_syncing
IsSyncing(sync_lag) == sync_lag > 1

\* Mutation: a run without a network head counts as a success all the same.
RpcSuccessLenient == answers["NetworkHead"] # {} \/ asked = Len(Requests)

\* rpc_success: neither head request failed.
RpcSuccess == \A request \in DOMAIN answers : answers[request] # {}

\* The row the run ends with, whatever it was told.
Insert ==
    /\ asked = Len(Requests) /\ asked' = 0
    /\ LET sync_lag == {n - l : n \in answers["NetworkHead"], l \in answers["LocalHead"]}
       IN  row' = [sync_lag |-> sync_lag, is_syncing |-> {IsSyncing(s) : s \in sync_lag},
                   rpc_success |-> RpcSuccess, behind |-> behind]
    /\ answers' = NoAnswers /\ behind' = MaxHeight
    /\ UNCHANGED <<nodeVars, crashes>>

\* An exception, or the end of the process: there is no row.
Die ==
    /\ asked > 0 /\ asked' = 0
    /\ crashes < MaxCrash /\ crashes' = crashes + 1
    /\ answers' = NoAnswers /\ behind' = MaxHeight
    /\ UNCHANGED <<nodeVars, row>>

-----------------------------------------------------------------------------
\* Types of all variables.
TypeOK ==
    /\ node \in {"up", "down"} /\ network \in Height /\ loc \in 1 .. network
    /\ asked \in 0 .. 2 /\ behind \in 0 .. MaxHeight
    /\ \A request \in DOMAIN answers : answers[request] \in SUBSET Height
    /\ row.is_syncing \in SUBSET BOOLEAN /\ row.rpc_success \in BOOLEAN
    /\ row.rpc_success => row.sync_lag \in SUBSET (-MaxHeight .. MaxHeight)

\* sync_lag never says more than the node was behind at either request, so a row that
\* says is_syncing is no artefact of blocks that arrived between the two.
LagNotOverstated == \A s \in row.sync_lag : s <= row.behind

\* A node that stands still two blocks or more behind is reported as syncing, as often as a run is
\* answered at all.
StallIsReported ==
    \A l \in Height : <>[](node = "up" /\ loc = l /\ network > l + 1) => []<>(TRUE \in row.is_syncing)

\* When the node stops answering for good, the rows say so from some time on.
OutageShows == <>[](node = "down") => <>[](~row.rpc_success)

==============================================================================
