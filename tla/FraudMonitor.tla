----------------------------- MODULE FraudMonitor -----------------------------
(***************************************************************************)
(* workers/celestia/fraud_monitor.py: every minute the node is asked for   *)
(* the fraud proofs it has stored, and every proof in the answer is        *)
(* inserted into fraud_events in a transaction of its own.  There is one   *)
(* known proof type.  A proof that is stored is returned, and inserted,    *)
(* again by every run; events has the proofs with a row, however many.     *)
(***************************************************************************)
EXTENDS Naturals, Sequences, SequencesExt

CONSTANTS
    Proof,        \* fraud proofs that may come up
    MaxCrash      \* bound: runs that die

VARIABLES
    node,         \* the light node: "up", or "down" and answering nothing
    store,        \* the proofs the node has stored, in its order
    todo,         \* the proofs the run has still to insert
    events,       \* the proofs with a row in fraud_events
    crashes       \* runs that died

Init == store = <<>> /\ todo = <<>> /\ events = {}

\* The node validates a proof it has received and stores it.
NewProof ==
    /\ \E p \in Proof \ Range(store) : store' = Append(store, p)
    /\ UNCHANGED <<node, todo, events, crashes>>

\* Mutation: the result is taken for one proof.
ProofsOne(result) == IF result = <<>> THEN <<>> ELSE <<Head(result)>>

\* proofs
Proofs(result) == result

\* fraud.Get is answered.  (With nothing stored the answer is the error "key not found";
\* that run, like one whose request fails in any other way, changes no table.)
Get ==
    /\ node = "up" /\ todo = <<>> /\ store # <<>>
    /\ todo' = Proofs(store)
    /\ UNCHANGED <<node, store, events, crashes>>

\* The row of one proof.
Insert ==
    /\ todo # <<>> /\ todo' = Tail(todo)
    /\ events' = events \union {Head(todo)}
    /\ UNCHANGED <<node, store, crashes>>

\* The run dies; the proofs left are up to the next one.
Die ==
    /\ todo # <<>> /\ todo' = <<>>
    /\ crashes < MaxCrash /\ crashes' = crashes + 1
    /\ UNCHANGED <<node, store, events>>

-----------------------------------------------------------------------------
\* Types of the job's variables; what is recorded is a proof.
TypeOK ==
    /\ store \in Seq(Proof) /\ todo \in Seq(Proof)
    /\ events \subseteq Range(store)

\* A proof the node has stored is recorded, as long as the node does not stay away for
\* ever: a run that dies between two rows leaves nothing undone for good.
EveryProofRecorded ==
    \A p \in Proof : []<>(node = "up") => (p \in Range(store) ~> p \in events)

===============================================================================
