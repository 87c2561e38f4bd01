------------------------------ MODULE SelfProbe ------------------------------
(***************************************************************************)
(* What the self probe records: workers/celestia/submit.py and the verdict *)
(* of workers/celestia/retrieve.py, with the chain between them.           *)
(*                                                                         *)
(* A run of submit reads the balance, submits a payload of its own, sleeps *)
(* 15 s and reads the balance again when the submit succeeded, and inserts *)
(* one row.  The light node may not have followed by then, and a submit    *)
(* that timed out may still be included later.  Runs do not overlap: cron  *)
(* starts one every 300 s, and its three requests of at most 20 s and its  *)
(* sleep of 15 s take less.                                                *)
(* (When and how often a probe is retrieved is the subject of Retrieve;    *)
(* workers/avail/submit.py and retrieve.py take the same steps with names  *)
(* of their own for the errors.)                                           *)
(*                                                                         *)
(* A payload is the number of its run.  What Python has as None or a value *)
(* is a set of no or of one element here.                                  *)
(***************************************************************************)
EXTENDS Integers, FiniteSets, Rpc

CONSTANTS
    MaxProbe,    \* bound: runs of submit
    MaxHeight,   \* bound: blocks
    FEE,         \* what a submit costs; payload size and gas price never change
    TOP_UP,      \* what the operator adds to the account at a time
    MaxTopUp,    \* bound: how often
    BALANCE,     \* the account at the beginning
    MaxCrash     \* bound: runs that die

Probe == 1 .. MaxProbe
Height == 1 .. MaxHeight

ASSUME BoundsAssumption == MaxProbe \in Nat /\ MaxHeight \in Nat /\ MaxTopUp \in Nat /\ MaxCrash \in Nat
ASSUME MoneyAssumption == FEE \in Nat \ {0} /\ TOP_UP \in Nat /\ BALANCE \in Nat

VARIABLES
    height,      \* the newest block
    pending,     \* submitted transactions that are in no block yet
    block,       \* the block of each transaction, or 0
    outOfGas,    \* transactions in a block that failed: charged, but no blob
    pruned,      \* blobs the network has lost
    topped,      \* how often the account was topped up
    seen,        \* the charges the light node's state contains
    seenTop,     \* and the top-ups
    pc,          \* the submit run: what it does next
    n,           \* its payload, or that of the last run
    before,      \* bal_before
    result,      \* submit_success, error_type, height
    probes,      \* table probes
    newest,      \* the newest row of retrievals
    measured,    \* history: the sum of the fees on record
    stale,       \* history: successes whose own charge the light node had not seen by the row
    died         \* history: payloads of runs that died

chain == <<height, pending, block, outOfGas, pruned, topped, seen, seenTop>>
run == <<pc, n, before, result>>
vars == <<chain, run, probes, newest, measured, stale, died>>

charged == {p \in Probe : block[p] # 0}
landed == charged \ outOfGas

\* The account after these charges and top-ups.
Balance(charges, tops) == BALANCE + TOP_UP * tops - FEE * Cardinality(charges)

NoResult == [success |-> FALSE, error_type |-> "none", height |-> 0]

-----------------------------------------------------------------------------
Init ==
    /\ height = 1 /\ pending = {} /\ block = [p \in Probe |-> 0]
    /\ outOfGas = {} /\ pruned = {} /\ topped = 0 /\ seen = {} /\ seenTop = 0
    /\ pc = "idle" /\ n = 0 /\ before = {} /\ result = NoResult
    /\ probes = {} /\ newest = [probe |-> 0, verdict |-> "none", info |-> "none"]
    /\ measured = 0 /\ stale = {} /\ died = {}

(* The chain and the light node.                                           *)

\* A block takes any of the pending transactions that the account can pay for.
NewBlock ==
    /\ height < MaxHeight
    /\ height' = height + 1
    /\ \E included \in SUBSET pending : \E failing \in SUBSET included :
        /\ Balance(charged \union included, topped) >= 0
        /\ block' = [p \in Probe |-> IF p \in included THEN height' ELSE block[p]]
        /\ outOfGas' = outOfGas \union failing
        /\ pending' = pending \ included
    /\ UNCHANGED <<pruned, topped, seen, seenTop, run, probes, newest, measured, stale, died>>

\* A transaction that is in no block for too long is dropped.
Evict ==
    /\ \E p \in pending : pending' = pending \ {p}
    /\ UNCHANGED <<height, block, outOfGas, pruned, topped, seen, seenTop, run, probes, newest, measured, stale, died>>

TopUp ==
    /\ topped < MaxTopUp /\ topped' = topped + 1
    /\ UNCHANGED <<height, pending, block, outOfGas, pruned, seen, seenTop, run, probes, newest, measured, stale, died>>

\* The light node follows the chain.
Sync ==
    /\ seen' = charged /\ seenTop' = topped
    /\ UNCHANGED <<height, pending, block, outOfGas, pruned, topped, run, probes, newest, measured, stale, died>>

Prune ==
    /\ \E p \in landed : pruned' = pruned \union {p}
    /\ UNCHANGED <<height, pending, block, outOfGas, topped, seen, seenTop, run, probes, newest, measured, stale, died>>

-----------------------------------------------------------------------------
(* submit.py                                                               *)

\* Mutation: a query that fails counts as an empty account.
BalanceAnswersZero == {{0}, {Balance(seen, seenTop)}}

\* _balance: what the light node knows, or None.
BalanceAnswers == {{}, {Balance(seen, seenTop)}}

\* cron starts a run, which makes its payload and reads the balance.
Start ==
    /\ pc = "idle" /\ n < MaxProbe
    /\ pc' = "submit" /\ n' = n + 1
    /\ before' \in BalanceAnswers
    /\ UNCHANGED <<chain, result, probes, newest, measured, stale, died>>

\* blob.Submit: the node broadcasts the transaction, or does not.
Submit ==
    /\ pc = "submit" /\ pc' = "wait"
    /\ pending' \in {pending, pending \union {n}}
    /\ UNCHANGED <<height, block, outOfGas, pruned, topped, seen, seenTop,
                   n, before, result, probes, newest, measured, stale, died>>

Named == [insufficient |-> "insufficient_funds", out_of_gas |-> "out_of_gas",
          deadline |-> "context_deadline", namespace |-> "invalid_namespace"]

\* Mutation: a request without an answer is put down to the account.
ErrorTypeGuessed(resp) == IF resp.error_type = "timeout" THEN "insufficient_funds"
                          ELSE IF resp.error \in DOMAIN Named THEN Named[resp.error] ELSE resp.error_type

ErrorType(resp) == IF resp.error \in DOMAIN Named THEN Named[resp.error] ELSE resp.error_type

\* The responses the node's situation allows: a height when the blob is in a block,
\* a refusal when it is not and will not be; no answer, or one that says nothing, always.
MayRespond(resp) ==
    /\ resp.success => n \in landed
    /\ resp.error = "out_of_gas" => n \notin pending \union landed
    /\ resp.error \in {"insufficient", "namespace"} => n \notin pending \union charged

\* Mutation: an answer that is no height counts as success.
SubmitResultsTrusting(resp) ==
    IF ~resp.success THEN {[success |-> FALSE, error_type |-> ErrorType(resp), height |-> 0]}
    ELSE {[success |-> TRUE, error_type |-> "none", height |-> block[n]],
          [success |-> TRUE, error_type |-> "none", height |-> 0]}

\* submit_success, error_type and height; int(resp.result) may raise.
SubmitResults(resp) ==
    IF ~resp.success THEN {[success |-> FALSE, error_type |-> ErrorType(resp), height |-> 0]}
    ELSE {[success |-> TRUE, error_type |-> "none", height |-> block[n]],
          [success |-> FALSE, error_type |-> "bad_response", height |-> 0]}

\* The request ends.
Answer ==
    /\ pc = "wait" /\ pc' = "answered"
    /\ \E resp \in {r \in Responses : MayRespond(r)} : result' \in SubmitResults(resp)
    /\ UNCHANGED <<chain, n, before, probes, newest, measured, stale, died>>

\* Mutation: the difference is taken the wrong way round.
FeePaidReversed(after) == {a - b : b \in before, a \in after}

\* fee_paid: None unless both balances are there.
FeePaid(after) == {b - a : b \in before, a \in after}

\* The row INSERT adds to probes, whatever became of the submit.
Rows(fee) == {[probe |-> n, fee |-> fee, success |-> result.success,
               error_type |-> result.error_type, height |-> result.height]}

\* After a success the run sleeps 15 s ("LC syncs balance after block produces") and asks for
\* the balance again, whether the light node has followed or not; then the row.
Record ==
    /\ pc = "answered" /\ pc' = "idle"
    /\ \E after \in IF result.success THEN BalanceAnswers ELSE {{}} :
        /\ probes' = probes \union Rows(FeePaid(after))
        /\ measured' = IF FeePaid(after) = {} THEN measured
                       ELSE measured + (CHOOSE f \in FeePaid(after) : TRUE)
    /\ stale' = IF result.success /\ n \notin seen THEN stale \union {n} ELSE stale
    /\ before' = {} /\ result' = NoResult
    /\ UNCHANGED <<chain, n, newest, died>>

Die ==
    /\ pc # "idle" /\ pc' = "idle"
    /\ Cardinality(died) < MaxCrash /\ died' = died \union {n}
    /\ before' = {} /\ result' = NoResult
    /\ UNCHANGED <<chain, n, probes, newest, measured, stale>>

-----------------------------------------------------------------------------
(* retrieve.py: check_block                                                *)

\* The blobs in the namespace, which is open to everybody (0 is a blob of theirs).
Blobs(h) == {p \in landed \ pruned : block[p] = h}
BlobLists(h) == {Blobs(h), Blobs(h) \union {0}}

\* What is recorded of a request that failed: the wording of the error comes first, then its
\* type.  The node says "not found" of a namespace without blobs, but also of a block it has
\* no header of and of data it has lost.
OfError(resp) ==
    IF resp.error = "not_found" THEN [verdict |-> "blob_not_found", info |-> "no blobs in namespace"]
    ELSE [verdict |-> resp.error_type, info |-> "none"]

Lost(blobs) ==
    IF blobs = {} THEN [verdict |-> "blob_not_found", info |-> "empty blob list"]
    ELSE [verdict |-> "hash_mismatch", info |-> "none matched"]

\* Mutation: only one of the blobs is compared.
VerdictsOfOne(wanted, resp, blobs) ==
    IF ~resp.success THEN {OfError(resp)}
    ELSE IF blobs = {} THEN {Lost(blobs)}
    ELSE {IF p = wanted THEN [verdict |-> "success", info |-> "none"] ELSE Lost(blobs) : p \in blobs}

\* fetch_success or error_type, and details.info: an answer is searched for the payload, and
\* tells a wrong one from none.
Verdicts(wanted, resp, blobs) ==
    {IF ~resp.success THEN OfError(resp)
     ELSE IF wanted \in blobs THEN [verdict |-> "success", info |-> "none"]
     ELSE Lost(blobs)}

\* One candidate: the request and the row.  find_candidates asks for a height.
Retrieve ==
    /\ \E row \in probes : row.success /\ row.height # 0 /\
        \E blobs \in BlobLists(row.height), resp \in Responses :
        \E found \in Verdicts(row.probe, resp, blobs) :
            newest' = [probe |-> row.probe, verdict |-> found.verdict, info |-> found.info]
    /\ UNCHANGED <<chain, run, probes, measured, stale, died>>

-----------------------------------------------------------------------------
Next ==
    \/ NewBlock \/ Evict \/ TopUp \/ Sync \/ Prune
    \/ Start \/ Submit \/ Answer \/ Record \/ Die
    \/ Retrieve

Spec == Init /\ [][Next]_vars

-----------------------------------------------------------------------------
(* Properties.                                                             *)

\* Types of all variables; a row has a height exactly when it is a success.
TypeOK ==
    /\ height \in Height \union {1} /\ topped \in 0 .. MaxTopUp /\ seenTop \in 0 .. topped
    /\ block \in [Probe -> 0 .. height]
    /\ pending \subseteq Probe \ charged
    /\ outOfGas \subseteq charged /\ pruned \subseteq landed /\ seen \subseteq charged
    /\ pc \in {"idle", "submit", "wait", "answered"}
    /\ n \in 0 .. MaxProbe /\ before \in SUBSET Int
    /\ \A r \in probes \union {result} :
        /\ r.success \in BOOLEAN /\ r.height \in 0 .. height
        /\ r.success <=> r.height # 0
    /\ \A r \in probes : r.probe \in 1 .. n /\ r.fee \in SUBSET Int
    /\ measured \in Int /\ stale \subseteq Probe /\ died \subseteq Probe

\* The fees on record never add up to more than the account was charged: whatever is
\* late, every charge is in at most one difference.
FeesWithinCharges == measured <= FEE * Cardinality(charged)

\* A fee is what the probe cost, less what the operator paid in, plus the cost of the blobs
\* of earlier runs whose charges no balance was sure to show: runs that were given up, and
\* successes the light node had not followed by the time of their rows.  Of such a success
\* the fee may lack its own cost.  After nothing but punctual successes a run measures its own.
FeeExplained ==
    \A r \in probes : \A fee \in r.fee :
        LET shown == {q.probe : q \in {s \in probes : s.success}} \ stale
        IN  /\ fee <= FEE * (1 + Cardinality((1 .. r.probe - 1) \ shown))
            /\ fee >= (IF r.probe \in stale THEN 0 ELSE FEE) - TOP_UP * topped

\* Every transaction in a block belongs to the run in progress, to one that died, or to a
\* row; a success names the block of its blob, and a row that puts the failure
\* down to the account or the namespace has none.
ProbesAccountForBlobs ==
    /\ \A p \in charged : (p = n /\ pc # "idle") \/ p \in died \/ \E r \in probes : r.probe = p
    /\ \A r \in probes :
        /\ r.success => r.probe \in landed /\ block[r.probe] = r.height
        /\ r.error_type \in {"insufficient_funds", "invalid_namespace"} => r.probe \notin pending \union charged

\* A probe is said to have survived only when the block still has its blob.  When the row
\* says that the node listed the blobs of the block, none or none that matched, the network
\* has lost it, even if a blob of another run or of somebody else is in the same block.
\* (A blob_not_found without a list is no such claim: its info tells it apart.)
VerdictIsTrue ==
    [][newest' # newest =>
        /\ newest'.verdict = "success" => newest'.probe \in landed \ pruned
        /\ newest'.verdict = "hash_mismatch" => newest'.probe \in pruned
        /\ newest'.info = "empty blob list" => newest'.probe \in pruned]_vars

==============================================================================
