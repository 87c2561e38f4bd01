--------------------------- MODULE SelfProbeProofs ---------------------------
(***************************************************************************)
(* Theorems about SelfProbe, for any number of runs, blocks, top-ups and   *)
(* crashes, and any fee, top-up and initial balance.                       *)
(*                                                                         *)
(* A balance that a run has read is that of a set of charges the light     *)
(* node has seen, to which the run's own does not belong; the fees on      *)
(* record before are covered by these charges, so the difference to a      *)
(* later balance is covered by the rest.                                   *)
(***************************************************************************)
EXTENDS SelfProbe, FiniteSetTheorems, TLAPS

USE BoundsAssumption, MoneyAssumption

\* The successes whose own charge the light node knew when they were recorded.
Shown == {r.probe : r \in {q \in probes : q.success}} \ stale

\* What a fee on record is sure to have of the cost of its own probe.
Own(p) == IF p \in stale THEN 0 ELSE FEE

Refused == {"insufficient_funds", "invalid_namespace"}

\* What holds between the steps of a run.
RunOK ==
    /\ pc # "idle" => n \in Probe
    /\ pc = "submit" => n \notin pending \union charged
    /\ pending \union charged \subseteq 1 .. n
    /\ pc # "idle" => \A r \in probes : r.probe # n
    /\ pc = "idle" => before = {}
    /\ pc # "answered" => result = NoResult

\* ProbesAccountForBlobs, for what may still become a blob and for the result that is not
\* on record yet.
AccountOK ==
    /\ \A p \in pending \union charged :
        (p = n /\ pc # "idle") \/ p \in died \/ \E r \in probes : r.probe = p
    /\ result.success => n \in landed /\ block[n] = result.height
    /\ result.error_type \in Refused => n \notin pending \union charged
    /\ \A r \in probes :
        /\ r.success => r.probe \in landed /\ block[r.probe] = r.height
        /\ r.error_type \in Refused => r.probe \notin pending \union charged

\* A balance of charges s and t top-ups, read before the submit in progress.
ReadBefore(b, s, t) ==
    /\ b = Balance(s, t)
    /\ measured <= FEE * Cardinality(s)
    /\ n \notin s /\ Shown \subseteq s

FeeOK ==
    /\ measured <= FEE * Cardinality(seen)
    /\ Shown \subseteq seen
    /\ \A b \in before : \E s \in SUBSET seen, t \in 0 .. seenTop : ReadBefore(b, s, t)

IInv == TypeOK /\ RunOK /\ AccountOK /\ FeeOK /\ FeeExplained

-----------------------------------------------------------------------------
(* Numbers and sets.                                                       *)

LEMMA Times ==
  ASSUME NEW k \in Nat, NEW a \in Int, NEW b \in Int, a <= b
  PROVE  k * a \in Int /\ k * b \in Int /\ k * a <= k * b
  OBVIOUS

\* Cardinalities of sets of payloads.
LEMMA Sets ==
  ASSUME NEW T \in SUBSET Probe, NEW S \in SUBSET T
  PROVE  /\ IsFiniteSet(T) /\ Cardinality(T) \in Nat
         /\ Cardinality(S) \in Nat
         /\ Cardinality(S) <= Cardinality(T)
         /\ Cardinality(T \ S) = Cardinality(T) - Cardinality(S)
<1>1. IsFiniteSet(T)
  <2>1. IsFiniteSet(1 .. MaxProbe)
    <3>1. 1 \in Int /\ MaxProbe \in Int
      OBVIOUS
    <3> QED BY <3>1, FS_Interval
  <2>2. T \in SUBSET (1 .. MaxProbe)
    BY DEF Probe
  <2> QED BY <2>1, <2>2, FS_Subset
<1>2. IsFiniteSet(S) /\ Cardinality(S) <= Cardinality(T)
  BY <1>1, FS_Subset
<1>3. T \cap S = S
  OBVIOUS
<1>4. Cardinality(T \ S) = Cardinality(T) - Cardinality(S)
  BY <1>1, <1>3, FS_Difference
<1> QED BY <1>1, <1>2, <1>4, FS_CardinalityType

LEMMA BalanceType ==
  ASSUME NEW S \in SUBSET Probe, NEW t \in Nat PROVE Balance(S, t) \in Int
<1>1. Cardinality(S) \in Nat
  BY Sets
<1> QED BY <1>1 DEF Balance

\* What call returns.
LEMMA ResponseFacts ==
  ASSUME NEW resp \in Responses
  PROVE  /\ resp.success \in BOOLEAN
         /\ resp.error_type \notin Refused /\ resp.error_type \notin {"hash_mismatch", "blob_not_found", "success"}
<1>1. PICK ending \in Ending, says \in Word : resp = Response(ending, says)
  BY DEF Responses
<1>2. /\ resp.success = (ending = "result")
      /\ resp.error_type = CASE ending = "result" -> "none"
          [] ending \in {"timeout", "connection", "request"} -> ending
          [] ending \in {"non_json", "no_result"} -> "bad_response"
          [] ending = "error" -> "rpc_error"
  BY <1>1 DEF Response
<1> QED BY <1>2 DEF Ending, Refused

\* The row puts a failure down to the account or the namespace only when the node did.
LEMMA RefusedByName ==
  ASSUME NEW resp \in Responses, ErrorType(resp) \in Refused
  PROVE  resp.error \in {"insufficient", "namespace"}
<1>1. resp.error \in DOMAIN Named
  BY ResponseFacts DEF ErrorType
<1> QED BY <1>1 DEF ErrorType, Named, Refused

-----------------------------------------------------------------------------
LEMMA Initially == Init => IInv
<1> SUFFICES ASSUME Init PROVE IInv
  OBVIOUS
<1>1. charged = {} /\ landed = {}
  BY DEF Init, charged, landed
<1>2. Cardinality(seen) = 0
  BY FS_EmptySet DEF Init
<1>3. TypeOK
  BY <1>1 DEF Init, TypeOK, NoResult, Height, Probe
<1> QED BY <1>1, <1>2, <1>3 DEF Init, IInv, RunOK, AccountOK, FeeOK, FeeExplained, Shown, NoResult, Refused

-----------------------------------------------------------------------------
(* The chain and the light node.                                           *)

\* What a step of the chain, the operator or the light node leaves alone and may change.
ChainStep ==
    /\ UNCHANGED <<run, probes, measured, stale, died>>
    /\ charged \subseteq charged' /\ landed \subseteq landed'
    /\ pending' \union charged' \subseteq pending \union charged
    /\ \A p \in charged : block'[p] = block[p]
    /\ seen \subseteq seen' /\ seen' \subseteq charged'
    /\ seenTop <= seenTop' /\ seenTop' \in 0 .. topped'
    /\ topped <= topped' /\ topped' \in 0 .. MaxTopUp

LEMMA FeesKept ==
  ASSUME IInv, ChainStep, charged' \subseteq Probe
  PROVE  FeeOK' /\ FeeExplained'
<1> USE DEF ChainStep, run
<1>1. measured \in Int /\ seen \in SUBSET Probe /\ seen' \in SUBSET Probe /\ topped \in Int /\ topped' \in Int /\ topped <= topped'
  BY DEF IInv, TypeOK, charged
<1>2. measured' <= FEE * Cardinality(seen')
  <2>1. Cardinality(seen) \in Nat /\ Cardinality(seen') \in Nat /\ Cardinality(seen) <= Cardinality(seen')
    BY <1>1, Sets
  <2>2. FEE * Cardinality(seen) \in Int /\ FEE * Cardinality(seen) <= FEE * Cardinality(seen')
    BY <2>1, Times
  <2>3. measured <= FEE * Cardinality(seen)
    BY DEF IInv, FeeOK
  <2> QED BY <1>1, <2>1, <2>2, <2>3
<1>3. Shown' = Shown /\ Shown' \subseteq seen'
  BY DEF IInv, FeeOK, Shown
<1>4. ASSUME NEW b \in before'
      PROVE  \E s \in SUBSET seen', t \in 0 .. seenTop' : ReadBefore(b, s, t)'
  <2>1. PICK s \in SUBSET seen, t \in 0 .. seenTop : ReadBefore(b, s, t)
    BY DEF IInv, FeeOK
  <2>2. ReadBefore(b, s, t)'
    BY <1>3, <2>1 DEF ReadBefore, Balance
  <2>3. s \in SUBSET seen' /\ t \in 0 .. seenTop'
    BY DEF IInv, TypeOK
  <2> QED BY <2>2, <2>3
<1>5. FeeExplained'
  <2> SUFFICES ASSUME NEW r \in probes, NEW fee \in r.fee
               PROVE  /\ fee <= FEE * (1 + Cardinality((1 .. r.probe - 1) \ Shown))
                      /\ fee >= Own(r.probe) - TOP_UP * topped'
    BY DEF FeeExplained, Shown, Own
  <2>1. /\ fee <= FEE * (1 + Cardinality((1 .. r.probe - 1) \ Shown))
        /\ fee >= Own(r.probe) - TOP_UP * topped
    BY DEF IInv, FeeExplained, Shown, Own
  <2>2. fee \in Int /\ Own(r.probe) \in Int
    BY DEF IInv, TypeOK, Own
  <2>3. /\ TOP_UP * topped \in Int /\ TOP_UP * topped' \in Int
        /\ TOP_UP * topped <= TOP_UP * topped'
    BY <1>1, Times
  <2>4. fee >= Own(r.probe) - TOP_UP * topped'
    <3> HIDE DEF ChainStep
    <3> QED BY <2>1, <2>2, <2>3
  <2> QED BY <2>1, <2>4
<1> QED BY <1>2, <1>3, <1>4, <1>5 DEF FeeOK

LEMMA ChainKeeps ==
  ASSUME IInv, ChainStep, TypeOK'
  PROVE  IInv'
<1>1. RunOK'
  BY DEF ChainStep, run, IInv, RunOK
<1>2. AccountOK'
  <2>1. \A p \in (pending \union charged)' :
          (p = n' /\ pc' # "idle") \/ p \in died' \/ \E r \in probes' : r.probe = p
    BY DEF ChainStep, run, IInv, AccountOK
  <2>2. result'.success => n' \in landed' /\ block'[n'] = result'.height
    BY DEF ChainStep, run, IInv, AccountOK, landed
  <2>3. \A r \in probes' : r.success => r.probe \in landed' /\ block'[r.probe] = r.height
    BY DEF ChainStep, run, IInv, AccountOK, landed
  <2>4. result'.error_type \in Refused => n' \notin (pending \union charged)'
    BY DEF ChainStep, run, IInv, AccountOK
  <2>5. \A r \in probes' : r.error_type \in Refused => r.probe \notin (pending \union charged)'
    BY DEF ChainStep, run, IInv, AccountOK
  <2> QED BY <2>1, <2>2, <2>3, <2>4, <2>5 DEF AccountOK
<1>3. charged' \subseteq Probe
  BY DEF charged
<1> QED BY <1>1, <1>2, <1>3, FeesKept DEF IInv

LEMMA NewBlockStep == IInv /\ NewBlock => IInv'
<1> SUFFICES ASSUME IInv, NewBlock PROVE IInv'
  OBVIOUS
<1>1. PICK included \in SUBSET pending : \E failing \in SUBSET included :
        /\ block' = [p \in Probe |-> IF p \in included THEN height' ELSE block[p]]
        /\ outOfGas' = outOfGas \union failing
        /\ pending' = pending \ included
  BY DEF NewBlock
<1>2. height \in Nat /\ height' = height + 1 /\ height' \in Height /\ pending \subseteq Probe \ charged
  BY DEF IInv, TypeOK, NewBlock, Height
<1>3. charged' = charged \union included
  BY <1>1, <1>2 DEF charged, IInv, TypeOK
<1>4. landed \subseteq landed'
  BY <1>1, <1>2, <1>3 DEF landed
<1>5. ChainStep
  <2>1. \A p \in charged : block'[p] = block[p]
    BY <1>1, <1>2 DEF charged
  <2> QED BY <1>1, <1>3, <1>4, <2>1 DEF ChainStep, NewBlock, IInv, TypeOK, run
<1>6. TypeOK'
  <2>1. block' \in [Probe -> 0 .. height']
    BY <1>1, <1>2 DEF IInv, TypeOK
  <2>2. pending' \subseteq Probe \ charged' /\ outOfGas' \subseteq charged'
    BY <1>1, <1>2, <1>3 DEF IInv, TypeOK
  <2>3. pruned' \subseteq landed' /\ seen' \subseteq charged'
    BY <1>3, <1>4 DEF NewBlock, IInv, TypeOK
  <2>4. \A r \in (probes \union {result})' :
          r.success \in BOOLEAN /\ r.height \in 0 .. height' /\ (r.success <=> r.height # 0)
    BY <1>2 DEF NewBlock, run, IInv, TypeOK
  <2> QED BY <1>2, <2>1, <2>2, <2>3, <2>4 DEF NewBlock, run, IInv, TypeOK
<1> QED BY <1>5, <1>6, ChainKeeps

LEMMA EvictStep == IInv /\ Evict => IInv'
<1> SUFFICES ASSUME IInv, Evict PROVE IInv'
  OBVIOUS
<1>1. charged' = charged /\ landed' = landed
  BY DEF Evict, charged, landed
<1>2. pending' \subseteq pending
  BY DEF Evict
<1>3. ChainStep
  BY <1>1, <1>2 DEF ChainStep, Evict, IInv, TypeOK
<1>4. TypeOK'
  BY <1>1, <1>2 DEF Evict, run, IInv, TypeOK
<1> QED BY <1>3, <1>4, ChainKeeps

LEMMA TopUpStep == IInv /\ TopUp => IInv'
<1> SUFFICES ASSUME IInv, TopUp PROVE IInv'
  OBVIOUS
<1>1. charged' = charged /\ landed' = landed
  BY DEF TopUp, charged, landed
<1>2. topped' \in 0 .. MaxTopUp /\ topped <= topped' /\ seenTop' \in 0 .. topped'
  BY DEF TopUp, IInv, TypeOK
<1>3. ChainStep
  BY <1>1, <1>2 DEF ChainStep, TopUp, IInv, TypeOK
<1>4. TypeOK'
  BY <1>1, <1>2 DEF TopUp, run, IInv, TypeOK
<1> QED BY <1>3, <1>4, ChainKeeps

LEMMA SyncStep == IInv /\ Sync => IInv'
<1> SUFFICES ASSUME IInv, Sync PROVE IInv'
  OBVIOUS
<1>1. charged' = charged /\ landed' = landed
  BY DEF Sync, charged, landed
<1>2. seen' = charged /\ seenTop' \in 0 .. topped' /\ seenTop <= seenTop'
  BY DEF Sync, IInv, TypeOK
<1>3. ChainStep
  BY <1>1, <1>2 DEF ChainStep, Sync, IInv, TypeOK
<1>4. TypeOK'
  BY <1>1, <1>2 DEF Sync, run, IInv, TypeOK
<1> QED BY <1>3, <1>4, ChainKeeps

LEMMA PruneStep == IInv /\ Prune => IInv'
<1> SUFFICES ASSUME IInv, Prune PROVE IInv'
  OBVIOUS
<1>1. charged' = charged /\ landed' = landed
  BY DEF Prune, charged, landed
<1>2. pruned' \subseteq landed
  BY DEF Prune, IInv, TypeOK
<1>3. ChainStep
  BY <1>1 DEF ChainStep, Prune, IInv, TypeOK
<1>4. TypeOK'
  BY <1>1, <1>2 DEF Prune, run, IInv, TypeOK
<1> QED BY <1>3, <1>4, ChainKeeps

-----------------------------------------------------------------------------
(* The submit job.                                                         *)

\* A step that leaves the chain, and the light node's view of it, alone.
LEMMA ChainUnchanged ==
  ASSUME UNCHANGED <<height, block, outOfGas, pruned, topped, seen, seenTop>>
  PROVE  charged' = charged /\ landed' = landed
BY DEF charged, landed

\* A step that leaves alone what the fees depend on.
LEMMA FeesUnchanged ==
  ASSUME IInv, UNCHANGED <<topped, seen, seenTop, n, probes, measured, stale>>, before' \in {before, {}}
  PROVE  FeeOK' /\ FeeExplained'
<1>1. FeeExplained'
  BY DEF IInv, FeeExplained
<1>2. \A b \in before' : \E s \in SUBSET seen', t \in 0 .. seenTop' : ReadBefore(b, s, t)'
  BY DEF IInv, FeeOK, ReadBefore, Balance, Shown
<1>3. measured' <= FEE * Cardinality(seen') /\ Shown' \subseteq seen'
  BY DEF IInv, FeeOK, Shown
<1> QED BY <1>1, <1>2, <1>3 DEF FeeOK

LEMMA StartStep == IInv /\ Start => IInv'
<1> SUFFICES ASSUME IInv, Start PROVE IInv'
  OBVIOUS
<1>1. charged' = charged /\ landed' = landed
  BY ChainUnchanged DEF Start, chain
<1>2. /\ n \in Nat /\ n' = n + 1 /\ n' \in Probe
      /\ pending \union charged \subseteq 1 .. n /\ seen \subseteq charged
      /\ seen \in SUBSET Probe /\ seenTop \in Nat
  BY DEF Start, IInv, RunOK, TypeOK, Probe, charged
<1>3. before' = {} \/ before' = {Balance(seen, seenTop)}
  BY DEF Start, BalanceAnswers
<1>4. TypeOK'
  <2>1. before' \in SUBSET Int
    BY <1>2, <1>3, BalanceType
  <2>2. n' \in 0 .. MaxProbe /\ pc' \in {"idle", "submit", "wait", "answered"}
    BY <1>2 DEF Start, Probe
  <2>3. UNCHANGED <<height, topped, seenTop, block, pending, outOfGas, pruned, seen>>
    BY DEF Start, chain
  <2>4. UNCHANGED <<result, probes, measured, stale, died>>
    BY DEF Start
  <2>5. \A r \in probes : r.probe \in 1 .. n' /\ r.fee \in SUBSET Int
    BY <1>2 DEF IInv, TypeOK
  <2>6. TypeOK
    BY DEF IInv
  <2> QED BY <1>1, <2>1, <2>2, <2>3, <2>4, <2>5, <2>6 DEF TypeOK
<1>5. RunOK'
  BY <1>1, <1>2 DEF Start, chain, IInv, RunOK, TypeOK
<1>6. AccountOK'
  <2>1. result = NoResult
    BY DEF Start, IInv, RunOK
  <2> QED BY <1>1, <2>1 DEF Start, chain, IInv, AccountOK, NoResult, Refused
<1>7. FeeOK'
  <2>1. \A b \in before' : \E s \in SUBSET seen', t \in 0 .. seenTop' : ReadBefore(b, s, t)'
    <3> SUFFICES ASSUME NEW b \in before' PROVE ReadBefore(b, seen, seenTop)'
      BY <1>2 DEF Start, chain
    <3>1. b = Balance(seen, seenTop)
      BY <1>3
    <3>2. n' \notin seen
      BY <1>2
    <3> QED BY <3>1, <3>2 DEF Start, chain, IInv, FeeOK, ReadBefore, Balance, Shown
  <2> QED BY <2>1 DEF Start, chain, IInv, FeeOK, Shown
<1>8. FeeExplained'
  BY DEF Start, chain, IInv, FeeExplained
<1> QED BY <1>4, <1>5, <1>6, <1>7, <1>8 DEF IInv

LEMMA SubmitStep == IInv /\ Submit => IInv'
<1> SUFFICES ASSUME IInv, Submit PROVE IInv'
  OBVIOUS
<1>1. charged' = charged /\ landed' = landed
  BY ChainUnchanged DEF Submit
<1>2. n \in Probe /\ n \notin charged /\ n \in 1 .. n /\ pending' \subseteq pending \union {n} /\ result = NoResult
  BY DEF Submit, IInv, RunOK, Probe
<1>3. TypeOK'
  BY <1>1, <1>2 DEF Submit, IInv, TypeOK
<1>4. RunOK'
  BY <1>1, <1>2 DEF Submit, IInv, RunOK
<1>5. AccountOK'
  <2>1. \A r \in probes : r.probe # n
    BY DEF Submit, IInv, RunOK
  <2> QED BY <1>1, <1>2, <2>1 DEF Submit, IInv, AccountOK, NoResult, Refused
<1>6. FeeOK' /\ FeeExplained'
  BY FeesUnchanged DEF Submit
<1> QED BY <1>3, <1>4, <1>5, <1>6 DEF IInv

LEMMA AnswerStep == IInv /\ Answer => IInv'
<1> SUFFICES ASSUME IInv, Answer PROVE IInv'
  OBVIOUS
<1>1. charged' = charged /\ landed' = landed
  BY ChainUnchanged DEF Answer, chain
<1>2. PICK resp \in Responses : MayRespond(resp) /\ result' \in SubmitResults(resp)
  BY DEF Answer
<1>3. \/ result' = [success |-> FALSE, error_type |-> ErrorType(resp), height |-> 0]
      \/ result' = [success |-> FALSE, error_type |-> "bad_response", height |-> 0]
      \/ n \in landed /\ result' = [success |-> TRUE, error_type |-> "none", height |-> block[n]]
  BY <1>2 DEF SubmitResults, MayRespond
<1>4. n \in landed => block[n] \in 0 .. height /\ block[n] # 0
  BY DEF IInv, TypeOK, landed, charged
<1>5. TypeOK'
  <2>1. /\ result'.success \in BOOLEAN /\ result'.height \in 0 .. height
        /\ result'.success <=> result'.height # 0
    <3>1. 0 \in 0 .. height
      BY DEF IInv, TypeOK, Height
    <3>2. CASE result'.success = FALSE /\ result'.height = 0
      BY <3>1, <3>2
    <3>3. CASE n \in landed /\ result'.success = TRUE /\ result'.height = block[n]
      BY <1>4, <3>3
    <3>4. \/ result'.success = FALSE /\ result'.height = 0
          \/ n \in landed /\ result'.success = TRUE /\ result'.height = block[n]
      <4>1. ASSUME NEW e, result' = [success |-> FALSE, error_type |-> e, height |-> 0]
            PROVE  result'.success = FALSE /\ result'.height = 0
        BY <4>1
      <4>2. ASSUME result' = [success |-> TRUE, error_type |-> "none", height |-> block[n]]
            PROVE  result'.success = TRUE /\ result'.height = block[n]
        BY <4>2
      <4> QED BY <1>3, <4>1, <4>2, Zenon
    <3> QED BY <3>2, <3>3, <3>4
  <2>2. \A r \in probes : r.success \in BOOLEAN /\ r.height \in 0 .. height /\ (r.success <=> r.height # 0)
    BY DEF IInv, TypeOK
  <2> QED BY <1>1, <2>1, <2>2 DEF Answer, chain, IInv, TypeOK
<1>6. RunOK'
  BY <1>1 DEF Answer, chain, IInv, RunOK
<1>7. AccountOK'
  <2>1. result'.success => n \in landed /\ block[n] = result'.height
    BY <1>3
  <2>2. result'.error_type \in Refused => n \notin pending \union charged
    <3> SUFFICES ASSUME result'.error_type \in Refused PROVE n \notin pending \union charged
      OBVIOUS
    <3>1. ErrorType(resp) \in Refused
      BY <1>3 DEF Refused
    <3> QED BY <1>2, <3>1, RefusedByName DEF MayRespond
  <2> QED BY <1>1, <2>1, <2>2 DEF Answer, chain, IInv, AccountOK
<1>8. FeeOK' /\ FeeExplained'
  BY FeesUnchanged DEF Answer, chain
<1> QED BY <1>5, <1>6, <1>7, <1>8 DEF IInv

\* The fees a run can take from its two balances.
LEMMA Measured ==
  ASSUME IInv, Record, result.success, NEW after \in BalanceAnswers, NEW f \in FeePaid(after)
  PROVE  /\ f \in Int /\ measured + f <= FEE * Cardinality(seen)
         /\ f <= FEE * (1 + Cardinality((1 .. n - 1) \ Shown))
         /\ f >= (IF n \in seen THEN FEE ELSE 0) - TOP_UP * topped
<1> DEFINE rest == (1 .. n - 1) \ Shown
<1>1. PICK b \in before : f = b - Balance(seen, seenTop)
  BY DEF FeePaid, BalanceAnswers
<1>2. PICK s \in SUBSET seen, t \in 0 .. seenTop : ReadBefore(b, s, t)
  BY DEF IInv, FeeOK
<1>3. n \in Probe /\ seen \subseteq 1 .. n /\ seen \in SUBSET Probe
  BY DEF Record, IInv, RunOK, TypeOK, charged
<1>4. /\ n \in seen => {n} \in SUBSET (seen \ s)
      /\ seen \ s \in SUBSET (rest \union {n})
      /\ rest \union {n} \in SUBSET Probe /\ rest \in SUBSET (rest \union {n}) /\ n \notin rest
      /\ seen \ s \in SUBSET Probe
  BY <1>2, <1>3 DEF ReadBefore, Probe
<1> DEFINE c == Cardinality(seen) - Cardinality(s)
<1>5. /\ Cardinality(seen) \in Int /\ Cardinality(s) \in Int
      /\ c = Cardinality(seen \ s) /\ c \in Int
  BY <1>3, Sets
<1> DEFINE least == IF n \in seen THEN 1 ELSE 0
<1>6. least \in Int /\ least <= c
  <2>1. Cardinality({n}) = 1
    BY FS_Singleton
  <2>2. n \in seen => Cardinality({n}) <= Cardinality(seen \ s)
    BY <1>4, Sets
  <2>3. Cardinality(seen \ s) \in Nat
    BY <1>4, Sets
  <2> HIDE DEF c
  <2> QED BY <1>5, <2>1, <2>2, <2>3
<1>7. Cardinality(rest) \in Int /\ c <= 1 + Cardinality(rest)
  <2>1. /\ Cardinality(seen \ s) <= Cardinality(rest \union {n})
        /\ Cardinality((rest \union {n}) \ rest) = Cardinality(rest \union {n}) - Cardinality(rest)
        /\ Cardinality(rest) \in Nat /\ Cardinality(rest \union {n}) \in Nat
    BY <1>4, Sets
  <2>2. (rest \union {n}) \ rest = {n}
    BY <1>4
  <2>3. Cardinality({n}) = 1
    BY FS_Singleton
  <2>4. Cardinality((rest \union {n}) \ rest) = 1
    BY <2>2, <2>3, Zenon
  <2> HIDE DEF c, rest
  <2> QED BY <1>5, <2>1, <2>4
<1> DEFINE tt == TOP_UP * t
           ts == TOP_UP * seenTop
           tp == TOP_UP * topped
           fs == FEE * Cardinality(s)
           fw == FEE * Cardinality(seen)
<1>8. /\ tt \in Int /\ ts \in Int /\ tp \in Int /\ 0 <= tt /\ tt <= ts /\ ts <= tp
  <2>1. t \in Int /\ seenTop \in Int /\ topped \in Int /\ 0 <= t /\ t <= seenTop /\ seenTop <= topped
    BY DEF IInv, TypeOK
  <2>2. TOP_UP * 0 = 0
    OBVIOUS
  <2> QED BY <2>1, <2>2, Times
<1>9. /\ fs \in Int /\ fw \in Int /\ FEE * c = fw - fs
      /\ FEE * least <= fw - fs /\ fw - fs <= FEE * (1 + Cardinality(rest))
  <2>1. FEE * c = fw - fs
    BY <1>5
  <2>2. FEE * least \in Int /\ FEE * least <= FEE * c
    BY <1>5, <1>6, Times
  <2>3. FEE * c <= FEE * (1 + Cardinality(rest))
    BY <1>5, <1>7, Times
  <2>5. fs \in Int /\ fw \in Int
    BY <1>5
  <2> HIDE DEF least
  <2> QED BY <2>1, <2>2, <2>3, <2>5
<1>10. f = tt - ts + fw - fs
  <2>1. b = BALANCE + tt - fs /\ Balance(seen, seenTop) = BALANCE + ts - fw
    BY <1>2 DEF ReadBefore, Balance
  <2> HIDE DEF tt, ts, tp, fs, fw, least
  <2> QED BY <1>1, <1>8, <1>9, <2>1
<1>11. measured \in Int /\ measured <= fs
  BY <1>2 DEF ReadBefore, IInv, TypeOK
<1>12. FEE * (1 + Cardinality(rest)) \in Int
  BY <1>7
<1> DEFINE most == FEE * (1 + Cardinality(rest))
<1>13. f \in Int /\ measured + f <= fw /\ f <= most /\ f >= FEE * least - tp
  <2>1. FEE * least \in Int /\ 0 <= FEE * least
    OBVIOUS
  <2> HIDE DEF tt, ts, tp, fs, fw, most, rest, c, least
  <2>2. fw - fs <= most /\ most \in Int
    BY <1>9, <1>12 DEF most
  <2> QED BY <1>8, <1>9, <1>10, <1>11, <2>1, <2>2
<1>14. FEE * least = IF n \in seen THEN FEE ELSE 0
  OBVIOUS
<1> QED BY <1>13, <1>14

LEMMA RecordStep == IInv /\ Record => IInv'
<1> SUFFICES ASSUME IInv, Record PROVE IInv'
  OBVIOUS
<1>1. charged' = charged /\ landed' = landed
  BY ChainUnchanged DEF Record, chain
<1>2. PICK after \in IF result.success THEN BalanceAnswers ELSE {{}} :
        /\ probes' = probes \union Rows(FeePaid(after))
        /\ measured' = IF FeePaid(after) = {} THEN measured
                       ELSE measured + (CHOOSE f \in FeePaid(after) : TRUE)
  BY DEF Record
<1> DEFINE new == [probe |-> n, fee |-> FeePaid(after), success |-> result.success,
                   error_type |-> result.error_type, height |-> result.height]
<1>3. /\ probes' = probes \union {new}
      /\ new.probe = n /\ new.fee = FeePaid(after) /\ new.success = result.success
      /\ new.error_type = result.error_type /\ new.height = result.height
  BY <1>2 DEF Rows
<1> HIDE DEF new
<1>4. ASSUME NEW f \in FeePaid(after)
      PROVE  /\ result.success
             /\ f \in Int /\ measured + f <= FEE * Cardinality(seen)
             /\ f <= FEE * (1 + Cardinality((1 .. n - 1) \ Shown))
             /\ f >= (IF n \in seen THEN FEE ELSE 0) - TOP_UP * topped
  <2>1. result.success
    BY <1>2 DEF FeePaid
  <2>2. after \in BalanceAnswers
    BY <1>2, <2>1
  <2> QED BY <2>1, <2>2, Measured
<1>5. n \in Probe /\ n \in 1 .. n /\ pc' = "idle" /\ result' = NoResult /\ before' = {}
      /\ UNCHANGED <<chain, n, died>>
  BY DEF Record, IInv, RunOK, Probe
<1>6. TypeOK'
  <2>1. 0 \in 0 .. height
    BY DEF IInv, TypeOK, Height
  <2>2. \A r \in (probes \union {result})' :
          r.success \in BOOLEAN /\ r.height \in 0 .. height' /\ (r.success <=> r.height # 0)
    <3>1. result'.success = FALSE /\ result'.height = 0
      BY <1>5 DEF NoResult
    <3>2. new.success \in BOOLEAN /\ new.height \in 0 .. height /\ (new.success <=> new.height # 0)
      BY <1>3 DEF IInv, TypeOK
    <3> QED BY <1>3, <1>5, <2>1, <3>1, <3>2 DEF chain, IInv, TypeOK
  <2>3. \A r \in probes' : r.probe \in 1 .. n' /\ r.fee \in SUBSET Int
    BY <1>3, <1>4, <1>5 DEF IInv, TypeOK
  <2>4. measured' \in Int
    BY <1>2, <1>4 DEF IInv, TypeOK
  <2>5. pending' \subseteq Probe \ charged' /\ outOfGas' \subseteq charged' /\ pruned' \subseteq landed' /\ seen' \subseteq charged'
    BY <1>1, <1>5 DEF chain, IInv, TypeOK
  <2>6. stale' \subseteq Probe
    BY <1>5 DEF Record, IInv, TypeOK
  <2> QED BY <1>5, <2>2, <2>3, <2>4, <2>5, <2>6 DEF chain, IInv, TypeOK
<1>7. RunOK'
  BY <1>1, <1>5 DEF chain, IInv, RunOK
<1>8. AccountOK'
  <2>1. \A p \in (pending \union charged)' : p \in died' \/ \E r \in probes' : r.probe = p
    BY <1>1, <1>3, <1>5 DEF chain, IInv, AccountOK
  <2>2. \A r \in probes' :
          /\ r.success => r.probe \in landed' /\ block'[r.probe] = r.height
          /\ r.error_type \in Refused => r.probe \notin (pending \union charged)'
    BY <1>1, <1>3, <1>5 DEF chain, IInv, AccountOK
  <2> QED BY <1>5, <2>1, <2>2 DEF AccountOK, NoResult, Refused
<1>9. /\ stale' = IF result.success /\ n \notin seen THEN stale \union {n} ELSE stale
      /\ Shown \ {n} = Shown' \ {n} /\ (n \in Shown' => n \in seen \/ n \in Shown)
  <2>1. stale' = IF result.success /\ n \notin seen THEN stale \union {n} ELSE stale
    BY DEF Record
  <2>2. {r.probe : r \in {q \in probes' : q.success}}
          = {r.probe : r \in {q \in probes : q.success}} \union (IF result.success THEN {n} ELSE {})
    BY <1>3
  <2> QED BY <2>1, <2>2 DEF Shown
<1>10. FeeOK'
  <2>1. measured' <= FEE * Cardinality(seen')
    <3>1. measured <= FEE * Cardinality(seen) /\ seen' = seen
      BY <1>5 DEF chain, IInv, FeeOK
    <3> QED BY <1>2, <1>4, <3>1
  <2>2. Shown' \subseteq seen'
    BY <1>5, <1>9 DEF chain, Record, IInv, FeeOK
  <2> QED BY <1>5, <2>1, <2>2 DEF FeeOK
<1>11. FeeExplained'
  <2> SUFFICES ASSUME NEW r \in probes', NEW fee \in r.fee
               PROVE  /\ fee <= FEE * (1 + Cardinality((1 .. r.probe - 1) \ Shown'))
                      /\ fee >= Own(r.probe)' - TOP_UP * topped
    BY <1>5 DEF chain, FeeExplained, Shown, Own
  <2>1. r.probe \in 1 .. n
    BY <1>3, <1>5 DEF IInv, TypeOK
  <2>2. (1 .. r.probe - 1) \ Shown' = (1 .. r.probe - 1) \ Shown
    BY <1>5, <1>9, <2>1 DEF Probe
  <2>3. /\ fee <= FEE * (1 + Cardinality((1 .. r.probe - 1) \ Shown))
        /\ fee >= Own(r.probe)' - TOP_UP * topped
    <3>1. CASE r \in probes
      <4>1. r.probe # n
        BY <3>1 DEF Record, IInv, RunOK
      <4>2. Own(r.probe)' = Own(r.probe)
        BY <1>9, <4>1 DEF Own
      <4> QED BY <3>1, <4>2 DEF IInv, FeeExplained, Shown, Own
    <3>2. CASE r = new
      <4>1. fee \in FeePaid(after) /\ r.probe = n
        BY <1>3, <3>2
      <4>2. /\ result.success /\ fee \in Int
            /\ fee <= FEE * (1 + Cardinality((1 .. n - 1) \ Shown))
            /\ fee >= (IF n \in seen THEN FEE ELSE 0) - TOP_UP * topped
        BY <1>4, <4>1
      <4>3. Own(r.probe)' = IF r.probe \in stale' THEN 0 ELSE FEE
        BY DEF Own
      <4>4. Own(r.probe)' = 0 \/ (n \in seen /\ Own(r.probe)' = FEE)
        <5>1. CASE n \in seen
          BY <4>3, <5>1
        <5>2. CASE n \notin seen
          <6>1. n \in stale'
            BY <1>9, <4>2, <5>2
          <6> QED BY <4>1, <4>3, <6>1
        <5> QED BY <5>1, <5>2
      <4>5. fee >= Own(r.probe)' - TOP_UP * topped
        <5>1. topped \in Int
          BY DEF IInv, TypeOK
        <5>2. TOP_UP * topped \in Int
          BY <5>1
        <5> QED BY <4>2, <4>4, <5>2
      <4> QED BY <4>1, <4>2, <4>5
    <3> QED BY <1>3, <3>1, <3>2
  <2> QED BY <2>2, <2>3
<1> QED BY <1>6, <1>7, <1>8, <1>10, <1>11 DEF IInv

LEMMA DieStep == IInv /\ Die => IInv'
<1> SUFFICES ASSUME IInv, Die PROVE IInv'
  OBVIOUS
<1>1. charged' = charged /\ landed' = landed
  BY ChainUnchanged DEF Die, chain
<1>2. TypeOK'
  <2>1. 0 \in 0 .. height
    BY DEF IInv, TypeOK, Height
  <2>2. result'.success = FALSE /\ result'.height = 0
    BY DEF Die, NoResult
  <2>3. \A r \in (probes \union {result})' :
          r.success \in BOOLEAN /\ r.height \in 0 .. height' /\ (r.success <=> r.height # 0)
    BY <2>1, <2>2 DEF Die, chain, IInv, TypeOK
  <2>4. died' \subseteq Probe /\ before' \in SUBSET Int /\ pc' \in {"idle", "submit", "wait", "answered"}
    BY DEF Die, IInv, TypeOK, RunOK
  <2>5. pending' \subseteq Probe \ charged' /\ outOfGas' \subseteq charged' /\ pruned' \subseteq landed' /\ seen' \subseteq charged'
    BY <1>1 DEF Die, chain, IInv, TypeOK
  <2> QED BY <2>3, <2>4, <2>5 DEF Die, chain, IInv, TypeOK
<1>3. RunOK'
  BY <1>1 DEF Die, chain, IInv, RunOK
<1>4. AccountOK'
  BY <1>1 DEF Die, chain, IInv, AccountOK, NoResult, Refused
<1>5. FeeOK' /\ FeeExplained'
  BY FeesUnchanged DEF Die, chain
<1> QED BY <1>2, <1>3, <1>4, <1>5 DEF IInv

LEMMA RetrieveStep == IInv /\ (Retrieve \/ UNCHANGED vars) => IInv'
<1> SUFFICES ASSUME IInv, UNCHANGED <<chain, run, probes, measured, stale, died>> PROVE IInv'
  BY DEF Retrieve, vars
<1>1. charged' = charged /\ landed' = landed
  BY ChainUnchanged DEF chain
<1>2. TypeOK' /\ RunOK'
  BY <1>1 DEF chain, run, IInv, TypeOK, RunOK
<1>3. AccountOK'
  BY <1>1 DEF chain, run, IInv, AccountOK
<1>4. FeeOK' /\ FeeExplained'
  BY FeesUnchanged DEF chain, run
<1> QED BY <1>2, <1>3, <1>4 DEF IInv

-----------------------------------------------------------------------------
\* The inductive invariant holds in every reachable state.
THEOREM Invariance == Spec => []IInv
<1>1. IInv /\ [Next]_vars => IInv'
  BY NewBlockStep, EvictStep, TopUpStep, SyncStep, PruneStep, StartStep, SubmitStep,
     AnswerStep, RecordStep, DieStep, RetrieveStep DEF Next
<1> QED BY Initially, <1>1, PTL DEF Spec

\* Every variable keeps its type: in particular no payload is pending and in a block at
\* once, the light node never knows a charge the chain does not have, and a row of probes
\* has a height exactly when it is a success.
THEOREM TypeCorrect == Spec => []TypeOK
<1>1. IInv => TypeOK
  BY DEF IInv
<1> QED BY Invariance, <1>1, PTL

\* The fees submit.py records never add up to more than the account was charged.
THEOREM FeesAreWithinCharges == Spec => []FeesWithinCharges
<1>1. IInv => FeesWithinCharges
  <2> SUFFICES ASSUME IInv PROVE measured <= FEE * Cardinality(charged)
    BY DEF FeesWithinCharges
  <2>1. charged \in SUBSET Probe /\ seen \in SUBSET charged /\ measured \in Int
    BY DEF IInv, TypeOK, charged
  <2>2. /\ Cardinality(seen) \in Nat /\ Cardinality(charged) \in Nat
        /\ Cardinality(seen) <= Cardinality(charged)
    <3> HIDE DEF charged
    <3> QED BY <2>1, Sets, Zenon
  <2>3. /\ FEE * Cardinality(seen) \in Int /\ FEE * Cardinality(charged) \in Int
        /\ FEE * Cardinality(seen) <= FEE * Cardinality(charged)
    BY <2>2, Times
  <2>4. measured <= FEE * Cardinality(seen)
    BY DEF IInv, FeeOK
  <2> QED BY <2>1, <2>3, <2>4
<1> QED BY Invariance, <1>1, PTL

\* A recorded fee is what the probe cost, less top-ups, plus the cost of earlier probes that
\* were given up or recorded before the light node knew their charge; a probe recorded that
\* early may lack its own cost.  The two balances submit.py takes say no more than that.
THEOREM FeesAreExplained == Spec => []FeeExplained
<1>1. IInv => FeeExplained
  BY DEF IInv
<1> QED BY Invariance, <1>1, PTL

\* No transaction is charged without a row, unless the run that sent it is in progress or
\* died, and what submit.py records of a probe is true of the chain.
THEOREM BlobsAreAccountedFor == Spec => []ProbesAccountForBlobs
<1>1. IInv => ProbesAccountForBlobs
  BY DEF IInv, AccountOK, ProbesAccountForBlobs, Refused
<1> QED BY Invariance, <1>1, PTL

\* retrieve.py says that a probe survived only when it did, and reports a list of blobs that
\* is empty or has no match only when the network has lost the blob.
THEOREM VerdictsAreTrue == Spec => VerdictIsTrue
<1> DEFINE True == newest' # newest =>
        /\ newest'.verdict = "success" => newest'.probe \in landed \ pruned
        /\ newest'.verdict = "hash_mismatch" => newest'.probe \in pruned
        /\ newest'.info = "empty blob list" => newest'.probe \in pruned
<1>1. IInv /\ [Next]_vars => [True]_vars
  <2> SUFFICES ASSUME IInv, Next, newest' # newest PROVE True
    BY DEF vars
  <2>1. Retrieve
    BY DEF Next, NewBlock, Evict, TopUp, Sync, Prune, Start, Submit, Answer, Record, Die
  <2>2. PICK row \in probes : row.success /\
          \E blobs \in BlobLists(row.height), resp \in Responses :
          \E found \in Verdicts(row.probe, resp, blobs) :
            newest' = [probe |-> row.probe, verdict |-> found.verdict, info |-> found.info]
    BY <2>1 DEF Retrieve
  <2>3. PICK blobs \in BlobLists(row.height), resp \in Responses :
          \E found \in Verdicts(row.probe, resp, blobs) :
            newest' = [probe |-> row.probe, verdict |-> found.verdict, info |-> found.info]
    BY <2>2
  <2>4. PICK found \in Verdicts(row.probe, resp, blobs) :
            newest' = [probe |-> row.probe, verdict |-> found.verdict, info |-> found.info]
    BY <2>3
  <2>5. newest'.probe = row.probe /\ newest'.verdict = found.verdict /\ newest'.info = found.info
    BY <2>4
  <2>6. row.probe \in landed /\ block[row.probe] = row.height /\ row.probe # 0
    BY <2>2 DEF IInv, AccountOK, TypeOK
  <2>7. row.probe \in blobs <=> row.probe \notin pruned
    BY <2>2, <2>3, <2>6 DEF BlobLists, Blobs
  <2>8. /\ found.verdict = "success" => row.probe \in blobs
        /\ found.verdict = "hash_mismatch" \/ found.info = "empty blob list" => row.probe \notin blobs
    <3>1. CASE resp.success
      <4>1. found = IF row.probe \in blobs THEN [verdict |-> "success", info |-> "none"] ELSE Lost(blobs)
        BY <2>4, <3>1 DEF Verdicts
      <4>2. /\ Lost(blobs).verdict \in {"blob_not_found", "hash_mismatch"}
            /\ Lost(blobs).info \in {"empty blob list", "none matched"}
        BY DEF Lost
      <4>3. CASE row.probe \in blobs
        <5>1. found.verdict = "success" /\ found.info = "none"
          BY <4>1, <4>3
        <5> QED BY <4>3, <5>1
      <4>4. CASE row.probe \notin blobs
        <5>1. found.verdict # "success"
          BY <4>1, <4>2, <4>4
        <5> QED BY <4>4, <5>1
      <4> QED BY <4>3, <4>4
    <3>2. CASE ~resp.success
      <4>1. found = OfError(resp)
        BY <2>4, <3>2 DEF Verdicts
      <4>2. /\ OfError(resp).verdict = "blob_not_found" \/ OfError(resp).verdict = resp.error_type
            /\ OfError(resp).info \in {"no blobs in namespace", "none"}
        BY DEF OfError
      <4>3. resp.error_type \notin {"success", "hash_mismatch"}
        BY ResponseFacts
      <4> QED BY <4>1, <4>2, <4>3
    <3> QED BY <3>1, <3>2
  <2> QED BY <2>5, <2>6, <2>7, <2>8
<1> QED BY Invariance, <1>1, PTL DEF Spec, VerdictIsTrue

=============================================================================
