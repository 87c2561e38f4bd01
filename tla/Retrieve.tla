------------------------------- MODULE Retrieve -------------------------------
(***************************************************************************)
(* workers/{avail,celestia}/submit.py and retrieve.py: the self probe.     *)
(* Every PERIOD a payload is submitted, and at the ages of Buckets it is   *)
(* fetched again, once per bucket, by the retrieve run that finds its age  *)
(* within TOLERANCE of the bucket.  The two chains' jobs differ in the     *)
(* request only; the tables are kept apart by da_layer and ln_instance.    *)
(*                                                                         *)
(* Time is counted in ticks (of 30 s), as ages: the number of ticks that   *)
(* began since.  An event of age exactly n may be a little more or a       *)
(* little less than n ticks old.  Request outcomes are a BOOLEAN.          *)
(***************************************************************************)
EXTENDS Integers, Sequences, FiniteSets

CONSTANTS
    Worker,        \* retrieve processes
    PERIOD,        \* ticks between two firings of cron
    Buckets,       \* BUCKETS: the ages, in the order they are worked through
    TOLERANCE,     \* TOLERANCE_SEC
    HTTP_TIMEOUT,  \* HTTP_TIMEOUT_SEC, or the timeout of CelestiaRPC
    SUBMIT_MAX,    \* ticks until a submit run records its probe
    MaxLost        \* bound: retrieve runs that die

Bucket == DOMAIN Buckets

ASSUME TimeAssumption ==
    /\ PERIOD \in Nat \ {0} /\ TOLERANCE \in Nat /\ HTTP_TIMEOUT \in Nat \ {0}
    /\ SUBMIT_MAX \in Nat /\ MaxLost \in Nat
ASSUME BucketsAssumption ==
    /\ Buckets \in Seq(Nat \ {0}) /\ Len(Buckets) > 0
    /\ \A b \in Bucket : Buckets[b] % PERIOD = 0
    /\ \A a, b \in Bucket : a <= b => Buckets[a] <= Buckets[b]
\* The requests of a run fit in a period, probes are further apart than a window is
\* wide, and a probe is retrieved before its next period is over.
ASSUME MarginAssumption ==
    /\ Len(Buckets) * HTTP_TIMEOUT < PERIOD
    /\ SUBMIT_MAX + 2 * TOLERANCE < PERIOD
    /\ TOLERANCE + HTTP_TIMEOUT <= PERIOD

VARIABLES
    phase,       \* ticks since cron fired
    submitting,  \* whether the submit run has still to record its probe
    due,         \* whether the retrieve run has still to start
    probes,      \* successful probes: age, and buckets with a retrieval
    bucket,      \* each run's bucket, or 0 between runs
    todo,        \* the candidates (their ages) left in that bucket
    waited,      \* ticks the current request has taken
    readAt,      \* history: phase in which this period's run read each bucket
    lost         \* runs lost so far

vars == <<phase, submitting, due, probes, bucket, todo, waited, readAt, lost>>

\* Ages up to the point where no run can look at a probe any more.
Horizon == Buckets[Len(Buckets)] + PERIOD
Age == 0 .. Horizon
Probe == [age : Age, got : SUBSET Bucket]
Unread == PERIOD

-----------------------------------------------------------------------------
Init ==
    /\ phase = 0 /\ submitting = TRUE /\ due = TRUE
    /\ probes = {}
    /\ bucket = [w \in Worker |-> 0]
    /\ todo = [w \in Worker |-> {}]
    /\ waited = [w \in Worker |-> 0]
    /\ readAt = [b \in Bucket |-> Unread]
    /\ lost = 0

\* Mutation: requests have no timeout.
InTimeNoTimeout(w) == TRUE

\* timeout=HTTP_TIMEOUT_SEC
InTime(w) == todo[w] # {} => waited[w] < HTTP_TIMEOUT

\* Time passes, within requests only: the rest of a run takes none.
Tick ==
    /\ ~due
    /\ submitting => phase < SUBMIT_MAX
    /\ \A w \in Worker : bucket[w] # 0 => todo[w] # {} /\ InTime(w)
    /\ phase' = IF phase + 1 = PERIOD THEN 0 ELSE phase + 1
    /\ IF phase' = 0
         THEN submitting' = TRUE /\ due' = TRUE /\ readAt' = [b \in Bucket |-> Unread]
         ELSE UNCHANGED <<submitting, due, readAt>>
    /\ probes' = {[p EXCEPT !.age = @ + 1] : p \in {q \in probes : q.age < Horizon}}
    /\ todo' = [w \in Worker |-> {age + 1 : age \in todo[w]}]
    /\ waited' = [w \in Worker |-> IF todo[w] = {} THEN 0 ELSE waited[w] + 1]
    /\ UNCHANGED <<bucket, lost>>

\* submit.py main: a probe that fails, or gets no height, is no candidate ever.
Submit ==
    /\ submitting /\ submitting' = FALSE
    /\ \/ probes' = probes \union {[age |-> 0, got |-> {}]}
       \/ UNCHANGED probes
    /\ UNCHANGED <<phase, due, bucket, todo, waited, readAt, lost>>

-----------------------------------------------------------------------------
(* retrieve.py                                                             *)

Start(w) ==
    /\ due /\ bucket[w] = 0
    /\ due' = FALSE
    /\ bucket' = [bucket EXCEPT ![w] = 1]
    /\ UNCHANGED <<phase, submitting, probes, todo, waited, readAt, lost>>

\* Mutation: the ages are those of the start of the run.
WindowFromStart(b) ==
    LET Distance(p) == p.age - phase - Buckets[b]
    IN  {s \in SUBSET probes : \A p \in probes :
            /\ Distance(p) \in 1 - TOLERANCE .. TOLERANCE - 1 => p \in s
            /\ p \in s => Distance(p) \in -TOLERANCE .. TOLERANCE}

\* p.ts BETWEEN NOW() - age - TOLERANCE AND NOW() - age + TOLERANCE
Window(b) ==
    LET Distance(p) == p.age - Buckets[b]
    IN  {s \in SUBSET probes : \A p \in probes :
            /\ Distance(p) \in 1 - TOLERANCE .. TOLERANCE - 1 => p \in s
            /\ p \in s => Distance(p) \in -TOLERANCE .. TOLERANCE}

\* Mutation: earlier retrievals are not looked at.
UnretrievedAll(s, b) == s

\* NOT EXISTS a retrieval of the probe with the bucket's label
Unretrieved(s, b) == {p \in s : b \notin p.got}

\* The bucket after b, or the end of the run.
After(b) == IF b = Len(Buckets) THEN 0 ELSE b + 1

\* find_candidates for the next bucket; without candidates, on to the next.
FindCandidates(w) ==
    /\ bucket[w] # 0 /\ todo[w] = {}
    /\ \E s \in Window(bucket[w]) :
        LET candidates == {p.age : p \in Unretrieved(s, bucket[w])}
        IN  /\ todo' = [todo EXCEPT ![w] = candidates]
            /\ bucket' = IF candidates = {} THEN [bucket EXCEPT ![w] = After(@)] ELSE bucket
    /\ readAt' = [readAt EXCEPT ![bucket[w]] = phase]
    /\ waited' = [waited EXCEPT ![w] = 0]
    /\ UNCHANGED <<phase, submitting, due, probes, lost>>

\* Mutation: failed fetches are left out.
RecordedIfFound(found) == found

\* Every outcome of check_block is inserted.
Recorded(found) == TRUE

Oldest(ages) == {age \in ages : \A a \in ages : a <= age}

\* The oldest candidate's block is fetched and compared, and the outcome recorded.
Retrieve(w) ==
    /\ \E age \in Oldest(todo[w]), found \in BOOLEAN :
        /\ probes' = {IF p.age = age /\ Recorded(found)
                         THEN [p EXCEPT !.got = @ \union {bucket[w]}] ELSE p : p \in probes}
        /\ todo' = [todo EXCEPT ![w] = @ \ {age}]
    /\ bucket' = IF todo'[w] = {} THEN [bucket EXCEPT ![w] = After(@)] ELSE bucket
    /\ waited' = [waited EXCEPT ![w] = 0]
    /\ UNCHANGED <<phase, submitting, due, readAt, lost>>

\* The run dies; what it had not recorded counts as not read.
Die(w) ==
    /\ bucket[w] # 0
    /\ lost < MaxLost /\ lost' = lost + 1
    /\ readAt' = [b \in Bucket |-> IF b < bucket[w] THEN readAt[b] ELSE Unread]
    /\ bucket' = [bucket EXCEPT ![w] = 0]
    /\ todo' = [todo EXCEPT ![w] = {}]
    /\ waited' = [waited EXCEPT ![w] = 0]
    /\ UNCHANGED <<phase, submitting, due, probes>>

Next ==
    \/ Tick \/ Submit
    \/ \E w \in Worker : Start(w) \/ FindCandidates(w) \/ Retrieve(w) \/ Die(w)

Spec == Init /\ [][Next]_vars

-----------------------------------------------------------------------------
TypeOK ==
    /\ phase \in 0 .. PERIOD - 1
    /\ submitting \in BOOLEAN /\ due \in BOOLEAN
    /\ probes \subseteq Probe
    /\ bucket \in [Worker -> Bucket \union {0}]
    /\ todo \in [Worker -> SUBSET Age]
    /\ waited \in [Worker -> 0 .. HTTP_TIMEOUT]
    /\ readAt \in [Bucket -> 0 .. Unread]
    /\ lost \in 0 .. MaxLost

\* A run is over before cron starts the next one, even if every request takes
\* its full timeout: windows are too narrow for a second candidate.
RunsDoNotOverlap == due => \A w \in Worker : bucket[w] = 0

\* No probe is fetched twice for a bucket.  A window is narrower than a period,
\* but a slow run and the prompt one after it can both fall into it.
OncePerBucket ==
    [][\A w \in Worker : Retrieve(w) =>
        \A p \in probes : p.age \in Oldest(todo[w]) => bucket[w] \notin p.got]_vars

\* What is recorded under a bucket's label was fetched at about that age,
\* however late in the run: within the tolerance and the request's timeout.
LabelIsHonest ==
    [][\A w \in Worker : Retrieve(w) =>
        \A age \in Oldest(todo[w]) :
            age - Buckets[bucket[w]] \in -TOLERANCE .. TOLERANCE + HTTP_TIMEOUT]_vars

\* Ticks from the firing of cron to the probe's record.
Offset(p) == (phase - p.age) % PERIOD

\* A probe is passed over in a bucket only for lack of margin: when the period in
\* which it reaches the bucket's age is over it has its retrieval, unless the run
\* was lost, or read the bucket so late, or the probe had been recorded so late,
\* that the two delays differ by the tolerance.
PassedOverOnlyWhenLate ==
    phase = PERIOD - 1 =>
        \A p \in probes, b \in Bucket :
            p.age = Buckets[b] - Offset(p) + PERIOD - 1 =>
                \/ b \in p.got
                \/ \E w \in Worker : bucket[w] # 0
                \/ readAt[b] - Offset(p) \notin 1 - TOLERANCE .. TOLERANCE - 1

=============================================================================
