---------------------------- MODULE WatchdogProofs ----------------------------
(***************************************************************************)
(* Proofs about Watchdog, for any period, window, threshold and cooldown   *)
(* with a cooldown longer than the window.  What a watchdog run has read   *)
(* is not protected by anything: probes are recorded and time passes until *)
(* it restarts the client.  The evidence survives because probes age as    *)
(* fast as the run does, and the cooldown because only a run that restarts *)
(* logs a restart, and cron starts no second run before it is over.        *)
(*                                                                         *)
(* Two parts are about other jobs that watch: NodeMonitors, those at the   *)
(* Celestia node, and NamespaceMonitor.  They share no variable with the   *)
(* watchdog nor with each other.                                           *)
(***************************************************************************)
EXTENDS
    Watchdog, NodeMonitors, NamespaceMonitor,
    Sequences, FunctionTheorems, FiniteSetTheorems, TLAPS

\* A run is as old as the period it was started in, and so it is over before the next.
RunsKeepTheirPeriod ==
    /\ submit # "idle" => submitAge = minute
    /\ watchdog # "idle" => watchAge = minute
    /\ submit = "due" => minute = 0
    /\ watchdog = "due" => minute = 0

\* The failed probes of the window a watchdog run read, as it was then.
FailedThen == {p \in probes : ~p.ok /\ p.age - watchAge <= WINDOW_MIN}

\* The run was justified to go on, and still is.
Evidence ==
    watchdog \in {"cooldown", "restart"} =>
        /\ Cardinality(FailedThen) >= FAIL_THRESHOLD
        /\ \A p \in probes : p.ok => \/ p.age <= watchAge
                                     \/ p.age - watchAge >= WINDOW_MIN

\* No restart has been logged since the run looked.
Cooled == watchdog = "restart" => logged >= COOLDOWN_MIN

\* The event is written after the restart it confirms.
LoggedAfterwards == confirmed => logged <= restarted

IInv == TypeOK /\ RunsKeepTheirPeriod /\ Evidence /\ Cooled /\ LoggedAfterwards

-----------------------------------------------------------------------------
(* Constants, types and the probes.                                        *)

LEMMA Constants ==
    /\ PERIOD \in Nat /\ PERIOD > 0 /\ SUBMIT_MAX \in Nat /\ WATCHDOG_MAX \in Nat
    /\ 0 < SUBMIT_MAX /\ SUBMIT_MAX < PERIOD /\ 0 < WATCHDOG_MAX /\ WATCHDOG_MAX < PERIOD
    /\ WINDOW_MIN \in Nat /\ COOLDOWN_MIN \in Nat /\ FAIL_THRESHOLD \in Nat /\ FAIL_THRESHOLD > 0
    /\ MaxLost \in Nat /\ WINDOW_MIN > 0
    /\ WINDOW_MIN + WATCHDOG_MAX < COOLDOWN_MIN
BY TimeAssumption, LimitsAssumption, CooldownAssumption

LEMMA Types ==
    ASSUME TypeOK
    PROVE  /\ minute \in Nat /\ minute < PERIOD
           /\ submitAge \in Nat /\ submitAge <= SUBMIT_MAX
           /\ watchAge \in Nat /\ watchAge <= WATCHDOG_MAX
           /\ logged \in Nat /\ logged <= Never /\ restarted \in Nat /\ restarted <= Never
           /\ \A p \in probes : p \in Probe /\ p.age \in Nat /\ p.age <= WINDOW_MIN + WATCHDOG_MAX
<1>1. /\ minute \in Nat /\ minute < PERIOD
      /\ submitAge \in Nat /\ submitAge <= SUBMIT_MAX
      /\ watchAge \in Nat /\ watchAge <= WATCHDOG_MAX
  BY Constants DEF TypeOK
<1>2. logged \in Nat /\ logged <= Never /\ restarted \in Nat /\ restarted <= Never
  BY Constants DEF TypeOK, EventAge, Never
<1>3. \A p \in probes : p \in Probe /\ p.age \in Nat /\ p.age <= WINDOW_MIN + WATCHDOG_MAX
  BY Constants DEF TypeOK, Probe, ProbeAge
<1> QED
  BY <1>1, <1>2, <1>3

\* There are not more probes than ages and outcomes.
LEMMA ProbesAreFinite ==
    ASSUME NEW S, S \subseteq Probe
    PROVE  IsFiniteSet(S) /\ Cardinality(S) \in Nat
<1> DEFINE P == ProbeAge \X BOOLEAN
           f == [x \in P |-> [age |-> x[1], ok |-> x[2]]]
<1>1. IsFiniteSet(ProbeAge)
  BY Constants, FS_Interval DEF ProbeAge
<1>2. IsFiniteSet(BOOLEAN)
  <2>1. IsFiniteSet({TRUE})
    BY FS_Singleton
  <2>2. IsFiniteSet({TRUE} \union {FALSE})
    BY <2>1, FS_AddElement
  <2>3. BOOLEAN = {TRUE} \union {FALSE}
    OBVIOUS
  <2> QED
    BY <2>2, <2>3, Zenon
<1>3. IsFiniteSet(P)
  BY <1>1, <1>2, FS_Product
<1>4. f \in Surjection(P, Probe)
  <2>1. \A x \in P : f[x] \in Probe
    BY DEF Probe
  <2>2. f \in [P -> Probe]
    BY <2>1
  <2>3. \A p \in Probe : \E x \in P : f[x] = p
    <3> SUFFICES ASSUME NEW p \in Probe PROVE \E x \in P : f[x] = p
      OBVIOUS
    <3>1. <<p.age, p.ok>> \in P
      BY DEF Probe
    <3>2. f[<<p.age, p.ok>>] = [age |-> p.age, ok |-> p.ok]
      BY <3>1
    <3>3. p = [age |-> p.age, ok |-> p.ok]
      BY DEF Probe
    <3> QED
      BY <3>1, <3>2, <3>3
  <2> HIDE DEF f, P
  <2> QED
    BY <2>2, <2>3, Fun_IsSurj
<1> HIDE DEF f, P
<1>5. IsFiniteSet(Probe)
  BY <1>3, <1>4, FS_Surjection
<1>6. IsFiniteSet(S)
  BY <1>5, FS_Subset
<1> QED
  BY <1>6, FS_CardinalityType

\* A set of failures that loses none keeps its size, or grows.
LEMMA MoreFailures ==
    ASSUME NEW S, NEW T, S \subseteq T, T \subseteq Probe
    PROVE  /\ Cardinality(S) \in Nat /\ Cardinality(T) \in Nat
           /\ Cardinality(S) <= Cardinality(T)
<1>1. S \subseteq Probe
  OBVIOUS
<1>2. IsFiniteSet(T) /\ Cardinality(S) \in Nat /\ Cardinality(T) \in Nat
  BY <1>1, ProbesAreFinite
<1> QED
  BY <1>2, FS_Subset

\* A minute later there are as many of them: they are told apart by their ages.
LEMMA OlderFailures ==
    ASSUME NEW S, NEW T, S \subseteq Probe, T \subseteq Probe,
           \A p \in S : [p EXCEPT !.age = @ + 1] \in T
    PROVE  /\ Cardinality(S) \in Nat /\ Cardinality(T) \in Nat
           /\ Cardinality(S) <= Cardinality(T)
<1> DEFINE f == [p \in S |-> [p EXCEPT !.age = @ + 1]]
<1>1. f \in [S -> T]
  OBVIOUS
<1>2. \A p, q \in S : f[p] = f[q] => p = q
  <2> SUFFICES ASSUME NEW p \in S, NEW q \in S, f[p] = f[q]
               PROVE  p = q
    OBVIOUS
  <2>1. p \in Probe /\ q \in Probe
    OBVIOUS
  <2>2. /\ p = [age |-> p.age, ok |-> p.ok] /\ q = [age |-> q.age, ok |-> q.ok]
        /\ p.age \in Nat /\ q.age \in Nat
    BY <2>1, Constants DEF Probe, ProbeAge
  <2>3. f[p].age = p.age + 1 /\ f[q].age = q.age + 1
    BY <2>1 DEF Probe
  <2>4. f[p].ok = p.ok /\ f[q].ok = q.ok
    BY <2>1 DEF Probe
  <2> HIDE DEF f
  <2>5. p.age = q.age
    BY <2>2, <2>3
  <2>6. p.ok = q.ok
    BY <2>4
  <2> QED
    BY <2>2, <2>5, <2>6
<1> HIDE DEF f
<1>3. f \in Injection(S, T)
  BY <1>1, <1>2, Fun_IsInj
<1>4. IsFiniteSet(T) /\ Cardinality(S) \in Nat /\ Cardinality(T) \in Nat
  BY ProbesAreFinite
<1> QED
  BY <1>3, <1>4, FS_Injection

-----------------------------------------------------------------------------
(* The invariant.                                                          *)

LEMMA InitEstablishesIInv == Init => IInv
<1> SUFFICES ASSUME Init PROVE IInv
  OBVIOUS
<1>1. TypeOK
  <2>1. Never \in EventAge /\ 0 \in 0 .. SUBMIT_MAX /\ 0 \in 0 .. WATCHDOG_MAX /\ 0 \in 0 .. MaxLost
    BY Constants DEF EventAge, Never
  <2>2. 0 \in 0 .. PERIOD - 1
    BY Constants
  <2> QED
    BY <2>1, <2>2 DEF Init, TypeOK
<1> QED
  BY <1>1 DEF Init, IInv, RunsKeepTheirPeriod, Evidence, Cooled, LoggedAfterwards

\* A run that goes on is within its time limit, and so within the period it began in.
LEMMA TickWithinPeriod ==
    ASSUME IInv, Tick
    PROVE  /\ minute' \in Nat /\ minute' < PERIOD
           /\ submit # "idle" => /\ minute' = minute + 1 /\ minute' # 0 /\ submit' = submit
                                 /\ submitAge < SUBMIT_MAX /\ submitAge' = submitAge + 1
           /\ watchdog # "idle" => /\ minute' = minute + 1 /\ minute' # 0 /\ watchdog' = watchdog
                                   /\ watchAge < WATCHDOG_MAX /\ watchAge' = watchAge + 1
<1>0. TypeOK /\ RunsKeepTheirPeriod
  BY DEF IInv
<1>1. /\ minute \in Nat /\ minute < PERIOD /\ submitAge \in Nat /\ watchAge \in Nat
  BY <1>0, Types
<1>2. minute' = (minute + 1) % PERIOD
  BY DEF Tick
<1>3. minute' \in Nat /\ minute' < PERIOD
  BY <1>1, <1>2, Constants
<1>4. minute + 1 < PERIOD => minute' = minute + 1 /\ minute' # 0
  BY <1>1, <1>2, Constants
<1>5. ASSUME submit # "idle"
      PROVE  /\ minute' = minute + 1 /\ minute' # 0 /\ submit' = submit
             /\ submitAge < SUBMIT_MAX /\ submitAge' = submitAge + 1
  <2>1. submitAge = minute /\ submitAge < SUBMIT_MAX
    BY <1>0, <1>5 DEF RunsKeepTheirPeriod, Tick, WithinLimits
  <2>2. minute + 1 < PERIOD
    BY <1>1, <2>1, Constants
  <2> QED
    BY <1>4, <1>5, <2>1, <2>2 DEF Tick
<1>6. ASSUME watchdog # "idle"
      PROVE  /\ minute' = minute + 1 /\ minute' # 0 /\ watchdog' = watchdog
             /\ watchAge < WATCHDOG_MAX /\ watchAge' = watchAge + 1
  <2>1. watchAge = minute /\ watchAge < WATCHDOG_MAX
    BY <1>0, <1>6 DEF RunsKeepTheirPeriod, Tick, WithinLimits
  <2>2. minute + 1 < PERIOD
    BY <1>1, <2>1, Constants
  <2> QED
    BY <1>4, <1>6, <2>1, <2>2 DEF Tick
<1> QED
  BY <1>3, <1>5, <1>6

\* What a probe becomes in a minute.
LEMMA OlderProbes ==
    ASSUME TypeOK, Tick
    PROVE  /\ probes' \subseteq Probe
           /\ \A p \in probes' : \E q \in probes :
                p = [q EXCEPT !.age = @ + 1] /\ p.age = q.age + 1 /\ p.ok = q.ok
           /\ \A q \in probes : q.age < WINDOW_MIN + WATCHDOG_MAX =>
                [q EXCEPT !.age = @ + 1] \in probes'
<1> DEFINE aged(p) == [p EXCEPT !.age = @ + 1]
           kept == {q \in probes : q.age < WINDOW_MIN + WATCHDOG_MAX}
<1>1. probes' = {aged(p) : p \in kept}
  BY DEF Tick
<1>2. \A p \in kept : p \in probes /\ p \in Probe /\ p.age \in Nat /\ p.age < WINDOW_MIN + WATCHDOG_MAX
  BY Types
<1>3. \A p \in kept : aged(p).age = p.age + 1 /\ aged(p).ok = p.ok /\ aged(p) \in Probe
  BY <1>2, Constants DEF Probe, ProbeAge
<1>4. \A q \in probes : q.age < WINDOW_MIN + WATCHDOG_MAX => aged(q) \in probes'
  BY <1>1
<1>5. \A p \in probes' : \E q \in kept : p = aged(q)
  BY <1>1
<1>6. \A p \in probes' : \E q \in probes : p = aged(q) /\ p.age = q.age + 1 /\ p.ok = q.ok
  <2> HIDE DEF aged, kept
  <2> QED
    BY <1>2, <1>3, <1>5, Zenon
<1>7. probes' \subseteq Probe
  <2> HIDE DEF aged, kept
  <2> QED
    BY <1>3, <1>5
<1> QED
  BY <1>4, <1>6, <1>7

LEMMA TickPreservesIInv == IInv /\ Tick => IInv'
<1> SUFFICES ASSUME IInv, Tick PROVE IInv'
  OBVIOUS
<1>0. TypeOK /\ RunsKeepTheirPeriod /\ Evidence /\ Cooled /\ LoggedAfterwards
  BY DEF IInv
<1>1. /\ minute' \in Nat /\ minute' < PERIOD
      /\ submit # "idle" => /\ minute' = minute + 1 /\ minute' # 0 /\ submit' = submit
                            /\ submitAge < SUBMIT_MAX /\ submitAge' = submitAge + 1
      /\ watchdog # "idle" => /\ minute' = minute + 1 /\ minute' # 0 /\ watchdog' = watchdog
                              /\ watchAge < WATCHDOG_MAX /\ watchAge' = watchAge + 1
  BY TickWithinPeriod
<1>2. /\ submit' = IF minute' = 0 THEN "due" ELSE submit
      /\ watchdog' = IF minute' = 0 THEN "due" ELSE watchdog
      /\ submit = "idle" => submitAge' = 0
      /\ watchdog = "idle" => watchAge' = 0
      /\ submit # "due" /\ watchdog # "due"
      /\ logged' = Older(logged) /\ restarted' = Older(restarted)
      /\ lc' = lc /\ confirmed' = confirmed /\ lost' = lost
  BY DEF Tick
<1>3. /\ submitAge \in Nat /\ watchAge \in Nat
      /\ logged \in Nat /\ logged <= Never /\ restarted \in Nat /\ restarted <= Never
  BY <1>0, Types
<1>4. /\ logged' \in Nat /\ logged' <= Never /\ logged <= logged'
      /\ restarted' \in Nat /\ restarted' <= Never
      /\ logged <= restarted => logged' <= restarted'
  BY <1>2, <1>3, Constants DEF Older, Never
<1>5. TypeOK'
  <2>1. minute' \in 0 .. PERIOD - 1
    BY <1>1, Constants
  <2>2. submit' \in {"idle", "due", "ok", "failed", "timeout"}
    BY <1>0, <1>2 DEF TypeOK
  <2>3. watchdog' \in {"idle", "due", "cooldown", "restart", "wait"}
    BY <1>0, <1>2 DEF TypeOK
  <2>4. submitAge' \in 0 .. SUBMIT_MAX
    BY <1>1, <1>2, <1>3, Constants
  <2>5. watchAge' \in 0 .. WATCHDOG_MAX
    BY <1>1, <1>2, <1>3, Constants
  <2>6. probes' \subseteq Probe
    BY <1>0, OlderProbes
  <2>7. logged' \in EventAge /\ restarted' \in EventAge
    BY <1>4, Constants DEF EventAge, Never
  <2>8. lc' \in {"serving", "stuck", "down"} /\ confirmed' \in BOOLEAN /\ lost' \in 0 .. MaxLost
    BY <1>0, <1>2 DEF TypeOK
  <2> QED
    BY <2>1, <2>2, <2>3, <2>4, <2>5, <2>6, <2>7, <2>8 DEF TypeOK
<1>6. RunsKeepTheirPeriod'
  <2>1. submit' # "idle" => submitAge' = minute'
    <3>1. CASE submit = "idle"
      BY <1>2, <3>1
    <3>2. CASE submit # "idle"
      BY <1>0, <1>1, <3>2 DEF RunsKeepTheirPeriod
    <3> QED
      BY <3>1, <3>2
  <2>2. watchdog' # "idle" => watchAge' = minute'
    <3>1. CASE watchdog = "idle"
      BY <1>2, <3>1
    <3>2. CASE watchdog # "idle"
      BY <1>0, <1>1, <3>2 DEF RunsKeepTheirPeriod
    <3> QED
      BY <3>1, <3>2
  <2>3. (submit' = "due" => minute' = 0) /\ (watchdog' = "due" => minute' = 0)
    BY <1>2
  <2> QED
    BY <2>1, <2>2, <2>3 DEF RunsKeepTheirPeriod
<1>7. Evidence'
  <2> SUFFICES ASSUME watchdog' \in {"cooldown", "restart"}
               PROVE  /\ Cardinality(FailedThen') >= FAIL_THRESHOLD
                      /\ \A p \in probes' : p.ok => \/ p.age <= watchAge'
                                                   \/ p.age - watchAge' >= WINDOW_MIN
    BY DEF Evidence
  <2>1. watchdog \in {"cooldown", "restart"} /\ watchAge' = watchAge + 1 /\ watchAge < WATCHDOG_MAX
    BY <1>1, <1>2
  <2>2. /\ Cardinality(FailedThen) >= FAIL_THRESHOLD
        /\ \A p \in probes : p.ok => p.age <= watchAge \/ p.age - watchAge >= WINDOW_MIN
    BY <1>0, <2>1 DEF Evidence
  <2>3. /\ FailedThen \subseteq Probe /\ FailedThen' \subseteq Probe
    BY <1>0, OlderProbes DEF FailedThen, TypeOK
  <2>4. ASSUME NEW p \in FailedThen PROVE [p EXCEPT !.age = @ + 1] \in FailedThen'
    <3> DEFINE older == [p EXCEPT !.age = @ + 1]
    <3>1. p \in probes /\ p \in Probe /\ p.age \in Nat /\ ~p.ok /\ p.age - watchAge <= WINDOW_MIN
      BY <1>0, Types DEF FailedThen
    <3>2. p.age < WINDOW_MIN + WATCHDOG_MAX
      BY <1>3, <2>1, <3>1, Constants
    <3>3. older \in probes'
      BY <1>0, <3>1, <3>2, OlderProbes
    <3>4. ~older.ok
      BY <3>1 DEF Probe
    <3>5. older.age = p.age + 1
      BY <3>1 DEF Probe
    <3> HIDE DEF older
    <3>6. older.age - watchAge' <= WINDOW_MIN
      BY <1>3, <2>1, <3>1, <3>5, Constants
    <3>7. older \in FailedThen'
      BY <3>3, <3>4, <3>6 DEF FailedThen
    <3> QED
      BY <3>7 DEF older
  <2>5. Cardinality(FailedThen') >= FAIL_THRESHOLD
    <3>1. /\ Cardinality(FailedThen) \in Nat /\ Cardinality(FailedThen') \in Nat
          /\ Cardinality(FailedThen) <= Cardinality(FailedThen')
      BY <2>3, <2>4, OlderFailures
    <3> QED
      BY <2>2, <3>1, Constants
  <2>6. ASSUME NEW p \in probes', p.ok PROVE p.age <= watchAge' \/ p.age - watchAge' >= WINDOW_MIN
    <3>1. PICK q \in probes : p.age = q.age + 1 /\ p.ok = q.ok
      BY <1>0, OlderProbes
    <3>2. q.ok
      BY <2>6, <3>1, Zenon
    <3>3. q.age <= watchAge \/ q.age - watchAge >= WINDOW_MIN
      BY <2>2, <3>2
    <3>4. q.age \in Nat
      BY <1>0, Types
    <3>5. p.age = q.age + 1
      BY <3>1
    <3> QED
      BY <1>3, <2>1, <3>3, <3>4, <3>5, Constants
  <2> QED
    BY <2>5, <2>6
<1>8. Cooled'
  <2>1. watchdog' = "restart" => watchdog = "restart"
    BY <1>2
  <2>2. watchdog = "restart" => logged >= COOLDOWN_MIN
    BY <1>0 DEF Cooled
  <2> QED
    BY <1>3, <1>4, <2>1, <2>2, Constants DEF Cooled
<1>9. LoggedAfterwards'
  <2>1. confirmed' => logged <= restarted
    BY <1>0, <1>2 DEF LoggedAfterwards
  <2> QED
    BY <1>4, <2>1 DEF LoggedAfterwards
<1> QED
  BY <1>5, <1>6, <1>7, <1>8, <1>9 DEF IInv

\* A probe that is recorded is younger than the window a run has read, and takes none away.
LEMMA EvidenceKept ==
    ASSUME TypeOK, Evidence, probes' \subseteq Probe, probes \subseteq probes',
           \A p \in probes' \ probes : p.age = 0,
           watchdog' \in {"cooldown", "restart"} =>
               watchdog \in {"cooldown", "restart"} /\ watchAge' = watchAge
    PROVE  Evidence'
<1> SUFFICES ASSUME watchdog' \in {"cooldown", "restart"}
             PROVE  /\ Cardinality(FailedThen') >= FAIL_THRESHOLD
                    /\ \A p \in probes' : p.ok => \/ p.age <= watchAge'
                                                 \/ p.age - watchAge' >= WINDOW_MIN
  BY DEF Evidence
<1>1. watchAge' = watchAge /\ watchAge \in Nat
  BY Types
<1>2. /\ Cardinality(FailedThen) >= FAIL_THRESHOLD
      /\ \A p \in probes : p.ok => p.age <= watchAge \/ p.age - watchAge >= WINDOW_MIN
  BY DEF Evidence
<1>3. FailedThen \subseteq FailedThen' /\ FailedThen' \subseteq Probe
  BY <1>1 DEF FailedThen
<1>4. Cardinality(FailedThen') >= FAIL_THRESHOLD
  BY <1>2, <1>3, MoreFailures, Constants
<1>5. ASSUME NEW p \in probes', p.ok PROVE p.age <= watchAge' \/ p.age - watchAge' >= WINDOW_MIN
  <2>1. CASE p \in probes
    BY <1>1, <1>2, <1>5, <2>1
  <2>2. CASE p \notin probes
    <3>1. p.age = 0
      BY <2>2
    <3> QED
      BY <1>1, <3>1
  <2> QED
    BY <2>1, <2>2
<1> QED
  BY <1>4, <1>5

\* What the light client does is nobody's business but its own.
LEMMA ClientPreservesIInv == IInv /\ (Breaks \/ ComesUp) => IInv'
<1> SUFFICES ASSUME IInv, Breaks \/ ComesUp PROVE IInv'
  OBVIOUS
<1>1. /\ lc' \in {"serving", "stuck", "down"}
      /\ UNCHANGED <<minute, probes, submit, submitAge, watchdog, watchAge,
                     logged, restarted, confirmed, lost>>
  BY DEF Breaks, ComesUp
<1>2. TypeOK'
  BY <1>1 DEF IInv, TypeOK
<1>3. Evidence'
  BY <1>1 DEF IInv, Evidence, FailedThen
<1> QED
  BY <1>1, <1>2, <1>3 DEF IInv, RunsKeepTheirPeriod, Cooled, LoggedAfterwards

LEMMA SubmitPreservesIInv == IInv /\ (Send \/ Record \/ LoseSubmit) => IInv'
<1> SUFFICES ASSUME IInv, Send \/ Record \/ LoseSubmit PROVE IInv'
  OBVIOUS
<1>0. TypeOK /\ RunsKeepTheirPeriod /\ Evidence /\ Cooled /\ LoggedAfterwards
  BY DEF IInv
<1>1. UNCHANGED <<minute, lc, watchdog, watchAge, logged, restarted, confirmed>>
  BY DEF Send, Record, LoseSubmit
<1>2. /\ submit' \in {"idle", "ok", "failed", "timeout"}
      /\ \/ submit' = "idle" /\ submitAge' = 0
         \/ submit = "due" /\ submitAge' = submitAge
  <2>1. CASE Send
    <3>1. lc \in {"serving", "stuck", "down"}
      BY <1>0 DEF TypeOK
    <3>2. submit' \in {"ok", "failed"} \/ submit' \in {"timeout"} \/ submit' \in {"failed"}
      BY <2>1, <3>1 DEF Send
    <3> QED
      BY <2>1, <3>2 DEF Send
  <2> QED
    BY <2>1 DEF Record, LoseSubmit
<1>3. lost' \in 0 .. MaxLost
  <2>1. lost \in 0 .. MaxLost
    BY <1>0 DEF TypeOK
  <2> QED
    BY <2>1, Constants DEF Send, Record, LoseSubmit
<1>4. probes \subseteq probes' /\ \A p \in probes' \ probes : p \in Probe /\ p.age = 0
  <2> DEFINE new == [age |-> 0, ok |-> submit = "ok"]
  <2>1. new \in Probe /\ new.age = 0
    BY Constants DEF Probe, ProbeAge
  <2>2. probes' = probes \/ probes' = probes \union {new}
    BY DEF Send, Record, LoseSubmit
  <2> HIDE DEF new
  <2> QED
    BY <2>1, <2>2
<1>5. probes' \subseteq Probe
  BY <1>0, <1>4 DEF TypeOK
<1>6. TypeOK'
  BY <1>0, <1>1, <1>2, <1>3, <1>5, Constants DEF TypeOK
<1>7. RunsKeepTheirPeriod'
  BY <1>0, <1>1, <1>2 DEF RunsKeepTheirPeriod
<1>8. Evidence'
  BY <1>0, <1>1, <1>4, <1>5, EvidenceKept
<1> QED
  BY <1>0, <1>1, <1>6, <1>7, <1>8 DEF IInv, Cooled, LoggedAfterwards

\* A window in which all probes failed, and not fewer than the threshold.
LEMMA FailedWindow ==
    ASSUME TypeOK, NEW window \in Windows,
           Triggers(Cardinality(window), Cardinality({p \in window : ~p.ok}))
    PROVE  /\ Cardinality({p \in probes : ~p.ok /\ p.age <= WINDOW_MIN}) >= FAIL_THRESHOLD
           /\ \A p \in probes : p.ok => p.age >= WINDOW_MIN
<1> DEFINE fails == {p \in window : ~p.ok}
           failed == {p \in probes : ~p.ok /\ p.age <= WINDOW_MIN}
<1>1. /\ window \subseteq probes
      /\ \A p \in window : p.age <= WINDOW_MIN
      /\ \A p \in probes : p.age < WINDOW_MIN => p \in window
  <2>1. \A p \in probes : p.age \in Nat
    BY Types
  <2> QED
    BY <2>1, Constants DEF Windows
<1>2. fails \subseteq window /\ fails \subseteq failed /\ failed \subseteq Probe /\ window \subseteq Probe
  BY <1>1 DEF TypeOK
<1>3. Cardinality(fails) >= FAIL_THRESHOLD /\ Cardinality(window) = Cardinality(fails)
  BY DEF Triggers
<1> HIDE DEF fails, failed
<1>4. Cardinality(failed) >= FAIL_THRESHOLD
  <2>1. /\ Cardinality(fails) \in Nat /\ Cardinality(failed) \in Nat
        /\ Cardinality(fails) <= Cardinality(failed)
    BY <1>2, MoreFailures
  <2> QED
    BY <1>3, <2>1, Constants
<1>5. fails = window
  BY <1>2, <1>3, ProbesAreFinite, FS_Subset
<1>6. ASSUME NEW p \in probes, p.ok PROVE p.age >= WINDOW_MIN
  <2>1. p \notin window
    BY <1>5, <1>6, Zenon DEF fails
  <2>2. ~(p.age < WINDOW_MIN) /\ p.age \in Nat
    BY <1>1, <2>1, Types
  <2> QED
    BY <2>2, Constants
<1> QED
  BY <1>4, <1>6 DEF failed

LEMMA ReadStatsPreservesIInv == IInv /\ ReadStats => IInv'
<1> SUFFICES ASSUME IInv, ReadStats PROVE IInv'
  OBVIOUS
<1>0. TypeOK /\ RunsKeepTheirPeriod /\ Evidence /\ Cooled /\ LoggedAfterwards
  BY DEF IInv
<1>1. /\ watchdog = "due"
      /\ UNCHANGED <<minute, lc, probes, submit, submitAge, logged, restarted, confirmed, lost>>
  BY DEF ReadStats
<1>2. watchAge = 0 /\ minute = 0
  BY <1>0, <1>1 DEF RunsKeepTheirPeriod
<1>3. CASE WatchdogDone
  <2>1. watchdog' = "idle" /\ watchAge' = 0
    BY <1>3 DEF WatchdogDone
  <2>2. TypeOK'
    BY <1>0, <1>1, <2>1, Constants DEF TypeOK
  <2> QED
    BY <1>0, <1>1, <2>1, <2>2 DEF IInv, RunsKeepTheirPeriod, Evidence, Cooled, LoggedAfterwards
<1>4. ASSUME NEW window \in Windows,
             Triggers(Cardinality(window), Cardinality({p \in window : ~p.ok})),
             watchdog' = "cooldown", watchAge' = watchAge
      PROVE  IInv'
  <2>1. TypeOK'
    BY <1>0, <1>1, <1>4 DEF TypeOK
  <2>2. /\ Cardinality({p \in probes : ~p.ok /\ p.age <= WINDOW_MIN}) >= FAIL_THRESHOLD
        /\ \A p \in probes : p.ok => p.age >= WINDOW_MIN
    BY <1>0, <1>4, FailedWindow
  <2>3. \A p \in probes : p.age \in Nat /\ p.age - watchAge = p.age
    BY <1>0, <1>2, Types
  <2>4. FailedThen' = {p \in probes : ~p.ok /\ p.age <= WINDOW_MIN}
    BY <1>1, <1>4, <2>3, Zenon DEF FailedThen
  <2>5. Cardinality(FailedThen') >= FAIL_THRESHOLD
    BY <2>2, <2>4, Zenon
  <2>6. \A p \in probes' : p.ok => p.age <= watchAge' \/ p.age - watchAge' >= WINDOW_MIN
    BY <1>1, <1>4, <2>2, <2>3, Zenon
  <2>7. Evidence'
    BY <2>5, <2>6 DEF Evidence
  <2> QED
    BY <1>0, <1>1, <1>4, <2>1, <2>7 DEF IInv, RunsKeepTheirPeriod, Cooled, LoggedAfterwards
<1> QED
  BY <1>3, <1>4 DEF ReadStats

LEMMA ReadCooldownPreservesIInv == IInv /\ ReadCooldown => IInv'
<1> SUFFICES ASSUME IInv, ReadCooldown PROVE IInv'
  OBVIOUS
<1>0. TypeOK /\ RunsKeepTheirPeriod /\ Evidence /\ Cooled /\ LoggedAfterwards
  BY DEF IInv
<1>1. /\ watchdog = "cooldown"
      /\ UNCHANGED <<minute, lc, probes, submit, submitAge, logged, restarted, confirmed, lost>>
  BY DEF ReadCooldown
<1>2. \/ watchdog' = "idle" /\ watchAge' = 0
      \/ watchdog' = "restart" /\ watchAge' = watchAge /\ FALSE \in InCooldown
  BY DEF ReadCooldown, WatchdogDone, InCooldown
<1>3. FALSE \in InCooldown => logged >= COOLDOWN_MIN
  <2>1. logged \in Nat
    BY <1>0, Types
  <2>2. logged < COOLDOWN_MIN => InCooldown = {TRUE}
    BY DEF InCooldown
  <2>3. FALSE \notin {TRUE}
    OBVIOUS
  <2>4. FALSE \in InCooldown => ~(logged < COOLDOWN_MIN)
    BY <2>2, <2>3, Zenon
  <2> QED
    BY <2>1, <2>4, Constants
<1>4. TypeOK'
  <2>1. watchdog' \in {"idle", "restart"} /\ watchAge' \in {0, watchAge}
    BY <1>2
  <2> QED
    BY <1>0, <1>1, <2>1, Constants DEF TypeOK
<1>5. RunsKeepTheirPeriod'
  BY <1>0, <1>1, <1>2 DEF RunsKeepTheirPeriod
<1>6. Evidence'
  BY <1>0, <1>1, <1>2, <1>4, EvidenceKept DEF TypeOK
<1>7. Cooled'
  BY <1>1, <1>2, <1>3 DEF Cooled
<1> QED
  BY <1>0, <1>1, <1>4, <1>5, <1>6, <1>7 DEF IInv, LoggedAfterwards

\* A restart that is not logged leaves nothing to be compared with it.
LEMMA RestartPreservesIInv == IInv /\ (Restart \/ RestartFails) => IInv'
<1> SUFFICES ASSUME IInv, Restart \/ RestartFails PROVE IInv'
  OBVIOUS
<1>0. TypeOK /\ RunsKeepTheirPeriod /\ Evidence /\ Cooled /\ LoggedAfterwards
  BY DEF IInv
<1>1. /\ watchdog = "restart"
      /\ UNCHANGED <<minute, probes, submit, submitAge, logged, lost>>
      /\ Restarts \/ UNCHANGED <<lc, restarted, confirmed>>
      /\ \/ watchdog' = "idle" /\ watchAge' = 0
         \/ watchdog' = "wait" /\ watchAge' = watchAge
  BY DEF Restart, RestartFails, WatchdogDone
<1>2. /\ lc' \in {"serving", "stuck", "down"} /\ restarted' \in EventAge
      /\ confirmed' \in BOOLEAN /\ LoggedAfterwards'
  <2>1. CASE Restarts
    <3>1. 0 \in EventAge
      BY Constants DEF EventAge
    <3> QED
      BY <2>1, <3>1 DEF Restarts, LoggedAfterwards
  <2>2. CASE UNCHANGED <<lc, restarted, confirmed>>
    BY <1>0, <1>1, <2>2 DEF TypeOK, LoggedAfterwards
  <2> QED
    BY <1>1, <2>1, <2>2
<1>3. TypeOK'
  BY <1>0, <1>1, <1>2, Constants DEF TypeOK
<1>4. RunsKeepTheirPeriod'
  BY <1>0, <1>1 DEF RunsKeepTheirPeriod
<1>5. Evidence' /\ Cooled'
  BY <1>1 DEF Evidence, Cooled
<1> QED
  BY <1>2, <1>3, <1>4, <1>5 DEF IInv

LEMMA EndPreservesIInv == IInv /\ (Healthy \/ Unhealthy \/ LoseWatchdog) => IInv'
<1> SUFFICES ASSUME IInv, Healthy \/ Unhealthy \/ LoseWatchdog PROVE IInv'
  OBVIOUS
<1>0. TypeOK /\ RunsKeepTheirPeriod /\ Evidence /\ Cooled /\ LoggedAfterwards
  BY DEF IInv
<1>1. /\ watchdog' = "idle" /\ watchAge' = 0
      /\ UNCHANGED <<minute, lc, probes, submit, submitAge, restarted>>
  BY DEF Healthy, Unhealthy, LoseWatchdog, WatchdogDone
<1>2. \/ logged' = 0 /\ confirmed' = TRUE
      \/ UNCHANGED <<logged, confirmed>>
  BY DEF Healthy, Unhealthy, LoseWatchdog, LoggedAfter
<1>3. lost' \in 0 .. MaxLost
  <2>1. lost \in 0 .. MaxLost
    BY <1>0 DEF TypeOK
  <2> QED
    BY <2>1, Constants DEF Healthy, Unhealthy, LoseWatchdog
<1>4. logged' \in EventAge /\ confirmed' \in BOOLEAN /\ LoggedAfterwards'
  <2>1. CASE logged' = 0 /\ confirmed' = TRUE
    <3>1. restarted' \in Nat
      BY <1>0, <1>1, Types
    <3> QED
      BY <2>1, <3>1, Constants DEF EventAge, LoggedAfterwards
  <2>2. CASE UNCHANGED <<logged, confirmed>>
    BY <1>0, <1>1, <2>2 DEF TypeOK, LoggedAfterwards
  <2> QED
    BY <1>2, <2>1, <2>2
<1>5. TypeOK'
  BY <1>0, <1>1, <1>3, <1>4, Constants DEF TypeOK
<1>6. RunsKeepTheirPeriod'
  BY <1>0, <1>1 DEF RunsKeepTheirPeriod
<1>7. Evidence' /\ Cooled'
  BY <1>1 DEF Evidence, Cooled
<1> QED
  BY <1>4, <1>5, <1>6, <1>7 DEF IInv

LEMMA NextPreservesIInv == IInv /\ [Next]_vars => IInv'
<1> SUFFICES ASSUME IInv, [Next]_vars PROVE IInv'
  OBVIOUS
<1>1. CASE UNCHANGED vars
  BY <1>1 DEF vars, IInv, TypeOK, RunsKeepTheirPeriod, Evidence, FailedThen, Cooled,
              LoggedAfterwards
<1>2. CASE Next
  BY <1>2, TickPreservesIInv, ClientPreservesIInv, SubmitPreservesIInv, ReadStatsPreservesIInv,
     ReadCooldownPreservesIInv, RestartPreservesIInv, EndPreservesIInv DEF Next
<1> QED
  BY <1>1, <1>2

-----------------------------------------------------------------------------
THEOREM Invariance == Spec => []IInv
BY InitEstablishesIInv, NextPreservesIInv, PTL DEF Spec

\* Every reachable state has the types the module's comments give its variables.
THEOREM TypeCorrect == Spec => []TypeOK
<1>1. IInv => TypeOK
  BY DEF IInv
<1> QED
  BY <1>1, Invariance, PTL

\* The minutes between recent_probe_stats and the ssh command do not spoil the evidence:
\* the client is restarted only after FAIL_THRESHOLD failures and no success in the
\* window that was read.
THEOREM RestartsAreJustified == Spec => RestartJustified
<1>1. IInv /\ [Next]_vars =>
        [Restarting =>
            /\ Cardinality({p \in probes : ~p.ok /\ p.age - watchAge <= WINDOW_MIN}) >= FAIL_THRESHOLD
            /\ \A p \in probes : p.ok => \/ p.age <= watchAge
                                         \/ p.age - watchAge >= WINDOW_MIN]_vars
  BY DEF IInv, Evidence, FailedThen, Restarting, Restart, RestartFails
<1> QED
  BY <1>1, Invariance, PTL DEF Spec, RestartJustified

\* After a restart that came back healthy the next one is COOLDOWN_MIN minutes away, and
\* every probe of its window is younger than that restart.
THEOREM ConfirmedRestartsRest == Spec => ConfirmedRestartRests
<1>1. ASSUME IInv, Restarting, confirmed
      PROVE  /\ restarted >= COOLDOWN_MIN
             /\ \A p \in probes : p.age <= WINDOW_MIN + watchAge => p.age < restarted
  <2>1. TypeOK /\ logged >= COOLDOWN_MIN /\ logged <= restarted
    BY <1>1 DEF IInv, Cooled, LoggedAfterwards, Restarting, Restart, RestartFails
  <2>2. /\ logged \in Nat /\ restarted \in Nat /\ watchAge \in Nat /\ watchAge <= WATCHDOG_MAX
        /\ \A p \in probes : p.age \in Nat
    BY <2>1, Types
  <2>3. restarted >= COOLDOWN_MIN
    BY <2>1, <2>2, Constants
  <2> QED
    BY <2>2, <2>3, Constants
<1>2. IInv /\ [Next]_vars =>
        [Restarting /\ confirmed =>
            /\ restarted >= COOLDOWN_MIN
            /\ \A p \in probes : p.age <= WINDOW_MIN + watchAge => p.age < restarted]_vars
  BY <1>1
<1> QED
  BY <1>2, Invariance, PTL DEF Spec, ConfirmedRestartRests

-----------------------------------------------------------------------------
(* The jobs that watch the other chain's node, NodeMonitors.               *)

\* Types, with those NodeMonitors leaves to the shape of its records.
Heads == 1 .. MaxHeight
HealthTypes ==
    /\ node \in {"up", "down"} /\ network \in Heads /\ loc \in 1 .. network
    /\ asked \in 0 .. 2 /\ behind \in 0 .. MaxHeight /\ crashes \in 0 .. MaxCrash
    /\ answers \in [NetworkHead : SUBSET Heads, LocalHead : SUBSET Heads]
    /\ row \in [sync_lag : SUBSET (-MaxHeight .. MaxHeight), is_syncing : SUBSET BOOLEAN,
                rpc_success : BOOLEAN, behind : 0 .. MaxHeight]

\* What a run has been told, request by request.  The network head does not overstate how
\* far the node is behind later on, as that head does not go back and the node does not
\* lose blocks; so the difference to the local head does not either.
Told ==
    /\ asked = 0 => behind = MaxHeight /\ answers.NetworkHead = {}
    /\ asked \in {0, 1} => answers.LocalHead = {}
    /\ asked = 1 => \A n \in answers.NetworkHead : n <= network /\ n - loc <= behind
    /\ \A n \in answers.NetworkHead, l \in answers.LocalHead : n - l <= behind

HealthInv == HealthTypes /\ Told /\ Health!LagNotOverstated

\* Proofs are on their way from the node's store to the table.
FraudInv ==
    /\ store \in Seq(Proof) /\ todo \in Seq(Proof)
    /\ \A i \in 1 .. Len(todo) : \E j \in 1 .. Len(store) : todo[i] = store[j]
    /\ \A e \in events : \E j \in 1 .. Len(store) : e = store[j]

LEMMA NodeInitially == MonitorsInit => HealthInv /\ FraudInv
<1> SUFFICES ASSUME MonitorsInit PROVE HealthInv /\ FraudInv
  OBVIOUS
<1>1. MaxHeight \in Nat /\ MaxHeight > 0 /\ MaxCrash \in Nat
  BY BoundsAssumption
<1>2. Health!Init /\ Fraud!Init
  BY DEF MonitorsInit
<1>3. FraudInv
  BY <1>2 DEF Fraud!Init, FraudInv
<1>4. HealthTypes
  <2>1. network \in Heads /\ loc \in 1 .. network /\ node = "up"
    BY <1>2 DEF Health!Init, Health!Height, Heads
  <2>2. asked \in 0 .. 2 /\ behind \in 0 .. MaxHeight /\ crashes \in 0 .. MaxCrash
    BY <1>1, <1>2 DEF Health!Init
  <2>3. answers \in [NetworkHead : SUBSET Heads, LocalHead : SUBSET Heads]
    BY <1>2 DEF Health!Init, Health!NoAnswers
  <2>4. row \in [sync_lag : SUBSET (-MaxHeight .. MaxHeight), is_syncing : SUBSET BOOLEAN,
                rpc_success : BOOLEAN, behind : 0 .. MaxHeight]
    <3>1. MaxHeight \in 0 .. MaxHeight
      BY <1>1
    <3> QED
      BY <1>2, <3>1 DEF Health!Init
  <2> QED
    BY <2>1, <2>2, <2>3, <2>4 DEF HealthTypes
<1>5. Told
  BY <1>2 DEF Health!Init, Health!NoAnswers, Told
<1>6. Health!LagNotOverstated
  BY <1>2 DEF Health!Init, Health!LagNotOverstated
<1> QED
  BY <1>3, <1>4, <1>5, <1>6 DEF HealthInv

\* Between its requests the node hears of blocks and syncs them.
LEMMA NodeStepKeeps == HealthInv /\ Health!NodeStep => HealthInv'
<1> SUFFICES ASSUME HealthInv, Health!NodeStep PROVE HealthInv'
  OBVIOUS
<1>1. MaxHeight \in Nat /\ MaxHeight > 0 /\ MaxCrash \in Nat
  BY BoundsAssumption
<1>2. HealthTypes /\ Told
  BY DEF HealthInv
<1>3. UNCHANGED <<asked, answers, behind, row, crashes>>
  BY DEF Health!NodeStep, Health!healthVars
<1>4. /\ network \in Int /\ loc \in Int /\ network' \in Heads /\ loc' \in 1 .. network'
      /\ network <= network' /\ loc <= loc' /\ node' \in {"up", "down"}
  BY <1>1, <1>2 DEF Health!NodeStep, HealthTypes, Heads
<1>5. HealthTypes'
  BY <1>2, <1>3, <1>4 DEF HealthTypes
<1>6. Told'
  <2>1. answers.NetworkHead \subseteq Int /\ behind \in Int /\ loc' \in Int /\ network' \in Int
    BY <1>1, <1>2, <1>4 DEF HealthTypes, Heads
  <2>2. asked = 1 => \A n \in answers.NetworkHead : n <= network /\ n - loc <= behind
    BY <1>2 DEF Told
  <2>3. asked = 1 => \A n \in answers.NetworkHead : n <= network' /\ n - loc' <= behind
    BY <1>4, <2>1, <2>2
  <2> QED
    BY <1>2, <1>3, <2>3 DEF Told
<1>7. Health!LagNotOverstated'
  BY <1>3 DEF HealthInv, Health!LagNotOverstated
<1> QED
  BY <1>5, <1>6, <1>7 DEF HealthInv

LEMMA AskKeeps == HealthInv /\ Health!Ask => HealthInv'
<1> SUFFICES ASSUME HealthInv, Health!Ask PROVE HealthInv'
  OBVIOUS
<1>1. MaxHeight \in Nat /\ MaxHeight > 0 /\ MaxCrash \in Nat
  BY BoundsAssumption
<1>2. HealthTypes /\ Told
  BY DEF HealthInv
<1>3. /\ UNCHANGED <<node, network, loc, row, crashes>> /\ asked' = asked + 1
      /\ behind' = IF network - loc < behind THEN network - loc ELSE behind
  BY DEF Health!Ask, Health!nodeVars
<1>4. /\ network \in Int /\ loc \in Int /\ behind \in Int /\ asked \in Int
      /\ 1 <= loc /\ loc <= network /\ network <= MaxHeight /\ 0 <= behind /\ behind <= MaxHeight
      /\ answers.NetworkHead \subseteq Int
  BY <1>1, <1>2 DEF HealthTypes, Heads
<1>5. /\ behind' \in 0 .. MaxHeight /\ behind' <= behind /\ behind' <= network - loc
      /\ behind = MaxHeight => behind' = network - loc
      /\ \A x \in Int : x <= behind /\ x <= network - loc => x <= behind'
  BY <1>1, <1>3, <1>4
<1>6. Len(Health!Requests) = 2 /\ Health!Requests[1] = "NetworkHead"
      /\ Health!Requests[2] = "LocalHead"
  BY DEF Health!Requests
<1>7. asked \in {0, 1}
  BY <1>2, <1>6 DEF Health!Ask, HealthTypes
<1>8. CASE asked = 0
  <2>1. PICK answer \in {{}, {network}} : answers' = [answers EXCEPT !.NetworkHead = answer]
    <3>1. Health!Requests[asked'] = "NetworkHead"
      BY <1>3, <1>6, <1>8
    <3>2. PICK answer \in Health!Answers("NetworkHead") : answers' = [answers EXCEPT !["NetworkHead"] = answer]
      BY <3>1, Zenon DEF Health!Ask
    <3>3. answer \in {{}, {network}}
      BY DEF Health!Answers
    <3> QED
      BY <3>2, <3>3
  <2>2. /\ answers' \in [NetworkHead : SUBSET Heads, LocalHead : SUBSET Heads]
        /\ answers'.NetworkHead \subseteq {network} /\ answers'.LocalHead = {}
    BY <1>2, <1>8, <2>1 DEF HealthTypes, Told
  <2>3. HealthTypes'
    BY <1>2, <1>3, <1>5, <1>8, <2>2 DEF HealthTypes
  <2>4. behind' = network - loc
    BY <1>2, <1>5, <1>8 DEF Told
  <2>5. asked' = 1 /\ \A n \in answers'.NetworkHead : n <= network' /\ n - loc' <= behind'
    BY <1>3, <1>4, <1>8, <2>2, <2>4
  <2>6. Told'
    BY <2>2, <2>5 DEF Told
  <2> QED
    BY <1>3, <2>3, <2>6 DEF HealthInv, Health!LagNotOverstated
<1>9. CASE asked = 1
  <2>1. PICK answer \in {{}, {loc}} : answers' = [answers EXCEPT !.LocalHead = answer]
    <3>1. Health!Requests[asked'] = "LocalHead"
      BY <1>3, <1>6, <1>9
    <3>2. PICK answer \in Health!Answers("LocalHead") : answers' = [answers EXCEPT !["LocalHead"] = answer]
      BY <3>1, Zenon DEF Health!Ask
    <3>3. answer \in {{}, {loc}}
      BY DEF Health!Answers
    <3> QED
      BY <3>2, <3>3
  <2>2. /\ answers' \in [NetworkHead : SUBSET Heads, LocalHead : SUBSET Heads]
        /\ answers'.NetworkHead = answers.NetworkHead /\ answers'.LocalHead \subseteq {loc}
    BY <1>1, <1>2, <2>1 DEF HealthTypes, Heads
  <2>3. HealthTypes'
    BY <1>2, <1>3, <1>5, <1>9, <2>2 DEF HealthTypes
  <2>4. \A n \in answers.NetworkHead : n - loc <= behind'
    <3>1. \A n \in answers.NetworkHead : n \in Int /\ n <= network /\ n - loc <= behind
      BY <1>2, <1>4, <1>9 DEF Told
    <3> QED
      BY <1>4, <1>5, <3>1
  <2>5. Told'
    BY <1>3, <1>9, <2>2, <2>4 DEF Told
  <2> QED
    BY <1>3, <2>3, <2>5 DEF HealthInv, Health!LagNotOverstated
<1> QED
  BY <1>7, <1>8, <1>9

\* The row, or the end of the process.
LEMMA EndOfHealthRunKeeps ==
    HealthInv /\ (Health!Insert \/ Health!Die) => HealthInv'
<1> SUFFICES ASSUME HealthInv, Health!Insert \/ Health!Die PROVE HealthInv'
  OBVIOUS
<1>1. MaxHeight \in Nat /\ MaxHeight > 0 /\ MaxCrash \in Nat
  BY BoundsAssumption
<1>2. HealthTypes /\ Told
  BY DEF HealthInv
<1>3. /\ UNCHANGED <<node, network, loc>> /\ asked' = 0 /\ behind' = MaxHeight
      /\ answers' = [NetworkHead |-> {}, LocalHead |-> {}]
  BY DEF Health!Insert, Health!Die, Health!nodeVars, Health!NoAnswers
<1>4. Told'
  BY <1>3 DEF Told
<1>5. crashes' \in 0 .. MaxCrash
  <2>1. crashes \in 0 .. MaxCrash
    BY <1>2 DEF HealthTypes
  <2> QED
    BY <1>1, <2>1 DEF Health!Insert, Health!Die
<1>6. /\ node' \in {"up", "down"} /\ network' \in Heads /\ loc' \in 1 .. network'
      /\ asked' \in 0 .. 2 /\ behind' \in 0 .. MaxHeight
      /\ answers' \in [NetworkHead : SUBSET Heads, LocalHead : SUBSET Heads]
  BY <1>1, <1>2, <1>3 DEF HealthTypes
<1>7. CASE row' = row
  BY <1>2, <1>4, <1>5, <1>6, <1>7 DEF HealthInv, HealthTypes, Health!LagNotOverstated
<1>8. CASE Health!Insert
  <2> DEFINE lag == {n - l : n \in answers.NetworkHead, l \in answers.LocalHead}
             syncing == {Health!IsSyncing(s) : s \in lag}
  <2>1. row' = [sync_lag |-> lag, is_syncing |-> syncing,
                rpc_success |-> Health!RpcSuccess, behind |-> behind]
    BY <1>8 DEF Health!Insert
  <2>2. \A n \in answers.NetworkHead, l \in answers.LocalHead : n - l \in -MaxHeight .. MaxHeight
    BY <1>1, <1>2 DEF HealthTypes, Heads
  <2>3. lag \subseteq -MaxHeight .. MaxHeight
    BY <2>2
  <2>4. \A s \in lag : s <= behind
    BY <1>2 DEF Told
  <2>5. syncing \subseteq BOOLEAN
    <3> HIDE DEF lag
    <3>1. \A s : (s > 1) \in BOOLEAN
      OBVIOUS
    <3>2. \A s : Health!IsSyncing(s) \in BOOLEAN
      BY <3>1, Zenon DEF Health!IsSyncing
    <3> QED
      BY <3>2, Zenon
  <2>6. Health!RpcSuccess \in BOOLEAN
    BY DEF Health!RpcSuccess
  <2>7. behind \in 0 .. MaxHeight
    BY <1>2 DEF HealthTypes
  <2> HIDE DEF lag, syncing
  <2>8. row' \in [sync_lag : SUBSET (-MaxHeight .. MaxHeight), is_syncing : SUBSET BOOLEAN,
                 rpc_success : BOOLEAN, behind : 0 .. MaxHeight]
    BY <2>1, <2>3, <2>5, <2>6, <2>7, Zenon
  <2>9. row'.sync_lag = lag /\ row'.behind = behind
    BY <2>1
  <2>10. Health!LagNotOverstated'
    BY <2>4, <2>9 DEF Health!LagNotOverstated
  <2> QED
    BY <1>4, <1>5, <1>6, <2>8, <2>10 DEF HealthInv, HealthTypes
<1> QED
  BY <1>7, <1>8 DEF Health!Die

\* The fraud monitor's steps: what the node has stored stays stored, so what is recorded,
\* or still to be, is in the store.
LEMMA FraudStepKeeps ==
    /\ FraudInv
    /\ Fraud!NewProof \/ Fraud!Get \/ Fraud!Insert \/ Fraud!Die
    => FraudInv'
<1> SUFFICES ASSUME FraudInv,
                    Fraud!NewProof \/ Fraud!Get \/ Fraud!Insert \/ Fraud!Die
             PROVE  FraudInv'
  OBVIOUS
<1>1. CASE Fraud!NewProof
  <2>1. PICK p \in Proof : store' = Append(store, p)
    BY <1>1 DEF Fraud!NewProof
  <2>2. /\ store' \in Seq(Proof) /\ Len(store') = Len(store) + 1 /\ Len(store) \in Nat
        /\ \A j \in 1 .. Len(store) : store'[j] = store[j]
    BY <2>1 DEF FraudInv
  <2>3. \A j \in 1 .. Len(store) : j \in 1 .. Len(store') /\ store'[j] = store[j]
    BY <2>2
  <2>4. UNCHANGED <<todo, events>>
    BY <1>1 DEF Fraud!NewProof
  <2>5. \A x : (\E j \in 1 .. Len(store) : x = store[j]) => \E j \in 1 .. Len(store') : x = store'[j]
    BY <2>3, Zenon
  <2>6. \A i \in 1 .. Len(todo') : \E j \in 1 .. Len(store') : todo'[i] = store'[j]
    <3>1. \A i \in 1 .. Len(todo) : \E j \in 1 .. Len(store) : todo[i] = store[j]
      BY DEF FraudInv
    <3> QED
      BY <2>4, <2>5, <3>1, Zenon
  <2>7. \A e \in events' : \E j \in 1 .. Len(store') : e = store'[j]
    BY <2>4, <2>5 DEF FraudInv
  <2> QED
    BY <2>2, <2>4, <2>6, <2>7, Zenon DEF FraudInv
<1>2. CASE Fraud!Get
  BY <1>2 DEF Fraud!Get, Fraud!Proofs, FraudInv
<1>3. CASE Fraud!Insert
  <2>1. /\ store' = store /\ todo # <<>> /\ todo' = Tail(todo)
        /\ events' = events \union {Head(todo)}
    BY <1>3 DEF Fraud!Insert
  <2>2. /\ todo' \in Seq(Proof) /\ Head(todo) = todo[1] /\ 1 \in 1 .. Len(todo)
        /\ \A i \in 1 .. Len(todo') : i + 1 \in 1 .. Len(todo) /\ todo'[i] = todo[i + 1]
    BY <2>1 DEF FraudInv
  <2>3. \A i \in 1 .. Len(todo') : \E j \in 1 .. Len(store) : todo'[i] = store[j]
    BY <2>2 DEF FraudInv
  <2>4. \A e \in events' : \E j \in 1 .. Len(store) : e = store[j]
    BY <2>1, <2>2 DEF FraudInv
  <2> QED
    BY <2>1, <2>2, <2>3, <2>4 DEF FraudInv
<1>4. CASE Fraud!Die
  BY <1>4 DEF Fraud!Die, FraudInv
<1> QED
  BY <1>1, <1>2, <1>3, <1>4

\* Each job leaves the other's variables alone; they share the node and the bound on crashes.
LEMMA NodeNext == HealthInv /\ FraudInv /\ [MonitorsNext]_monitorVars => HealthInv' /\ FraudInv'
<1> SUFFICES ASSUME HealthInv, FraudInv, [MonitorsNext]_monitorVars
             PROVE  HealthInv' /\ FraudInv'
  OBVIOUS
<1>1. CASE \/ NodeStep \/ Ask \/ InsertHealth \/ HealthDies
  <2>1. HealthInv'
    BY <1>1, NodeStepKeeps, AskKeeps, EndOfHealthRunKeeps, Zenon
    DEF NodeStep, Ask, InsertHealth, HealthDies
  <2>2. UNCHANGED <<store, todo, events>>
    BY <1>1 DEF NodeStep, Ask, InsertHealth, HealthDies, fraudVars
  <2> QED
    BY <2>1, <2>2 DEF FraudInv
<1>2. CASE \/ NewProof \/ Get \/ InsertProof \/ FraudDies
  <2>1. FraudInv'
    BY <1>2, FraudStepKeeps, Zenon DEF NewProof, Get, InsertProof, FraudDies
  <2>2. UNCHANGED <<node, network, loc, asked, answers, behind, row>>
    BY <1>2 DEF NewProof, Get, InsertProof, FraudDies, healthVars,
                Fraud!NewProof, Fraud!Get, Fraud!Insert, Fraud!Die
  <2>3. crashes' \in 0 .. MaxCrash
    <3>1. crashes \in 0 .. MaxCrash /\ MaxCrash \in Nat
      BY BoundsAssumption DEF HealthInv, HealthTypes
    <3> QED
      BY <1>2, <3>1 DEF NewProof, Get, InsertProof, FraudDies,
                Fraud!NewProof, Fraud!Get, Fraud!Insert, Fraud!Die
  <2>4. HealthTypes'
    BY <2>2, <2>3 DEF HealthInv, HealthTypes
  <2>5. Told' /\ Health!LagNotOverstated'
    BY <2>2 DEF HealthInv, Told, Health!LagNotOverstated
  <2> QED
    BY <2>1, <2>4, <2>5 DEF HealthInv
<1>3. CASE UNCHANGED monitorVars
  <2>1. UNCHANGED <<node, crashes, store, todo, events, network, loc, asked, answers, behind, row>>
    BY <1>3 DEF monitorVars, fraudVars, healthVars
  <2> QED
    BY <2>1 DEF HealthInv, HealthTypes, Told, Health!LagNotOverstated, FraudInv
<1> QED
  BY <1>1, <1>2, <1>3 DEF MonitorsNext

\* Both jobs' invariants, whatever the node does and whichever runs die.
THEOREM NodeInvariance == MonitorsSpec => [](HealthInv /\ FraudInv)
<1>1. MonitorsInit => HealthInv /\ FraudInv
  BY NodeInitially
<1>2. HealthInv /\ FraudInv /\ [MonitorsNext]_monitorVars => (HealthInv /\ FraudInv)'
  BY NodeNext
<1> QED
  BY <1>1, <1>2, PTL DEF MonitorsSpec

\* LagNotOverstated of NodeMonitors: sync_lag never says more than the node was behind at
\* one of the two requests, though the node syncs between them.
THEOREM LagIsNotOverstated == MonitorsSpec => []LagNotOverstated
<1>1. HealthInv /\ FraudInv => LagNotOverstated
  BY DEF HealthInv, LagNotOverstated
<1> QED
  BY <1>1, NodeInvariance, PTL

\* MonitorsTypeOK of NodeMonitors, with every recorded proof one the node has stored.
THEOREM NodeTypeCorrect == MonitorsSpec => []MonitorsTypeOK
<1>1. ASSUME HealthInv, FraudInv PROVE MonitorsTypeOK
  <2>1. HealthTypes
    BY <1>1 DEF HealthInv
  <2>2. events \subseteq Fraud!Range(store)
    <3>1. DOMAIN store = 1 .. Len(store)
      BY <1>1 DEF FraudInv
    <3> QED
      BY <1>1, <3>1 DEF FraudInv, Fraud!Range
  <2>3. Fraud!TypeOK
    BY <1>1, <2>2 DEF FraudInv, Fraud!TypeOK
  <2>4. /\ node \in {"up", "down"} /\ network \in Health!Height /\ loc \in 1 .. network
        /\ asked \in 0 .. 2 /\ behind \in 0 .. MaxHeight
    BY <2>1 DEF HealthTypes, Heads, Health!Height
  <2>5. \A request \in DOMAIN answers : answers[request] \in SUBSET Health!Height
    BY <2>1 DEF HealthTypes, Heads, Health!Height
  <2>6. row.is_syncing \in SUBSET BOOLEAN /\ row.rpc_success \in BOOLEAN
    BY <2>1 DEF HealthTypes
  <2>7. row.sync_lag \in SUBSET (-MaxHeight .. MaxHeight)
    BY <2>1 DEF HealthTypes
  <2>8. Health!TypeOK
    BY <2>4, <2>5, <2>6, <2>7, Zenon DEF Health!TypeOK
  <2> QED
    BY <2>1, <2>3, <2>8 DEF HealthTypes, MonitorsTypeOK
<1> QED
  BY <1>1, NodeInvariance, PTL

-----------------------------------------------------------------------------
(* The last part is about NamespaceMonitor, which shares nothing with the  *)
(* others.  Each namespace has a range of its own, below which all has a   *)
(* row or was too old; a failed request leaves a row, so the head is the   *)
(* only excuse for a gap.                                                  *)

USE NamespaceBounds, NamespaceLimits

\* The namespace and the heights a run is at.
NsRunOK(w) ==
    /\ lh[w] <= MaxHead
    /\ pc[w] = "fetch" => /\ \E n \in Namespace : ns[w] = {n}
                          /\ 1 <= next[w] /\ next[w] <= end[w]

NsRunsOK == \A w \in Worker : NsRunOK(w)

\* All that is below a run's cursor has a row or was too old for one.
NsAccounted(n, h) == h \in observed[n] \union tooOld[n]
NsWalked ==
    \A w \in Worker : pc[w] = "fetch" =>
        \A n \in ns[w] : \A h \in 1 .. next[w] - 1 : NsAccounted(n, h)

NsInv == NamespacesTypeOK /\ NsRunsOK /\ NsWalked /\ GapsAreTooOld

LEMMA NsInitially == NamespacesInit => NsInv
<1> SUFFICES ASSUME NamespacesInit PROVE NsInv
  OBVIOUS
<1>1. NamespacesTypeOK
  BY DEF NamespacesInit, NamespacesTypeOK, Height
<1>2. NsRunsOK
  BY DEF NamespacesInit, NsRunsOK, NsRunOK
<1> QED
  BY <1>1, <1>2 DEF NamespacesInit, NsInv, NsWalked, GapsAreTooOld

\* Rows and reasons are only ever added.
NsGrows ==
    \A n \in Namespace : observed[n] \subseteq observed'[n] /\ tooOld[n] \subseteq tooOld'[n]

\* A step that adds no row and leaves the other runs alone preserves what they rely on.
LEMMA NsRunStep ==
    ASSUME NsInv, NamespacesTypeOK', NsGrows, UNCHANGED observed,
           NEW w \in Worker, NsRunOK(w)',
           \A v \in Worker \ {w} : /\ pc'[v] = pc[v] /\ lh'[v] = lh[v] /\ ns'[v] = ns[v]
                                  /\ next'[v] = next[v] /\ end'[v] = end[v],
           pc'[w] = "fetch" =>
               \A n \in ns'[w] : \A h \in 1 .. next'[w] - 1 : NsAccounted(n, h)'
    PROVE  NsInv'
<1>1. \A n \in Namespace : \A h : NsAccounted(n, h) => NsAccounted(n, h)'
  BY DEF NsGrows, NsAccounted
<1>2. NsRunsOK'
  BY DEF NsInv, NsRunsOK, NsRunOK
<1>3. NsWalked'
  <2> SUFFICES ASSUME NEW v \in Worker, pc'[v] = "fetch", NEW n \in ns'[v], NEW h \in 1 .. next'[v] - 1
               PROVE  NsAccounted(n, h)'
    BY DEF NsWalked
  <2>1. CASE v = w
    BY <2>1
  <2>2. CASE v # w
    <3>1. pc[v] = "fetch" /\ n \in ns[v] /\ n \in Namespace /\ h \in 1 .. next[v] - 1
      BY <2>2 DEF NsInv, NamespacesTypeOK
    <3> QED
      BY <1>1, <3>1 DEF NsInv, NsWalked
  <2> QED
    BY <2>1, <2>2
<1>4. GapsAreTooOld'
  BY <1>1 DEF NsInv, GapsAreTooOld, NsAccounted
<1> QED
  BY <1>2, <1>3, <1>4 DEF NsInv

\* A run comes to a namespace: below its range everything has a row, or is too old now.
LEMMA NsSelectStep ==
    ASSUME NsInv, NEW w \in Worker, Select(w)
    PROVE  NsInv'
<1>0. NamespacesTypeOK
  BY DEF NsInv
<1>1. PICK n \in ahead[w], last \in Height \union {0} :
        LET first == FirstHeight(last, lh[w])
        IN  /\ IsLastHeight(n, last)
            /\ IF n \in Placeholder \/ first > lh[w]
                 THEN PassOver(w, n) /\ UNCHANGED tooOld
                 ELSE /\ pc' = [pc EXCEPT ![w] = "fetch"]
                      /\ ahead' = [ahead EXCEPT ![w] = @ \ {n}]
                      /\ ns' = [ns EXCEPT ![w] = {n}]
                      /\ next' = [next EXCEPT ![w] = first]
                      /\ end' = [end EXCEPT ![w] = FinalHeight(first, lh[w])]
                      /\ tooOld' = [tooOld EXCEPT ![n] = @ \union
                                        {h \in last + 1 .. MaxHead : h < lh[w] - BACKFILL}]
                      /\ UNCHANGED lh
  BY DEF Select
<1> DEFINE first == FirstHeight(last, lh[w])
           final == FinalHeight(first, lh[w])
           old == {h \in last + 1 .. MaxHead : h < lh[w] - BACKFILL}
<1>2. /\ UNCHANGED <<active, head, observed, switches, deaths>> /\ pc[w] = "select"
  BY DEF Select
<1>3. /\ n \in Namespace /\ last \in Nat /\ last <= MaxHead
      /\ lh[w] \in Nat /\ lh[w] <= MaxHead
      /\ BACKFILL \in Nat /\ MAX_BLOCKS_PER_NAMESPACE_PER_RUN \in Nat
      /\ MAX_BLOCKS_PER_NAMESPACE_PER_RUN >= 1 /\ MaxHead \in Nat
  BY <1>0 DEF NamespacesTypeOK, Height
<1>4. CASE n \in Placeholder \/ first > lh[w]
  <2>1. /\ ahead' = [ahead EXCEPT ![w] = @ \ {n}] /\ UNCHANGED <<pc, lh, ns, next, end, tooOld>>
    BY <1>1, <1>4 DEF PassOver
  <2>2. NamespacesTypeOK'
    BY <1>0, <1>2, <2>1 DEF NamespacesTypeOK
  <2>3. NsGrows /\ NsRunOK(w)' /\ pc'[w] # "fetch"
    BY <1>2, <2>1 DEF NsGrows, NsInv, NsRunsOK, NsRunOK
  <2> QED
    BY <1>2, <2>1, <2>2, <2>3, NsRunStep
<1>5. CASE n \notin Placeholder /\ ~(first > lh[w])
  <2>1. /\ pc' = [pc EXCEPT ![w] = "fetch"] /\ ahead' = [ahead EXCEPT ![w] = @ \ {n}]
        /\ ns' = [ns EXCEPT ![w] = {n}] /\ next' = [next EXCEPT ![w] = first]
        /\ end' = [end EXCEPT ![w] = final] /\ tooOld' = [tooOld EXCEPT ![n] = @ \union old]
        /\ lh' = lh
    BY <1>1, <1>5
  <2>2. /\ first \in Int /\ first >= last + 1 /\ (first > last + 1 => first = lh[w] - BACKFILL)
    BY <1>3 DEF FirstHeight, Larger
  <2>3. first >= 1 /\ first <= lh[w]
    BY <1>3, <1>5, <2>2
  <2>4. final \in Int /\ first <= final /\ final <= lh[w]
    BY <1>3, <2>2, <2>3 DEF FinalHeight, Smaller
  <2>5. old \subseteq 1 .. MaxHead
    BY <1>3
  <2>6. \A h \in 1 .. first - 1 : h \in observed[n] \/ h \in tooOld[n] \/ h \in old
    <3> SUFFICES ASSUME NEW h \in 1 .. first - 1
                 PROVE  h \in observed[n] \/ h \in tooOld[n] \/ h \in old
      OBVIOUS
    <3>1. h \in Int /\ 1 <= h /\ h < first
      BY <2>2
    <3>2. CASE h > last
      <4>1. first = lh[w] - BACKFILL
        BY <1>3, <2>2, <3>1, <3>2
      <4> QED
        BY <1>3, <2>2, <2>3, <3>1, <3>2, <4>1
    <3>3. CASE h = last
      BY <1>1, <3>1, <3>3 DEF IsLastHeight
    <3>4. CASE h < last
      <4>1. last \in observed[n] /\ h \in 1 .. last - 1
        BY <1>1, <1>3, <3>1, <3>4 DEF IsLastHeight
      <4> QED
        BY <1>3, <4>1 DEF NsInv, GapsAreTooOld
    <3> QED
      BY <1>3, <3>1, <3>2, <3>3, <3>4
  <2> HIDE DEF first, final, old
  <2>7. NamespacesTypeOK'
    <3>1. next' \in [Worker -> 0 .. MaxHead] /\ end' \in [Worker -> 0 .. MaxHead]
      BY <1>0, <1>3, <2>1, <2>2, <2>3, <2>4 DEF NamespacesTypeOK
    <3>2. tooOld' \in [Namespace -> SUBSET Height]
      BY <1>0, <1>3, <2>1, <2>5 DEF NamespacesTypeOK, Height
    <3>3. ns' \in [Worker -> SUBSET Namespace] /\ ahead' \in [Worker -> SUBSET Namespace]
      BY <1>0, <1>3, <2>1 DEF NamespacesTypeOK
    <3>4. pc' \in [Worker -> {"idle", "head", "select", "fetch"}] /\ lh' \in [Worker -> 0 .. MaxHead]
      BY <1>0, <2>1 DEF NamespacesTypeOK
    <3> QED
      BY <1>0, <1>2, <3>1, <3>2, <3>3, <3>4 DEF NamespacesTypeOK
  <2>8. /\ pc'[w] = "fetch" /\ ns'[w] = {n} /\ next'[w] = first /\ end'[w] = final
        /\ tooOld'[n] = tooOld[n] \union old /\ observed'[n] = observed[n]
    BY <1>0, <1>2, <1>3, <2>1 DEF NamespacesTypeOK
  <2>9. NsGrows
    BY <1>0, <1>2, <2>1 DEF NsGrows, NamespacesTypeOK
  <2>10. NsRunOK(w)'
    BY <1>3, <2>1, <2>3, <2>4, <2>8 DEF NsRunOK
  <2>11. \A m \in ns'[w] : \A h \in 1 .. next'[w] - 1 : NsAccounted(m, h)'
    BY <2>6, <2>8 DEF NsAccounted
  <2>12. \A v \in Worker \ {w} : /\ pc'[v] = pc[v] /\ lh'[v] = lh[v] /\ ns'[v] = ns[v]
                                 /\ next'[v] = next[v] /\ end'[v] = end[v]
    BY <1>0, <2>1 DEF NamespacesTypeOK
  <2> QED
    BY <1>2, <2>7, <2>9, <2>10, <2>11, <2>12, NsRunStep
<1> QED
  BY <1>4, <1>5

\* Every row, of a failed request too, closes the gap right below the cursor.
LEMMA NsObserveStep ==
    ASSUME NsInv, NEW w \in Worker, Observe(w)
    PROVE  NsInv'
<1>0. NamespacesTypeOK /\ NsRunsOK /\ NsWalked /\ GapsAreTooOld
  BY DEF NsInv
<1>1. /\ pc[w] = "fetch"
      /\ UNCHANGED <<active, head, tooOld, lh, ahead, switches, deaths>>
  BY DEF Observe
<1>2. PICK n \in Namespace : ns[w] = {n}
  BY <1>0, <1>1 DEF NsRunsOK, NsRunOK
<1>3. /\ next[w] \in 1 .. MaxHead /\ end[w] \in 1 .. MaxHead /\ next[w] <= end[w]
  BY <1>0, <1>1 DEF NamespacesTypeOK, NsRunsOK, NsRunOK
<1>4. observed' = [observed EXCEPT ![n] = @ \union {next[w]}]
  BY <1>2 DEF Observe, Recorded
<1>5. /\ observed'[n] = observed[n] \union {next[w]}
      /\ \A m \in Namespace \ {n} : observed'[m] = observed[m]
  BY <1>0, <1>4 DEF NamespacesTypeOK
<1>6. \A m \in Namespace : \A h : NsAccounted(m, h) => NsAccounted(m, h)'
  BY <1>1, <1>5 DEF NsAccounted
<1>7. \A h \in 1 .. next[w] - 1 : NsAccounted(n, h)
  BY <1>0, <1>1, <1>2 DEF NsWalked
<1>8. /\ \/ /\ pc' = [pc EXCEPT ![w] = "select"] /\ ns' = [ns EXCEPT ![w] = {}]
            /\ next' = [next EXCEPT ![w] = 0] /\ end' = [end EXCEPT ![w] = 0]
         \/ /\ next[w] # end[w] /\ next' = [next EXCEPT ![w] = @ + 1]
            /\ UNCHANGED <<pc, ns, end>>
  BY DEF Observe
<1>9. NamespacesTypeOK'
  <2>1. observed' \in [Namespace -> SUBSET Height]
    BY <1>0, <1>3, <1>4 DEF NamespacesTypeOK, Height
  <2>2. next' \in [Worker -> 0 .. MaxHead] /\ end' \in [Worker -> 0 .. MaxHead]
    <3>1. 0 \in 0 .. MaxHead /\ (next[w] # end[w] => next[w] + 1 \in 0 .. MaxHead)
      BY <1>3
    <3> QED
      BY <1>0, <1>8, <3>1 DEF NamespacesTypeOK
  <2>3. pc' \in [Worker -> {"idle", "head", "select", "fetch"}] /\ ns' \in [Worker -> SUBSET Namespace]
    BY <1>0, <1>8 DEF NamespacesTypeOK
  <2> QED
    BY <1>0, <1>1, <2>1, <2>2, <2>3 DEF NamespacesTypeOK
<1>10. /\ \/ pc'[w] = "select"
          \/ /\ pc'[w] = "fetch" /\ ns'[w] = {n} /\ next[w] # end[w]
             /\ next'[w] = next[w] + 1 /\ end'[w] = end[w]
       /\ \A v \in Worker \ {w} : /\ pc'[v] = pc[v] /\ ns'[v] = ns[v]
                                  /\ next'[v] = next[v] /\ end'[v] = end[v]
  BY <1>0, <1>1, <1>2, <1>8 DEF NamespacesTypeOK
<1>11. NsRunsOK'
  <2> SUFFICES ASSUME NEW v \in Worker PROVE NsRunOK(v)'
    BY DEF NsRunsOK
  <2>1. NsRunOK(v)
    BY <1>0 DEF NsRunsOK
  <2>2. CASE v = w
    BY <1>1, <1>3, <1>10, <2>1, <2>2 DEF NsRunOK
  <2>3. CASE v # w
    BY <1>1, <1>10, <2>1, <2>3 DEF NsRunOK
  <2> QED
    BY <2>2, <2>3
<1>12. NsWalked'
  <2> SUFFICES ASSUME NEW v \in Worker, pc'[v] = "fetch", NEW m \in ns'[v], NEW h \in 1 .. next'[v] - 1
               PROVE  NsAccounted(m, h)'
    BY DEF NsWalked
  <2>1. CASE v = w
    <3>1. m = n /\ next'[w] = next[w] + 1
      BY <1>10, <2>1
    <3>2. CASE h = next[w]
      BY <1>5, <3>1, <3>2 DEF NsAccounted
    <3>3. CASE h # next[w]
      <4>1. h \in 1 .. next[w] - 1
        BY <1>3, <2>1, <3>1, <3>3
      <4> QED
        BY <1>6, <1>7, <3>1, <4>1
    <3> QED
      BY <3>2, <3>3
  <2>2. CASE v # w
    <3>1. pc[v] = "fetch" /\ m \in ns[v] /\ m \in Namespace /\ h \in 1 .. next[v] - 1
      BY <1>0, <1>10, <2>2 DEF NamespacesTypeOK
    <3> QED
      BY <1>0, <1>6, <3>1 DEF NsWalked
  <2> QED
    BY <2>1, <2>2
<1>13. GapsAreTooOld'
  <2> SUFFICES ASSUME NEW m \in Namespace, NEW g \in observed'[m], NEW h \in 1 .. g - 1
               PROVE  NsAccounted(m, h)'
    BY DEF GapsAreTooOld, NsAccounted
  <2>1. CASE g \in observed[m]
    BY <1>0, <1>6, <2>1 DEF GapsAreTooOld, NsAccounted
  <2>2. CASE g \notin observed[m]
    <3>1. m = n /\ g = next[w]
      BY <1>5, <2>2
    <3> QED
      BY <1>6, <1>7, <3>1
  <2> QED
    BY <2>1, <2>2
<1> QED
  BY <1>9, <1>11, <1>12, <1>13 DEF NsInv

\* The steps that touch no row: a run starts, is told the head, or ends in any way.
LEMMA NsOtherRunSteps ==
    ASSUME NsInv, NEW w \in Worker,
           Start(w) \/ ReadHead(w) \/ NoHead(w) \/ EndRun(w) \/ Die(w)
    PROVE  NsInv'
<1>0. NamespacesTypeOK
  BY DEF NsInv
<1>1. UNCHANGED <<active, head, observed, tooOld, switches>>
  BY DEF Start, ReadHead, NoHead, EndRun, Die
<1>2. deaths' \in 0 .. MaxDeaths
  <2>1. deaths \in 0 .. MaxDeaths
    BY <1>0 DEF NamespacesTypeOK
  <2> QED
    BY <2>1 DEF Start, ReadHead, NoHead, EndRun, Die
<1>3. NsGrows
  BY <1>1 DEF NsGrows
<1>4. CASE Finish(w)
  <2>1. NamespacesTypeOK'
    BY <1>0, <1>1, <1>2, <1>4 DEF NamespacesTypeOK, Finish
  <2>2. NsRunOK(w)' /\ pc'[w] # "fetch"
    BY <1>0, <1>4 DEF NamespacesTypeOK, Finish, NsRunOK
  <2>3. \A v \in Worker \ {w} : /\ pc'[v] = pc[v] /\ lh'[v] = lh[v] /\ ns'[v] = ns[v]
                                /\ next'[v] = next[v] /\ end'[v] = end[v]
    BY <1>0, <1>4 DEF NamespacesTypeOK, Finish
  <2> QED
    BY <1>1, <1>3, <2>1, <2>2, <2>3, NsRunStep
<1>5. CASE Start(w)
  <2>1. /\ pc' = [pc EXCEPT ![w] = "head"] /\ ahead' = [ahead EXCEPT ![w] = active]
        /\ UNCHANGED <<lh, ns, next, end, deaths>>
    BY <1>5 DEF Start
  <2>2. NamespacesTypeOK'
    BY <1>0, <1>1, <2>1 DEF NamespacesTypeOK
  <2>3. NsRunOK(w)' /\ pc'[w] # "fetch"
    BY <1>0, <2>1 DEF NamespacesTypeOK, NsRunOK
  <2>4. \A v \in Worker \ {w} : pc'[v] = pc[v]
    BY <1>0, <2>1 DEF NamespacesTypeOK
  <2> QED
    BY <1>1, <1>3, <2>1, <2>2, <2>3, <2>4, NsRunStep
<1>6. CASE ReadHead(w)
  <2>1. /\ pc' = [pc EXCEPT ![w] = "select"] /\ lh' = [lh EXCEPT ![w] = head]
        /\ UNCHANGED <<ahead, ns, next, end, deaths>>
    BY <1>6 DEF ReadHead
  <2>2. head \in 1 .. MaxHead
    BY <1>0 DEF NamespacesTypeOK, Height
  <2>3. NamespacesTypeOK'
    BY <1>0, <1>1, <2>1, <2>2 DEF NamespacesTypeOK
  <2>4. NsRunOK(w)' /\ pc'[w] # "fetch"
    BY <1>0, <2>1, <2>2 DEF NamespacesTypeOK, NsRunOK
  <2>5. \A v \in Worker \ {w} : pc'[v] = pc[v] /\ lh'[v] = lh[v]
    BY <1>0, <2>1 DEF NamespacesTypeOK
  <2> QED
    BY <1>1, <1>3, <2>1, <2>3, <2>4, <2>5, NsRunStep
<1> QED
  BY <1>4, <1>5, <1>6 DEF NoHead, EndRun, Die

LEMMA NsNext == NsInv /\ [NamespacesNext]_namespaceVars => NsInv'
<1> SUFFICES ASSUME NsInv, [NamespacesNext]_namespaceVars PROVE NsInv'
  OBVIOUS
<1>1. ASSUME NamespacesTypeOK', UNCHANGED <<observed, tooOld, pc, lh, ns, next, end>>
      PROVE  NsInv'
  BY <1>1 DEF NsInv, NsRunsOK, NsRunOK, NsWalked, NsAccounted, GapsAreTooOld
<1>2. CASE NewHead
  <2>1. head' \in 1 .. MaxHead
    BY <1>2 DEF NewHead, NsInv, NamespacesTypeOK, Height
  <2>2. NamespacesTypeOK'
    BY <1>2, <2>1 DEF NewHead, local, NsInv, NamespacesTypeOK, Height
  <2> QED
    BY <1>1, <1>2, <2>2 DEF NewHead, local
<1>3. ASSUME NEW n \in Namespace, Switch(n) PROVE NsInv'
  <2>1. switches' \in 0 .. MaxSwitches /\ active' \subseteq Namespace
    BY <1>3 DEF Switch, NsInv, NamespacesTypeOK
  <2>2. NamespacesTypeOK'
    BY <1>3, <2>1 DEF Switch, local, NsInv, NamespacesTypeOK
  <2> QED
    BY <1>1, <1>3, <2>2 DEF Switch, local
<1>4. CASE UNCHANGED namespaceVars
  <2>1. NamespacesTypeOK'
    BY <1>4 DEF namespaceVars, local, NsInv, NamespacesTypeOK
  <2> QED
    BY <1>1, <1>4, <2>1 DEF namespaceVars, local
<1> QED
  BY <1>2, <1>3, <1>4, NsSelectStep, NsObserveStep, NsOtherRunSteps DEF NamespacesNext

\* TypeOK of NamespaceMonitor: no run asks for a height the chain does not have.
THEOREM NamespaceTypeCorrect == NamespacesSpec => []NamespacesTypeOK
<1>1. NsInv => NamespacesTypeOK
  BY DEF NsInv
<1> QED
  BY <1>1, NsInitially, NsNext, PTL DEF NamespacesSpec

\* GapsAreTooOld of NamespaceMonitor: however many runs overlap and die, a namespace has
\* a row of every block below its last one, except of blocks that were more than BACKFILL
\* below the head when a run came to it.
THEOREM NamespaceGapsAreTooOld == NamespacesSpec => []GapsAreTooOld
<1>1. NsInv => GapsAreTooOld
  BY DEF NsInv
<1> QED
  BY <1>1, NsInitially, NsNext, PTL DEF NamespacesSpec

=============================================================================
