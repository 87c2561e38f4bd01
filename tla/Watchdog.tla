------------------------------- MODULE Watchdog -------------------------------
(***************************************************************************)
(* workers/avail/watchdog.py, with the submit job (workers/avail/submit.py) *)
(* whose probes it reads and the light client it restarts.  The light      *)
(* client can get stuck on a dead endpoint, where every submit times out;  *)
(* the watchdog restarts it when all probes of the last WINDOW_MIN minutes *)
(* failed, unless it did so in the last COOLDOWN_MIN minutes.              *)
(*                                                                         *)
(* Time is counted in minutes, as ages: an age is the number of minutes    *)
(* that began since the event.  Within a minute things happen in any       *)
(* order, so an event of age exactly n may be a little more or a little    *)
(* less than n minutes old, and a comparison with n can go either way.     *)
(***************************************************************************)
EXTENDS Integers, FiniteSets

CONSTANTS
    PERIOD,           \* minutes between two firings of cron (5)
    SUBMIT_MAX,       \* minutes a submit run can take: SUBMIT_TIMEOUT_SEC and the balance queries
    WATCHDOG_MAX,     \* minutes a watchdog run can take: ssh and LC_HEALTH_TIMEOUT
    WINDOW_MIN,
    FAIL_THRESHOLD,
    COOLDOWN_MIN,
    MaxLost           \* bound: runs that die, or hang, before they are done

ASSUME TimeAssumption ==
    /\ PERIOD \in Nat \ {0} /\ WINDOW_MIN \in Nat \ {0} /\ COOLDOWN_MIN \in Nat \ {0}
    /\ SUBMIT_MAX \in 1 .. PERIOD - 1 /\ WATCHDOG_MAX \in 1 .. PERIOD - 1
ASSUME LimitsAssumption == FAIL_THRESHOLD \in Nat \ {0} /\ MaxLost \in Nat
\* The failures that led to a restart are out of the window before the cooldown is over.
ASSUME CooldownAssumption == WINDOW_MIN + WATCHDOG_MAX < COOLDOWN_MIN

VARIABLES
    minute,     \* minutes since cron fired
    lc,         \* the light client: serving, stuck on a dead endpoint, or down
    probes,     \* table probes: age and submit_success of the recent ones
    submit,     \* the submit run: what it does, or the outcome it will record
    submitAge,  \* for how many minutes
    watchdog,   \* the watchdog run: what it does next
    watchAge,   \* for how many minutes
    logged,     \* age of the newest avail_lc_restart event
    restarted,  \* history: age of the last restart
    confirmed,  \* history: whether that restart has its avail_lc_restart event
    lost        \* runs lost so far

vars == <<minute, lc, probes, submit, submitAge, watchdog, watchAge,
          logged, restarted, confirmed, lost>>

\* Ages up to the point where nothing depends on them any more.
ProbeAge == 0 .. WINDOW_MIN + WATCHDOG_MAX
EventAge == 0 .. COOLDOWN_MIN + 1
Never == COOLDOWN_MIN + 1

Probe == [age : ProbeAge, ok : BOOLEAN]

Older(age) == IF age = Never THEN Never ELSE age + 1

-----------------------------------------------------------------------------
(* What the watchdog reads.                                                *)

\* Mutation: successes in the window are not looked at.
TriggersAnyway(total, fails) == fails >= FAIL_THRESHOLD

\* total < FAIL_THRESHOLD or fails < FAIL_THRESHOLD or successes > 0 returns
Triggers(total, fails) == fails >= FAIL_THRESHOLD /\ total = fails

\* recent_probe_stats: ts > NOW() - WINDOW_MIN minutes
Windows ==
    LET inside == {p \in probes : p.age < WINDOW_MIN}
        edge == {p \in probes : p.age = WINDOW_MIN}
    IN  {inside \union s : s \in SUBSET edge}

\* last_restart_age_min: age is not None and age < COOLDOWN_MIN
InCooldown ==
    IF logged < COOLDOWN_MIN THEN {TRUE}
    ELSE IF logged = COOLDOWN_MIN THEN BOOLEAN ELSE {FALSE}

-----------------------------------------------------------------------------
Init ==
    /\ minute = 0
    /\ lc = "serving"
    /\ probes = {}
    /\ submit = "due" /\ submitAge = 0
    /\ watchdog = "due" /\ watchAge = 0
    /\ logged = Never /\ restarted = Never /\ confirmed = FALSE
    /\ lost = 0

\* Runs keep their time limits: the submit request and the ssh command have timeouts.  The
\* balance query before it has none: a run that hangs there is a lost one.
WithinLimits ==
    /\ submit # "idle" => submitAge < SUBMIT_MAX
    /\ watchdog # "idle" => watchAge < WATCHDOG_MAX

\* A minute begins; cron has started its jobs in the one that ends.
Tick ==
    /\ submit # "due" /\ watchdog # "due"
    /\ WithinLimits
    /\ minute' = (minute + 1) % PERIOD
    /\ submit' = IF minute' = 0 THEN "due" ELSE submit
    /\ submitAge' = IF submit = "idle" THEN 0 ELSE submitAge + 1
    /\ watchdog' = IF minute' = 0 THEN "due" ELSE watchdog
    /\ watchAge' = IF watchdog = "idle" THEN 0 ELSE watchAge + 1
    /\ probes' = {[p EXCEPT !.age = @ + 1] : p \in
                     {q \in probes : q.age < WINDOW_MIN + WATCHDOG_MAX}}
    /\ logged' = Older(logged)
    /\ restarted' = Older(restarted)
    /\ UNCHANGED <<lc, confirmed, lost>>

(* The light client.                                                       *)

Breaks ==
    /\ lc = "serving" /\ lc' = "stuck"
    /\ UNCHANGED <<minute, probes, submit, submitAge, watchdog, watchAge,
                   logged, restarted, confirmed, lost>>

\* After a restart it picks an endpoint, which may be dead too.
ComesUp ==
    /\ lc = "down" /\ lc' \in {"serving", "stuck"}
    /\ UNCHANGED <<minute, probes, submit, submitAge, watchdog, watchAge,
                   logged, restarted, confirmed, lost>>

(* submit.py                                                               *)

\* The request is sent.  A client that is stuck does not answer in time, one
\* that is down refuses the connection, one that serves may answer an error.
Send ==
    /\ submit = "due"
    /\ submit' \in CASE lc = "serving" -> {"ok", "failed"}
                     [] lc = "stuck" -> {"timeout"}
                     [] lc = "down" -> {"failed"}
    /\ UNCHANGED <<minute, lc, probes, submitAge, watchdog, watchAge,
                   logged, restarted, confirmed, lost>>

\* Mutation: a timed out submit raises and is not recorded.
RecordedOutcomesNoTimeout == {"ok", "failed"}

\* Outcomes main records: all of them.
RecordedOutcomes == {"ok", "failed", "timeout"}

\* The probe is recorded, success or not; a timeout takes a minute to come.
Record ==
    /\ submit \in {"ok", "failed", "timeout"}
    /\ submit = "timeout" => submitAge >= 1
    /\ probes' = IF submit \in RecordedOutcomes
                   THEN probes \union {[age |-> 0, ok |-> submit = "ok"]} ELSE probes
    /\ submit' = "idle" /\ submitAge' = 0
    /\ UNCHANGED <<minute, lc, watchdog, watchAge, logged, restarted, confirmed, lost>>

\* The run dies or hangs (the balance query has no timeout): no probe.
LoseSubmit ==
    /\ submit # "idle"
    /\ lost < MaxLost /\ lost' = lost + 1
    /\ submit' = "idle" /\ submitAge' = 0
    /\ UNCHANGED <<minute, lc, probes, watchdog, watchAge, logged, restarted, confirmed>>

(* watchdog.py                                                             *)

WatchdogDone == watchdog' = "idle" /\ watchAge' = 0

ReadStats ==
    /\ watchdog = "due"
    /\ \E window \in Windows :
        IF Triggers(Cardinality(window), Cardinality({p \in window : ~p.ok}))
          THEN watchdog' = "cooldown" /\ UNCHANGED watchAge
          ELSE WatchdogDone
    /\ UNCHANGED <<minute, lc, probes, submit, submitAge, logged, restarted, confirmed, lost>>

ReadCooldown ==
    /\ watchdog = "cooldown"
    /\ \E cooling \in InCooldown :
        IF cooling THEN WatchdogDone ELSE watchdog' = "restart" /\ UNCHANGED watchAge
    /\ UNCHANGED <<minute, lc, probes, submit, submitAge, logged, restarted, confirmed, lost>>

\* systemctl restart has been executed on the light client's host.
Restarts == lc' = "down" /\ restarted' = 0 /\ confirmed' = FALSE

\* ssh returns 0: go on to wait for /v2/status.
Restart ==
    /\ watchdog = "restart"
    /\ Restarts
    /\ watchdog' = "wait"
    /\ UNCHANGED <<minute, probes, submit, submitAge, watchAge, logged, lost>>

\* ssh fails (avail_lc_restart_failed is logged, which the cooldown does not
\* look at) or does not return in 30 s (nothing is logged), before or after the
\* restart has been executed.
RestartFails ==
    /\ watchdog = "restart"
    /\ Restarts \/ UNCHANGED <<lc, restarted, confirmed>>
    /\ WatchdogDone
    /\ UNCHANGED <<minute, probes, submit, submitAge, logged, lost>>

\* Mutation: the event is logged as if the client had not come back.
LoggedAfterNone == logged

\* avail_lc_restart is logged.
LoggedAfter == 0

\* /v2/status answers.
Healthy ==
    /\ watchdog = "wait" /\ lc # "down"
    /\ logged' = LoggedAfter
    /\ confirmed' = TRUE
    /\ WatchdogDone
    /\ UNCHANGED <<minute, lc, probes, submit, submitAge, restarted, lost>>

\* LC_HEALTH_TIMEOUT: avail_lc_restart_unhealthy is logged.
Unhealthy ==
    /\ watchdog = "wait" /\ lc = "down" /\ watchAge >= 1
    /\ WatchdogDone
    /\ UNCHANGED <<minute, lc, probes, submit, submitAge, logged, restarted, confirmed, lost>>

\* The run dies or never starts.
LoseWatchdog ==
    /\ watchdog # "idle"
    /\ lost < MaxLost /\ lost' = lost + 1
    /\ WatchdogDone
    /\ UNCHANGED <<minute, lc, probes, submit, submitAge, logged, restarted, confirmed>>

Next ==
    \/ Tick \/ Breaks \/ ComesUp
    \/ Send \/ Record \/ LoseSubmit
    \/ ReadStats \/ ReadCooldown \/ Restart \/ RestartFails \/ Healthy \/ Unhealthy
    \/ LoseWatchdog

\* Time passes and runs go on.  ssh may fail any number of times, but not each
\* time for ever.
Fairness ==
    /\ WF_vars(Tick) /\ WF_vars(ComesUp)
    /\ WF_vars(Send \/ Record)
    /\ WF_vars(ReadStats \/ ReadCooldown \/ Restart \/ RestartFails \/ Healthy \/ Unhealthy)
    /\ SF_vars(Restart)

Spec == Init /\ [][Next]_vars /\ Fairness

-----------------------------------------------------------------------------
TypeOK ==
    /\ minute \in 0 .. PERIOD - 1
    /\ lc \in {"serving", "stuck", "down"}
    /\ probes \subseteq Probe
    /\ submit \in {"idle", "due", "ok", "failed", "timeout"} /\ submitAge \in 0 .. SUBMIT_MAX
    /\ watchdog \in {"idle", "due", "cooldown", "restart", "wait"}
    /\ watchAge \in 0 .. WATCHDOG_MAX
    /\ logged \in EventAge /\ restarted \in EventAge /\ confirmed \in BOOLEAN
    /\ lost \in 0 .. MaxLost

\* A step in which the watchdog has the client restarted.
Restarting == (Restart \/ RestartFails) /\ restarted' = 0

\* The light client is not restarted without evidence that still holds at the
\* restart: enough probes failed in the window the run read, and of that window
\* none succeeded.
RestartJustified ==
    [][Restarting =>
        /\ Cardinality({p \in probes : ~p.ok /\ p.age - watchAge <= WINDOW_MIN}) >= FAIL_THRESHOLD
        /\ \A p \in probes : p.ok => \/ p.age <= watchAge
                                     \/ p.age - watchAge >= WINDOW_MIN]_vars

\* A restart that is known to have worked is left alone for COOLDOWN_MIN minutes,
\* and so the failures that led to it cannot lead to another one.
ConfirmedRestartRests ==
    [][Restarting /\ confirmed =>
        /\ restarted >= COOLDOWN_MIN
        /\ \A p \in probes : p.age <= WINDOW_MIN + watchAge => p.age < restarted]_vars

\* A stuck client gets restarted, or at least does not stay stuck, although runs
\* get lost and ssh fails now and then.
StuckIsRestarted == lc = "stuck" ~> lc # "stuck"

\* Promised by the docstring ("no restart in last COOLDOWN minutes (avoid restart
\* loop)", "throttled by COOLDOWN_MIN"): the client is restarted at most once in
\* COOLDOWN_MIN minutes.
Throttled == [][Restarting => restarted >= COOLDOWN_MIN]_vars

=============================================================================
