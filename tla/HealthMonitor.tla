---------------------------- MODULE HealthMonitor ---------------------------
(***************************************************************************)
(* Monitor of pkg/vmcp/health/monitor.go: one goroutine per monitored      *)
(* backend checks it, periodically, until its context is cancelled.        *)
(* UpdateBackends restarts the goroutine of a backend whose URL changed    *)
(* and cancels that of a removed one WITHOUT waiting for either, so old    *)
(* goroutines with a check still in flight overlap new ones.               *)
(*                                                                         *)
(* A goroutine of backend b lives in a slot of b; a slot is used again     *)
(* once its goroutine has returned.  Slots bounds the goroutines of one    *)
(* backend alive together.                                                 *)
(***************************************************************************)
EXTENDS StatusTracker

CONSTANTS
    Urls,     \* values of (BaseURL, TransportType): what backendChanged compares
    Absent,   \* the backend is not in the list
    Slots,    \* places for goroutines of one backend
    NoSlot    \* activeChecks has no entry

ASSUME MonitorAssumption ==
    /\ Absent \notin Urls
    /\ NoSlot \notin Slots

VARIABLES
    started, stopped,
    stopCaller,     \* the call of Stop: it waits for the goroutines
    backends,       \* m.backends, as a map from ID to URL
    activeChecks,   \* the slot of the goroutine UpdateBackends would cancel
    checks          \* the goroutines

monitorVars == <<started, stopped, stopCaller, backends, activeChecks, checks>>
vars == <<trackerVars, monitorVars>>

\* ready: about to call performHealthCheck; checking: inside CheckHealth;
\* recorded: result recorded, revision not yet; select: in the select.
\* initial: this goroutine still owes initialCheckWg a Done.
Check == [ pc        : {"idle", "ready", "checking", "recorded", "select"},
           url       : Urls \union {Absent},
           cancelled : BOOLEAN,
           initial   : BOOLEAN ]

idleCheck == [pc |-> "idle", url |-> Absent, cancelled |-> FALSE, initial |-> FALSE]

newCheck(url, isInitial) ==
    [pc |-> "ready", url |-> url, cancelled |-> FALSE, initial |-> isInitial]

Running(b, s) == checks[b][s].pc # "idle"

\* Mutated form: the context of the goroutine is not cancelled.
stopNothing(check) == check

\* cancelling the context of a goroutine; idle slots have none
stop(check) == IF check.pc = "idle" THEN check ELSE [check EXCEPT !.cancelled = TRUE]

Init ==
    /\ TrackerInit
    /\ started = FALSE
    /\ stopped = FALSE
    /\ stopCaller = "none"
    /\ backends \in [Backends -> Urls \union {Absent}]
    /\ activeChecks = [b \in Backends |-> NoSlot]
    /\ checks = [b \in Backends |-> [s \in Slots |-> idleCheck]]
-----------------------------------------------------------------------------
(* The lifecycle operations. *)

Start ==
    /\ ~started /\ ~stopped
    /\ started' = TRUE
    /\ \E slot \in [Backends -> Slots] :
          /\ checks' = [b \in Backends |->
                 IF backends[b] = Absent THEN checks[b]
                 ELSE [checks[b] EXCEPT ![slot[b]] = newCheck(backends[b], TRUE)]]
          /\ activeChecks' = [b \in Backends |->
                 IF backends[b] = Absent THEN NoSlot ELSE slot[b]]
    /\ UNCHANGED <<trackerVars, stopped, stopCaller, backends>>

\* Stop cancels the monitor's context, the parent of every goroutine's ...
Stop ==
    /\ started
    /\ started' = FALSE
    /\ stopped' = TRUE
    /\ stopCaller' = "waiting"
    /\ checks' = [b \in Backends |-> [s \in Slots |-> stop(checks[b][s])]]
    /\ UNCHANGED <<trackerVars, backends, activeChecks>>

\* ... and returns when wg.Wait does.
StopReturns ==
    /\ stopCaller = "waiting"
    /\ \A b \in Backends, s \in Slots : ~Running(b, s)
    /\ stopCaller' = "returned"
    /\ UNCHANGED <<trackerVars, started, stopped, backends, activeChecks, checks>>

\* The backends of newBackends whose goroutine is started or restarted, and
\* the ones that are no longer listed.
NewOrChanged(newBackends) ==
    {b \in Backends : /\ newBackends[b] # Absent
                      /\ \/ activeChecks[b] = NoSlot
                         \/ checks[b][activeChecks[b]].url # newBackends[b]}

Gone(newBackends) ==
    {b \in Backends : newBackends[b] = Absent /\ activeChecks[b] # NoSlot}

\* The goroutines of b with the one in activeChecks, if any, cancelled.
StopActive(b) ==
    IF activeChecks[b] = NoSlot THEN checks[b]
    ELSE [checks[b] EXCEPT ![activeChecks[b]] = stop(@)]

\* Runs under m.mu and m.backendsMu.  The tracker is called in between, with
\* its own lock; each call is about one backend and commutes with what the
\* goroutines of the other backends do, so the whole is one action.
ReplaceBackends(newBackends) ==
    LET fresh == NewOrChanged(newBackends)
        gone  == Gone(newBackends)
    IN  /\ backends' = newBackends
        /\ \E slot \in [fresh -> Slots] :
              /\ \A b \in fresh : ~Running(b, slot[b])
              /\ checks' = [b \in Backends |->
                    IF b \in fresh
                    THEN [StopActive(b) EXCEPT ![slot[b]] =
                             newCheck(newBackends[b], FALSE)]
                    ELSE IF b \in gone THEN StopActive(b) ELSE checks[b]]
              /\ activeChecks' = [b \in Backends |->
                    IF b \in fresh THEN slot[b]
                    ELSE IF b \in gone THEN NoSlot ELSE activeChecks[b]]
        /\ RemoveAndClear(gone, fresh)
        /\ UNCHANGED <<started, stopped, stopCaller>>

UpdateBackends(newBackends) ==
    /\ started /\ ~stopped
    /\ ReplaceBackends(newBackends)
-----------------------------------------------------------------------------
(* The goroutine monitorBackend in slot s of backend b. *)

Becomes(b, s, check) ==
    /\ checks' = [checks EXCEPT ![b][s] = check]
    /\ UNCHANGED <<started, stopped, stopCaller, backends, activeChecks>>

\* Mutated form: initialCheckWg.Done() is not called.
AfterCheckSilent(check) == [check EXCEPT !.pc = "select"]

\* The end of performHealthCheck: the initial check is signalled, and the
\* goroutine goes on to its select.
AfterCheck(check) == [check EXCEPT !.pc = "select", !.initial = FALSE]

ShouldAttemptHealthCheck(b, s) ==
    /\ checks[b][s].pc = "ready"
    /\ Becomes(b, s, IF CanAttemptHealthCheck(b)
                     THEN [checks[b][s] EXCEPT !.pc = "checking"]
                     ELSE AfterCheck(checks[b][s]))
    /\ IF CanAttemptHealthCheck(b) THEN AfterShouldAttempt(b)
                                   ELSE UNCHANGED trackerVars

\* CheckHealth returned and its result is recorded, whether or not the
\* goroutine was cancelled meanwhile.
CheckSucceeds(b, s) ==
    /\ checks[b][s].pc = "checking"
    /\ \E status \in SuccessStatus : RecordSuccess(b, status)
    /\ Becomes(b, s, [checks[b][s] EXCEPT !.pc = "recorded"])

CheckFails(b, s) ==
    /\ checks[b][s].pc = "checking"
    /\ \E status \in FailureStatus : RecordFailure(b, status)
    /\ Becomes(b, s, [checks[b][s] EXCEPT !.pc = "recorded"])

\* The client may or may not know the backend's revision.
RefreshRevision(b, s) ==
    /\ checks[b][s].pc = "recorded"
    /\ \/ \E revision \in Revisions : RecordRevision(b, revision)
       \/ UNCHANGED trackerVars
    /\ Becomes(b, s, AfterCheck(checks[b][s]))

\* The select: with both the ticker and ctx.Done() ready either is taken.
TickerFires(b, s) ==
    /\ checks[b][s].pc = "select"
    /\ Becomes(b, s, [checks[b][s] EXCEPT !.pc = "ready"])
    /\ UNCHANGED trackerVars

ContextDone(b, s) ==
    /\ checks[b][s].pc = "select"
    /\ checks[b][s].cancelled
    /\ Becomes(b, s, idleCheck)
    /\ UNCHANGED trackerVars

Goroutine(b, s) ==
    \/ ShouldAttemptHealthCheck(b, s)
    \/ CheckSucceeds(b, s)
    \/ CheckFails(b, s)
    \/ RefreshRevision(b, s)
    \/ TickerFires(b, s)
    \/ ContextDone(b, s)

TimeoutElapses(b) == BreakerTimeoutElapses(b) /\ UNCHANGED monitorVars

GoroutineNext == \E b \in Backends, s \in Slots : Goroutine(b, s)

Next ==
    \/ Start
    \/ Stop
    \/ StopReturns
    \/ \E newBackends \in [Backends -> Urls \union {Absent}] :
          UpdateBackends(newBackends)
    \/ GoroutineNext
    \/ \E b \in Backends : TimeoutElapses(b)

Spec == Init /\ [][Next]_vars
-----------------------------------------------------------------------------
(* Fairness.  The Go scheduler runs every goroutine, CheckHealth is bounded  *)
(* by the probe timeout, tickers fire, and time passes: weak fairness.  A    *)
(* select with both cases ready chooses at random, so a cancelled goroutine  *)
(* that keeps coming back to it leaves it in the end: strong fairness.  The  *)
(* operator who starts, stops and updates the monitor is under no obligation. *)

Fairness ==
    /\ WF_vars(StopReturns)
    /\ \A b \in Backends : WF_vars(TimeoutElapses(b))
    /\ \A b \in Backends, s \in Slots :
          /\ WF_vars(ShouldAttemptHealthCheck(b, s))
          /\ WF_vars(CheckSucceeds(b, s) \/ CheckFails(b, s))
          /\ WF_vars(RefreshRevision(b, s))
          /\ WF_vars(TickerFires(b, s))
          /\ SF_vars(ContextDone(b, s))

FairSpec == Spec /\ Fairness
-----------------------------------------------------------------------------
(* Properties. *)

TypeOK ==
    /\ TrackerTypeOK
    /\ started \in BOOLEAN
    /\ stopped \in BOOLEAN
    /\ stopCaller \in {"none", "waiting", "returned"}
    /\ backends \in [Backends -> Urls \union {Absent}]
    /\ activeChecks \in [Backends -> Slots \union {NoSlot}]
    /\ checks \in [Backends -> [Slots -> Check]]

\* CanAttempt refuses every check while halfOpenTestInProgress is set, so a
\* half-open circuit whose test is not running would never be checked again.
\* Whatever happens to the goroutine that was granted the test (its backend
\* changed, removed and added again, the monitor stopped), a half-open circuit
\* has a check of that backend in flight whose result will move it on.
HalfOpenHasCheckInFlight ==
    \A b \in tracked :
        states[b].circuitBreaker.state = "half-open" =>
            /\ states[b].circuitBreaker.halfOpenTestInProgress
            /\ \E s \in Slots : checks[b][s].pc = "checking"

\* removedBackends does its job: a result that arrives after UpdateBackends
\* removed the backend does not put the backend back into the status report.
NoGhostBackend ==
    \A b \in tracked : backends[b] # Absent

\* A goroutine whose context is not cancelled is the one activeChecks knows,
\* so no goroutine is ever beyond the reach of UpdateBackends, and it checks
\* the URL the backend has now.
LiveCheckIsCurrent ==
    \A b \in Backends, s \in Slots :
        Running(b, s) /\ ~checks[b][s].cancelled =>
            activeChecks[b] = s /\ checks[b][s].url = backends[b]

\* The tracker and the breaker count failures independently of each other;
\* they agree, and the circuit is closed exactly below the breaker's threshold.
CountersAgree ==
    BreakerEnabled =>
        \A b \in tracked :
            LET cb == states[b].circuitBreaker
            IN  /\ cb.failureCount = states[b].consecutiveFailures
                /\ cb.state = "closed" <=> cb.failureCount < FailureThreshold

\* A backend is reported unhealthy or unauthenticated exactly when its last
\* UnhealthyThreshold recorded checks failed, whatever goroutines ran them.
FailingExactlyFromThreshold ==
    \A b \in tracked :
        states[b].status \in FailureStatus
            <=> states[b].consecutiveFailures >= UnhealthyThreshold

\* Stop returns only when no goroutine is left, and none starts afterwards.
StoppedIsQuiet ==
    stopCaller = "returned" => \A b \in Backends, s \in Slots : ~Running(b, s)

\* WaitForInitialHealthChecks returns: every initial goroutine signals its
\* first check, also when it is cancelled before or during that check.
InitialChecksComplete ==
    started ~> \A b \in Backends, s \in Slots : ~checks[b][s].initial

\* Stop does not hang on a goroutine that keeps preferring its ticker.
StopTerminates == stopCaller = "waiting" ~> stopCaller = "returned"

\* The half-open test ends: the backend does not stay excluded behind a test
\* whose goroutine was cancelled, replaced or stopped.
HalfOpenResolves ==
    \A b \in Backends :
        (b \in tracked /\ states[b].circuitBreaker.state = "half-open")
            ~> (b \notin tracked \/ states[b].circuitBreaker.state # "half-open")

\* An open circuit is tested again: it does not stay open while its backend is
\* being monitored.
OpenCircuitIsTested ==
    \A b \in Backends :
        (b \in tracked /\ states[b].circuitBreaker.state = "open")
            ~> (b \notin tracked \/ states[b].circuitBreaker.state # "open" \/ stopped)
=============================================================================
