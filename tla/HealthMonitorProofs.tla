------------------------- MODULE HealthMonitorProofs ------------------------
(***************************************************************************)
(* The safety properties of HealthMonitor, for every set of backends,      *)
(* URLs and slots and all thresholds.                                      *)
(*                                                                         *)
(* HInv is the inductive invariant.  Its first half speaks about one       *)
(* tracked state at a time (GoodState), its second half ties goroutines,   *)
(* activeChecks, m.backends and removedBackends together.                  *)
(***************************************************************************)
EXTENDS HealthMonitor, TLAPS

\* A breaker is half-open exactly while its test is in progress, and closed
\* exactly below the threshold; a disabled one is always closed.
GoodBreaker(cb) ==
    /\ cb \in circuitBreaker
    /\ cb.state = "half-open" <=> cb.halfOpenTestInProgress
    /\ BreakerEnabled => (cb.state = "closed" <=> cb.failureCount < FailureThreshold)
    /\ ~BreakerEnabled => cb.state = "closed"

GoodState(st) ==
    /\ st \in backendHealthState
    /\ GoodBreaker(st.circuitBreaker)
    /\ BreakerEnabled => st.circuitBreaker.failureCount = st.consecutiveFailures
    /\ st.status \in FailureStatus <=> st.consecutiveFailures >= UnhealthyThreshold

GoodStates == \A b \in tracked : GoodState(states[b])

HalfOpenChecked ==
    \A b \in tracked :
        states[b].circuitBreaker.state = "half-open" =>
            \E s \in Slots : checks[b][s].pc = "checking"

\* Before Start nothing runs and nothing is known; Stop is the only way out.
Lifecycle ==
    /\ stopped <=> stopCaller # "none"
    /\ started => ~stopped
    /\ ~started /\ ~stopped =>
          /\ tracked = {} /\ removedBackends = {}
          /\ \A b \in Backends :
                /\ activeChecks[b] = NoSlot
                /\ \A s \in Slots : ~Running(b, s)

\* While the monitor runs, every listed backend has its goroutine, checking
\* the listed URL, under activeChecks, and only listed backends do.
ActiveIsListed ==
    started => \A b \in Backends :
        /\ activeChecks[b] = NoSlot <=> backends[b] = Absent
        /\ activeChecks[b] # NoSlot =>
              /\ Running(b, activeChecks[b])
              /\ ~checks[b][activeChecks[b]].cancelled
              /\ checks[b][activeChecks[b]].url = backends[b]

\* Every other goroutine has been cancelled; after Stop, every goroutine.
OthersCancelled ==
    \A b \in Backends, s \in Slots :
        Running(b, s) /\ ~checks[b][s].cancelled => started /\ activeChecks[b] = s

\* A goroutine that outlives its backend finds the backend flagged as removed,
\* and only unlisted backends are flagged.
RemovedFlagIsExact ==
    \A b \in Backends :
        /\ b \in removedBackends => backends[b] = Absent
        /\ \A s \in Slots :
              Running(b, s) /\ backends[b] = Absent => b \in removedBackends

HInv ==
    /\ TypeOK
    /\ GoodStates
    /\ HalfOpenChecked
    /\ Lifecycle
    /\ ActiveIsListed
    /\ OthersCancelled
    /\ RemovedFlagIsExact
    /\ NoGhostBackend
    /\ StoppedIsQuiet
-----------------------------------------------------------------------------
(* The operators of the breaker and of one tracked state. *)

\* The saturating counter stays in range and counts exactly below MaxCount.
LEMMA CountUpFact ==
    ASSUME NEW n \in 0..MaxCount
    PROVE  /\ CountUp(n) \in 0..MaxCount
           /\ n < MaxCount => CountUp(n) = n + 1
           /\ n = MaxCount => CountUp(n) = n
BY BreakerAssumption DEF CountUp

\* circuitBreaker.RecordSuccess closes the circuit and clears the counter.
LEMMA BreakerSuccess ==
    ASSUME NEW cb, GoodBreaker(cb)
    PROVE  LET r == BreakerRecordSuccess(cb)
           IN  GoodBreaker(r) /\ r.failureCount = 0 /\ r.state = "closed"
<1> DEFINE r == BreakerRecordSuccess(cb)
<1>1. r \in circuitBreaker
  <2>1. cb \in circuitBreaker /\ 0 \in 0..MaxCount
    BY BreakerAssumption DEF GoodBreaker
  <2>2. CASE cb.state = "closed"
    BY Zenon, <2>1, <2>2 DEF BreakerRecordSuccess, circuitBreaker
  <2>3. CASE cb.state # "closed"
    BY Zenon, <2>1, <2>3 DEF BreakerRecordSuccess, transitionTo, circuitBreaker, CircuitState
  <2> QED
    BY <2>2, <2>3
<1>2. /\ r.failureCount = 0
      /\ r.state = "closed"
      /\ r.halfOpenTestInProgress = FALSE
  BY BreakerAssumption
     DEF GoodBreaker, BreakerRecordSuccess, transitionTo, circuitBreaker, CircuitState
<1> QED
  BY <1>1, <1>2, BreakerAssumption DEF GoodBreaker

\* circuitBreaker.RecordFailure counts, and never leaves a half-open circuit.
LEMMA BreakerFailure ==
    ASSUME NEW cb, GoodBreaker(cb)
    PROVE  LET r == BreakerRecordFailure(cb)
           IN  /\ GoodBreaker(r)
               /\ r.state # "half-open"
               /\ BreakerEnabled => r.failureCount = CountUp(cb.failureCount)
<1>1. cb.failureCount \in 0..MaxCount
  BY DEF GoodBreaker, circuitBreaker
<1> DEFINE r == BreakerRecordFailure(cb)
<1>2. CASE ~BreakerEnabled
  BY <1>2 DEF BreakerRecordFailure, GoodBreaker
<1>3. CASE BreakerEnabled
  <2>1. r \in circuitBreaker
    BY Zenon, <1>1, <1>3, CountUpFact
       DEF GoodBreaker, BreakerRecordFailure, transitionTo, circuitBreaker, CircuitState
  <2>2. /\ r.failureCount = CountUp(cb.failureCount)
        /\ r.halfOpenTestInProgress = FALSE
        /\ r.state = IF \/ cb.state = "closed" /\ CountUp(cb.failureCount) >= FailureThreshold
                       \/ cb.state = "half-open"
                    THEN "open" ELSE cb.state
    BY <1>1, <1>3
       DEF GoodBreaker, BreakerRecordFailure, transitionTo, circuitBreaker, CircuitState
  <2>3. r.state # "half-open"
    BY <2>2
  <2>4. r.state = "closed" <=> r.failureCount < FailureThreshold
    BY <1>1, <1>3, <2>2, CountUpFact, BreakerAssumption
       DEF GoodBreaker, circuitBreaker, CircuitState
  <2> QED
    BY <1>3, <2>1, <2>2, <2>3, <2>4 DEF GoodBreaker
<1> QED
  BY <1>2, <1>3

\* A granted CanAttempt leaves the circuit closed or in its half-open test.
LEMMA BreakerAttempt ==
    ASSUME NEW cb, GoodBreaker(cb), CanAttempt(cb)
    PROVE  LET r == AfterCanAttempt(cb)
           IN  GoodBreaker(r) /\ r.failureCount = cb.failureCount
BY Zenon, BreakerAssumption
   DEF GoodBreaker, CanAttempt, AfterCanAttempt, transitionTo, circuitBreaker, CircuitState

\* The state created for a backend seen for the first time.
LEMMA NewStateGood == GoodState(noState)
<1>1. newCircuitBreaker \in circuitBreaker
  BY BreakerAssumption DEF newCircuitBreaker, circuitBreaker, CircuitState
<1>2. GoodBreaker(newCircuitBreaker)
  <2>1. /\ newCircuitBreaker.state = "closed"
        /\ newCircuitBreaker.failureCount = 0
        /\ newCircuitBreaker.halfOpenTestInProgress = FALSE
    BY DEF newCircuitBreaker
  <2> QED
    BY <1>1, <2>1, BreakerAssumption DEF GoodBreaker
<1>3. noState \in backendHealthState
  BY <1>1, BreakerAssumption DEF noState, backendHealthState, BackendHealthStatus
<1>4. /\ noState.circuitBreaker = newCircuitBreaker
      /\ noState.consecutiveFailures = 0
      /\ noState.status = "unknown"
      /\ newCircuitBreaker.failureCount = 0
  BY DEF noState, newCircuitBreaker
<1>5. noState.status \in FailureStatus <=> noState.consecutiveFailures >= UnhealthyThreshold
  <2>1. noState.status \notin FailureStatus
    BY <1>4 DEF FailureStatus
  <2>2. ~(noState.consecutiveFailures >= UnhealthyThreshold)
    BY <1>4, TrackerAssumption
  <2> QED
    BY <2>1, <2>2
<1> QED
  BY <1>2, <1>3, <1>4, <1>5 DEF GoodState

\* statusTracker.RecordSuccess on one state.
LEMMA StateSuccess ==
    ASSUME NEW st, GoodState(st), NEW status \in SuccessStatus
    PROVE  LET r == Succeeded(st, status)
           IN  GoodState(r) /\ r.circuitBreaker.state # "half-open"
<1> DEFINE r == Succeeded(st, status)
           cb == BreakerRecordSuccess(st.circuitBreaker)
<1>1. GoodBreaker(cb) /\ cb.failureCount = 0 /\ cb.state = "closed"
  BY BreakerSuccess DEF GoodState
<1>2. cb \in circuitBreaker /\ 0 \in 0..MaxCount
  BY <1>1, BreakerAssumption DEF GoodBreaker
<1>3. /\ r.circuitBreaker = cb
      /\ r.consecutiveFailures = 0
      /\ r.status \in SuccessStatus
  BY DEF GoodState, Succeeded, backendHealthState, SuccessStatus
<1>4. r \in backendHealthState
  BY Zenon, <1>2 DEF GoodState, Succeeded, backendHealthState, BackendHealthStatus, SuccessStatus
<1>5. /\ r.status \notin FailureStatus
      /\ ~(r.consecutiveFailures >= UnhealthyThreshold)
  BY <1>3, TrackerAssumption DEF SuccessStatus, FailureStatus
<1>6. BreakerEnabled => r.circuitBreaker.failureCount = r.consecutiveFailures
  BY <1>1, <1>3
<1> QED
  BY <1>1, <1>3, <1>4, <1>5, <1>6 DEF GoodState

\* statusTracker.RecordFailure on one state.
LEMMA StateFailure ==
    ASSUME NEW st, GoodState(st), NEW status \in FailureStatus
    PROVE  LET r == Failed(st, status)
           IN  GoodState(r) /\ r.circuitBreaker.state # "half-open"
<1> DEFINE r == Failed(st, status)
           n == CountUp(st.consecutiveFailures)
           cb == BreakerRecordFailure(st.circuitBreaker)
<1>1. /\ GoodBreaker(cb)
      /\ cb.state # "half-open"
      /\ BreakerEnabled => cb.failureCount = CountUp(st.circuitBreaker.failureCount)
  BY BreakerFailure DEF GoodState
<1>2. /\ st.consecutiveFailures \in 0..MaxCount
      /\ n \in 0..MaxCount
      /\ cb \in circuitBreaker
  BY <1>1, CountUpFact DEF GoodState, backendHealthState, GoodBreaker
<1>3. /\ r.circuitBreaker = cb
      /\ r.consecutiveFailures = n
      /\ r.status = IF n >= UnhealthyThreshold THEN status ELSE st.status
  BY DEF GoodState, Failed, backendHealthState
<1>4. r \in backendHealthState
  BY Zenon, <1>2 DEF GoodState, Failed, backendHealthState, BackendHealthStatus
<1>5. r.status \in FailureStatus <=> r.consecutiveFailures >= UnhealthyThreshold
  <2>1. CASE n >= UnhealthyThreshold
    BY <1>3, <2>1
  <2>2. CASE ~(n >= UnhealthyThreshold)
    <3>1. ~(st.consecutiveFailures >= UnhealthyThreshold)
      BY <1>2, <2>2, CountUpFact, TrackerAssumption, BreakerAssumption
    <3> QED
      BY <1>3, <2>2, <3>1 DEF GoodState
  <2> QED
    BY <2>1, <2>2
<1>6. BreakerEnabled => r.circuitBreaker.failureCount = r.consecutiveFailures
  BY <1>1, <1>3 DEF GoodState
<1> QED
  BY <1>1, <1>3, <1>4, <1>5, <1>6 DEF GoodState

\* Asking CanAttempt, and time passing, keep a state good.
LEMMA StateAttempt ==
    ASSUME NEW st, GoodState(st), CanAttempt(st.circuitBreaker)
    PROVE  GoodState([st EXCEPT !.circuitBreaker = AfterCanAttempt(@)])
<1> DEFINE r == [st EXCEPT !.circuitBreaker = AfterCanAttempt(@)]
           cb == AfterCanAttempt(st.circuitBreaker)
<1>1. GoodBreaker(cb) /\ cb.failureCount = st.circuitBreaker.failureCount
  BY BreakerAttempt DEF GoodState
<1>2. cb \in circuitBreaker
  BY <1>1 DEF GoodBreaker
<1>3. /\ r.circuitBreaker = cb
      /\ r.consecutiveFailures = st.consecutiveFailures
      /\ r.status = st.status
      /\ r \in backendHealthState
  BY <1>2 DEF GoodState, backendHealthState
<1> QED
  BY <1>1, <1>3 DEF GoodState

LEMMA StateElapse ==
    ASSUME NEW st, GoodState(st)
    PROVE  LET r == [st EXCEPT !.circuitBreaker.elapsed = TRUE]
           IN  GoodState(r) /\ r.circuitBreaker.state = st.circuitBreaker.state
<1> DEFINE r == [st EXCEPT !.circuitBreaker.elapsed = TRUE]
           cb == [st.circuitBreaker EXCEPT !.elapsed = TRUE]
<1>1. /\ cb \in circuitBreaker
      /\ cb.state = st.circuitBreaker.state
      /\ cb.failureCount = st.circuitBreaker.failureCount
      /\ cb.halfOpenTestInProgress = st.circuitBreaker.halfOpenTestInProgress
  BY Zenon DEF GoodState, backendHealthState, circuitBreaker
<1>2. GoodBreaker(cb)
  BY <1>1 DEF GoodState, GoodBreaker
<1>3. /\ r.circuitBreaker = cb
      /\ r.consecutiveFailures = st.consecutiveFailures
      /\ r.status = st.status
      /\ r \in backendHealthState
  BY Zenon, <1>1 DEF GoodState, backendHealthState
<1> QED
  BY Zenon, <1>1, <1>2, <1>3 DEF GoodState

LEMMA StateRevision ==
    ASSUME NEW st, GoodState(st), NEW revision \in Revisions
    PROVE  LET r == [st EXCEPT !.mcpRevision = revision]
           IN  GoodState(r) /\ r.circuitBreaker = st.circuitBreaker
<1> DEFINE r == [st EXCEPT !.mcpRevision = revision]
<1>1. /\ r.circuitBreaker = st.circuitBreaker
      /\ r.consecutiveFailures = st.consecutiveFailures
      /\ r.status = st.status
      /\ r \in backendHealthState
  BY DEF GoodState, backendHealthState
<1> QED
  BY <1>1 DEF GoodState
-----------------------------------------------------------------------------
(* A step of a goroutine. *)

\* What a step of a live goroutine that stays alive cannot disturb.
LEMMA GoroutineFrame ==
    ASSUME HInv,
           NEW b \in Backends, NEW s \in Slots, Running(b, s),
           NEW check \in Check, Becomes(b, s, check),
           check.pc # "idle",
           check.cancelled = checks[b][s].cancelled,
           check.url = checks[b][s].url,
           states' \in [Backends -> backendHealthState],
           removedBackends' = removedBackends,
           \/ tracked' = tracked
           \/ tracked' = tracked \union {b} /\ b \notin removedBackends
    PROVE  /\ TypeOK'
           /\ Lifecycle'
           /\ ActiveIsListed'
           /\ OthersCancelled'
           /\ RemovedFlagIsExact'
           /\ NoGhostBackend'
           /\ StoppedIsQuiet'
<1>1. /\ checks \in [Backends -> [Slots -> Check]]
      /\ checks' = [checks EXCEPT ![b][s] = check]
      /\ checks' \in [Backends -> [Slots -> Check]]
      /\ UNCHANGED <<started, stopped, stopCaller, backends, activeChecks, removedBackends>>
  BY DEF HInv, TypeOK, Becomes
<1>2. \A c \in Backends, t \in Slots :
         /\ checks'[c][t].cancelled = checks[c][t].cancelled
         /\ checks'[c][t].url = checks[c][t].url
         /\ Running(c, t)' <=> Running(c, t)
  BY <1>1 DEF Running
<1>3. started \/ stopped
  BY DEF HInv, Lifecycle
<1>4. backends[b] = Absent => b \in removedBackends
  BY DEF HInv, RemovedFlagIsExact
<1>5. TypeOK'
  BY <1>1 DEF HInv, TypeOK, TrackerTypeOK
<1>6. Lifecycle'
  BY <1>1, <1>3 DEF HInv, Lifecycle
<1>7. ActiveIsListed'
  <2>1. \A c \in Backends : activeChecks[c] # NoSlot => activeChecks[c] \in Slots
    BY DEF HInv, TypeOK
  <2> QED
    BY <1>1, <1>2, <2>1 DEF HInv, ActiveIsListed, Running
<1>8. OthersCancelled'
  BY <1>1, <1>2 DEF HInv, OthersCancelled
<1>9. RemovedFlagIsExact'
  BY <1>1, <1>2 DEF HInv, RemovedFlagIsExact
<1>10. NoGhostBackend'
  BY <1>1, <1>4 DEF HInv, NoGhostBackend
<1>11. StoppedIsQuiet'
  BY <1>1, <1>2 DEF HInv, StoppedIsQuiet
<1> QED
  BY <1>5, <1>6, <1>7, <1>8, <1>9, <1>10, <1>11

LEMMA ShouldAttemptPreserves ==
    ASSUME HInv, NEW b \in Backends, NEW s \in Slots, ShouldAttemptHealthCheck(b, s)
    PROVE  HInv'
<1>1. /\ Running(b, s)
      /\ checks[b][s] \in Check
      /\ checks \in [Backends -> [Slots -> Check]]
      /\ states \in [Backends -> backendHealthState]
      /\ checks[b][s].pc = "ready"
  BY DEF HInv, TypeOK, TrackerTypeOK, Running, ShouldAttemptHealthCheck
<1>2. CASE CanAttemptHealthCheck(b)
  <2> DEFINE check == [checks[b][s] EXCEPT !.pc = "checking"]
  <2>1. /\ check \in Check
        /\ check.pc = "checking"
        /\ check.cancelled = checks[b][s].cancelled
        /\ check.url = checks[b][s].url
        /\ Becomes(b, s, check)
        /\ AfterShouldAttempt(b)
    BY Zenon, <1>1, <1>2 DEF Check, ShouldAttemptHealthCheck
  <2>2. checks' = [checks EXCEPT ![b][s] = check]
    BY <2>1 DEF Becomes
  <2>3. checks'[b][s].pc = "checking"
    BY <1>1, <2>1, <2>2
  <2>4. \A c \in Backends : c # b => checks'[c] = checks[c]
    BY <1>1, <2>2
  <2>5. CASE b \in tracked
    <3> DEFINE st == [states[b] EXCEPT !.circuitBreaker = AfterCanAttempt(@)]
    <3>1. /\ tracked' = tracked /\ removedBackends' = removedBackends
          /\ states' = [states EXCEPT ![b] = st]
      BY <2>1, <2>5 DEF AfterShouldAttempt
    <3>2. GoodState(st)
      BY <1>2, <2>5, StateAttempt DEF HInv, GoodStates, CanAttemptHealthCheck
    <3>3. states' \in [Backends -> backendHealthState]
      BY <1>1, <3>1, <3>2 DEF GoodState
    <3>4. tracked \subseteq Backends
      BY DEF HInv, TypeOK, TrackerTypeOK
    <3>5. GoodStates'
      BY <1>1, <3>1, <3>2, <3>4 DEF HInv, GoodStates
    <3>6. HalfOpenChecked'
      BY <1>1, <2>3, <2>4, <3>1, <3>4 DEF HInv, HalfOpenChecked
    <3> QED
      BY Zenon, <1>1, <2>1, <3>1, <3>3, <3>5, <3>6, GoroutineFrame DEF HInv
  <2>6. CASE b \notin tracked
    <3>1. UNCHANGED <<tracked, removedBackends, states>>
      BY <2>1, <2>6 DEF AfterShouldAttempt
    <3>2. tracked \subseteq Backends
      BY DEF HInv, TypeOK, TrackerTypeOK
    <3>3. GoodStates' /\ HalfOpenChecked'
      BY <2>4, <2>6, <3>1, <3>2 DEF HInv, GoodStates, HalfOpenChecked
    <3> QED
      BY Zenon, <1>1, <2>1, <3>1, <3>3, GoroutineFrame DEF HInv
  <2> QED
    BY <2>5, <2>6
<1>3. CASE ~CanAttemptHealthCheck(b)
  <2> DEFINE check == AfterCheck(checks[b][s])
  <2>1. /\ check \in Check
        /\ check.pc = "select"
        /\ check.cancelled = checks[b][s].cancelled
        /\ check.url = checks[b][s].url
        /\ Becomes(b, s, check)
        /\ UNCHANGED <<tracked, removedBackends, states>>
    BY Zenon, <1>1, <1>3 DEF Check, ShouldAttemptHealthCheck, trackerVars, AfterCheck
  <2>2. checks' = [checks EXCEPT ![b][s] = check]
    BY <2>1 DEF Becomes
  <2>3. \A c \in Backends, t \in Slots :
            checks[c][t].pc = "checking" => checks'[c][t].pc = "checking"
    BY <1>1, <2>2
  <2>4. tracked \subseteq Backends
    BY DEF HInv, TypeOK, TrackerTypeOK
  <2>5. GoodStates' /\ HalfOpenChecked'
    BY <2>1, <2>3, <2>4 DEF HInv, GoodStates, HalfOpenChecked
  <2> QED
    BY <1>1, <2>1, <2>5, GoroutineFrame DEF HInv
<1> QED
  BY <1>2, <1>3

\* Recording a result, whichever it is: the circuit is left out of half-open,
\* so the goroutine may stop being the one that tests it.
LEMMA RecordPreserves ==
    ASSUME HInv, NEW b \in Backends, NEW s \in Slots,
           checks[b][s].pc = "checking",
           NEW st, GoodState(st), st.circuitBreaker.state # "half-open",
           Store(b, st),
           Becomes(b, s, [checks[b][s] EXCEPT !.pc = "recorded"])
    PROVE  HInv'
<1> DEFINE check == [checks[b][s] EXCEPT !.pc = "recorded"]
<1>1. /\ Running(b, s)
      /\ checks[b][s] \in Check
      /\ checks \in [Backends -> [Slots -> Check]]
      /\ states \in [Backends -> backendHealthState]
      /\ tracked \subseteq Backends
  BY DEF HInv, TypeOK, TrackerTypeOK, Running
<1>2. /\ check \in Check
      /\ check.pc = "recorded"
      /\ check.cancelled = checks[b][s].cancelled
      /\ check.url = checks[b][s].url
  BY Zenon, <1>1 DEF Check
<1>3. checks' = [checks EXCEPT ![b][s] = check]
  BY DEF Becomes
<1>4. \A c \in Backends : c # b => checks'[c] = checks[c]
  BY <1>1, <1>3
<1>5. CASE b \in removedBackends
  <2>1. UNCHANGED <<tracked, removedBackends, states>>
    BY <1>5 DEF Store, trackerVars
  <2>2. b \notin tracked
    BY <1>5 DEF HInv, NoGhostBackend, RemovedFlagIsExact
  <2>3. GoodStates' /\ HalfOpenChecked'
    BY <1>1, <1>4, <2>1, <2>2 DEF HInv, GoodStates, HalfOpenChecked
  <2> QED
    BY Zenon, <1>1, <1>2, <2>1, <2>3, GoroutineFrame DEF HInv
<1>6. CASE b \notin removedBackends
  <2>1. /\ tracked' = tracked \union {b}
        /\ states' = [states EXCEPT ![b] = st]
        /\ removedBackends' = removedBackends
    BY <1>6 DEF Store
  <2>2. states' \in [Backends -> backendHealthState]
    BY <1>1, <2>1 DEF GoodState
  <2>3. GoodStates'
    BY <1>1, <2>1 DEF HInv, GoodStates
  <2>4. HalfOpenChecked'
    BY <1>1, <1>4, <2>1 DEF HInv, HalfOpenChecked
  <2> QED
    BY Zenon, <1>1, <1>2, <1>6, <2>1, <2>2, <2>3, <2>4, GoroutineFrame DEF HInv
<1> QED
  BY <1>5, <1>6

\* The state a result is applied to.
LEMMA CurrentStateGood ==
    ASSUME HInv, NEW b \in Backends
    PROVE  GoodState(getOrCreateState(b))
BY NewStateGood DEF HInv, GoodStates, getOrCreateState

LEMMA CheckPreserves ==
    ASSUME HInv, NEW b \in Backends, NEW s \in Slots,
           CheckSucceeds(b, s) \/ CheckFails(b, s)
    PROVE  HInv'
<1> DEFINE old == getOrCreateState(b)
<1>0. GoodState(old)
  BY CurrentStateGood
<1>1. CASE CheckSucceeds(b, s)
  <2>1. PICK status \in SuccessStatus : RecordSuccess(b, status)
    BY <1>1 DEF CheckSucceeds
  <2>2. GoodState(Succeeded(old, status))
        /\ Succeeded(old, status).circuitBreaker.state # "half-open"
    BY <1>0, StateSuccess
  <2> QED
    BY <1>1, <2>1, <2>2, RecordPreserves DEF CheckSucceeds, RecordSuccess
<1>2. CASE CheckFails(b, s)
  <2>1. PICK status \in FailureStatus : RecordFailure(b, status)
    BY <1>2 DEF CheckFails
  <2>2. GoodState(Failed(old, status))
        /\ Failed(old, status).circuitBreaker.state # "half-open"
    BY <1>0, StateFailure
  <2> QED
    BY <1>2, <2>1, <2>2, RecordPreserves DEF CheckFails, RecordFailure
<1> QED
  BY <1>1, <1>2

LEMMA RefreshPreserves ==
    ASSUME HInv, NEW b \in Backends, NEW s \in Slots, RefreshRevision(b, s)
    PROVE  HInv'
<1> DEFINE check == AfterCheck(checks[b][s])
<1>1. /\ Running(b, s)
      /\ checks[b][s] \in Check
      /\ checks \in [Backends -> [Slots -> Check]]
      /\ states \in [Backends -> backendHealthState]
      /\ tracked \subseteq Backends
      /\ checks[b][s].pc = "recorded"
  BY DEF HInv, TypeOK, TrackerTypeOK, Running, RefreshRevision
<1>2. /\ check \in Check
      /\ check.pc = "select"
      /\ check.cancelled = checks[b][s].cancelled
      /\ check.url = checks[b][s].url
      /\ Becomes(b, s, check)
  BY Zenon, <1>1 DEF Check, AfterCheck, RefreshRevision
<1>3. checks' = [checks EXCEPT ![b][s] = check]
  BY <1>2 DEF Becomes
<1>4. \A c \in Backends, t \in Slots :
          checks[c][t].pc = "checking" => checks'[c][t].pc = "checking"
  BY <1>1, <1>3
<1>5. CASE UNCHANGED <<tracked, removedBackends, states>>
  <2>1. GoodStates' /\ HalfOpenChecked'
    BY <1>1, <1>4, <1>5 DEF HInv, GoodStates, HalfOpenChecked
  <2> QED
    BY <1>1, <1>2, <1>5, <2>1, GoroutineFrame DEF HInv
<1>6. CASE b \in tracked /\ \E revision \in Revisions : RecordRevision(b, revision)
  <2>1. PICK revision \in Revisions : RecordRevision(b, revision)
    BY <1>6
  <2> DEFINE st == [states[b] EXCEPT !.mcpRevision = revision]
  <2>2. /\ tracked' = tracked /\ removedBackends' = removedBackends
        /\ states' = [states EXCEPT ![b] = st]
    BY Zenon, <1>6, <2>1 DEF RecordRevision
  <2>3. GoodState(st) /\ st.circuitBreaker = states[b].circuitBreaker
    BY <1>6, StateRevision DEF HInv, GoodStates
  <2>4. states' \in [Backends -> backendHealthState]
    BY <1>1, <2>2, <2>3 DEF GoodState
  <2>5. GoodStates'
    BY <1>1, <2>2, <2>3 DEF HInv, GoodStates
  <2>6. HalfOpenChecked'
    BY <1>1, <1>4, <2>2, <2>3 DEF HInv, HalfOpenChecked
  <2> QED
    BY <1>1, <1>2, <2>2, <2>4, <2>5, <2>6, GoroutineFrame DEF HInv
<1> QED
  BY <1>5, <1>6 DEF RefreshRevision, RecordRevision, trackerVars

LEMMA TickerPreserves ==
    ASSUME HInv, NEW b \in Backends, NEW s \in Slots, TickerFires(b, s)
    PROVE  HInv'
<1> DEFINE check == [checks[b][s] EXCEPT !.pc = "ready"]
<1>1. /\ Running(b, s)
      /\ checks[b][s] \in Check
      /\ checks \in [Backends -> [Slots -> Check]]
      /\ states \in [Backends -> backendHealthState]
      /\ tracked \subseteq Backends
      /\ checks[b][s].pc = "select"
      /\ UNCHANGED <<tracked, removedBackends, states>>
  BY DEF HInv, TypeOK, TrackerTypeOK, Running, TickerFires, trackerVars
<1>2. /\ check \in Check
      /\ check.pc = "ready"
      /\ check.cancelled = checks[b][s].cancelled
      /\ check.url = checks[b][s].url
      /\ Becomes(b, s, check)
  BY <1>1 DEF Check, TickerFires
<1>3. checks' = [checks EXCEPT ![b][s] = check]
  BY <1>2 DEF Becomes
<1>4. \A c \in Backends, t \in Slots :
          checks[c][t].pc = "checking" => checks'[c][t].pc = "checking"
  BY <1>1, <1>3
<1>5. GoodStates' /\ HalfOpenChecked'
  BY <1>1, <1>4 DEF HInv, GoodStates, HalfOpenChecked
<1> QED
  BY Zenon, <1>1, <1>2, <1>5, GoroutineFrame DEF HInv

LEMMA ContextDonePreserves ==
    ASSUME HInv, NEW b \in Backends, NEW s \in Slots, ContextDone(b, s)
    PROVE  HInv'
<1>1. /\ Running(b, s)
      /\ checks[b][s].cancelled
      /\ checks \in [Backends -> [Slots -> Check]]
      /\ tracked \subseteq Backends
      /\ checks[b][s].pc = "select"
      /\ UNCHANGED <<tracked, removedBackends, states>>
      /\ UNCHANGED <<started, stopped, stopCaller, backends, activeChecks>>
      /\ checks' = [checks EXCEPT ![b][s] = idleCheck]
  BY DEF HInv, TypeOK, TrackerTypeOK, Running, ContextDone, trackerVars, Becomes
<1>2. idleCheck \in Check /\ idleCheck.pc = "idle"
  BY DEF Check, idleCheck
<1>3. checks' \in [Backends -> [Slots -> Check]]
  BY <1>1, <1>2
<1>4. \A c \in Backends, t \in Slots :
         \/ checks'[c][t] = checks[c][t]
         \/ c = b /\ t = s /\ ~Running(c, t)'
  BY <1>1, <1>2 DEF Running
<1>5. started \/ stopped
  BY <1>1 DEF HInv, Lifecycle
<1>6. started => activeChecks[b] # s
  <2>1. started /\ activeChecks[b] = s => ~checks[b][s].cancelled
    BY MonitorAssumption DEF HInv, ActiveIsListed
  <2> QED
    BY <1>1, <2>1
<1>7. TypeOK'
  BY <1>1, <1>3 DEF HInv, TypeOK, TrackerTypeOK
<1>8. GoodStates'
  BY <1>1 DEF HInv, GoodStates
<1>9. HalfOpenChecked'
  <2>1. \A c \in Backends, t \in Slots :
            checks[c][t].pc = "checking" => checks'[c][t].pc = "checking"
    BY <1>1, <1>4
  <2> QED
    BY <1>1, <2>1 DEF HInv, HalfOpenChecked
<1>10. Lifecycle'
  BY Zenon, <1>1, <1>5 DEF HInv, Lifecycle
<1>11. ActiveIsListed'
  <2>1. \A c \in Backends : activeChecks[c] # NoSlot => activeChecks[c] \in Slots
    BY DEF HInv, TypeOK
  <2>2. \A c \in Backends : started /\ activeChecks[c] # NoSlot
            => checks'[c][activeChecks[c]] = checks[c][activeChecks[c]]
    BY <1>4, <1>6, <2>1
  <2> QED
    BY <1>1, <2>2 DEF HInv, ActiveIsListed, Running
<1>12. OthersCancelled'
  BY <1>1, <1>4 DEF HInv, OthersCancelled, Running
<1>13. RemovedFlagIsExact'
  BY <1>1, <1>4 DEF HInv, RemovedFlagIsExact, Running
<1>14. NoGhostBackend'
  BY <1>1 DEF HInv, NoGhostBackend
<1>15. StoppedIsQuiet'
  BY <1>1, <1>4 DEF HInv, StoppedIsQuiet, Running
<1> QED
  BY <1>7, <1>8, <1>9, <1>10, <1>11, <1>12, <1>13, <1>14, <1>15 DEF HInv
-----------------------------------------------------------------------------
(* The steps of the monitor, and time. *)

LEMMA StartPreserves ==
    ASSUME HInv, Start
    PROVE  HInv'
<1>1. PICK slot \in [Backends -> Slots] :
          /\ checks' = [b \in Backends |->
                 IF backends[b] = Absent THEN checks[b]
                 ELSE [checks[b] EXCEPT ![slot[b]] = newCheck(backends[b], TRUE)]]
          /\ activeChecks' = [b \in Backends |->
                 IF backends[b] = Absent THEN NoSlot ELSE slot[b]]
  BY Zenon DEF Start
<1>2. /\ ~started /\ ~stopped /\ started' = TRUE
      /\ UNCHANGED <<tracked, removedBackends, states, stopped, stopCaller, backends>>
      /\ checks \in [Backends -> [Slots -> Check]]
      /\ backends \in [Backends -> Urls \union {Absent}]
  BY DEF Start, trackerVars, HInv, TypeOK
<1>3. /\ tracked = {} /\ removedBackends = {}
      /\ \A b \in Backends, s \in Slots : ~Running(b, s)
  BY <1>2 DEF HInv, Lifecycle
<1>4. \A b \in Backends : backends[b] # Absent =>
          LET check == newCheck(backends[b], TRUE)
          IN  /\ check \in Check
              /\ check.pc = "ready" /\ check.cancelled = FALSE
              /\ check.url = backends[b]
  BY <1>2 DEF newCheck, Check
<1>5. checks' \in [Backends -> [Slots -> Check]]
  BY Zenon, <1>1, <1>2, <1>4
<1>6. activeChecks' \in [Backends -> Slots \union {NoSlot}]
  BY <1>1
<1>7. \A b \in Backends, s \in Slots :
         /\ backends[b] # Absent /\ s = slot[b]
               => checks'[b][s] = newCheck(backends[b], TRUE)
         /\ ~(backends[b] # Absent /\ s = slot[b])
               => checks'[b][s].pc = checks[b][s].pc
  BY Zenon, <1>1, <1>2
<1>8. \A b \in Backends, s \in Slots :
         Running(b, s)' => backends[b] # Absent /\ s = slot[b]
  <2>1. \A b \in Backends, s \in Slots : checks[b][s].pc = "idle"
    BY <1>3 DEF Running
  <2>2. ASSUME NEW b \in Backends, NEW s \in Slots,
               ~(backends[b] # Absent /\ s = slot[b])
        PROVE  ~(checks'[b][s].pc # "idle")
    BY Zenon, <1>7, <2>1, <2>2
  <2> QED
    BY <2>2 DEF Running
<1>9. TypeOK'
  BY <1>2, <1>5, <1>6 DEF HInv, TypeOK, TrackerTypeOK
<1>10. GoodStates' /\ HalfOpenChecked' /\ NoGhostBackend'
  BY <1>2, <1>3 DEF GoodStates, HalfOpenChecked, NoGhostBackend
<1>11. Lifecycle'
  <2>1. stopped' <=> stopCaller' # "none"
    BY <1>2 DEF HInv, Lifecycle
  <2>2. ~stopped'
    BY <1>2
  <2> QED
    BY <1>2, <2>1, <2>2 DEF Lifecycle
<1>12. ActiveIsListed'
  <2>1. \A b \in Backends : activeChecks'[b] = NoSlot <=> backends'[b] = Absent
    BY <1>1, <1>2, MonitorAssumption
  <2>2. ASSUME NEW b \in Backends, activeChecks'[b] # NoSlot
        PROVE  /\ checks'[b][activeChecks'[b]].pc = "ready"
               /\ checks'[b][activeChecks'[b]].cancelled = FALSE
               /\ checks'[b][activeChecks'[b]].url = backends'[b]
    <3>1. backends[b] # Absent /\ activeChecks'[b] = slot[b] /\ slot[b] \in Slots
      BY <1>1, <2>2
    <3>2. checks'[b][activeChecks'[b]] = newCheck(backends[b], TRUE)
      BY Zenon, <1>7, <3>1
    <3> QED
      BY Zenon, <1>2, <1>4, <3>1, <3>2
  <2> QED
    BY Zenon, <2>1, <2>2 DEF ActiveIsListed, Running
<1>13. OthersCancelled'
  BY <1>1, <1>2, <1>8 DEF OthersCancelled
<1>14. RemovedFlagIsExact'
  BY <1>2, <1>3, <1>8 DEF RemovedFlagIsExact
<1>15. StoppedIsQuiet'
  BY <1>2 DEF HInv, Lifecycle, StoppedIsQuiet
<1> QED
  BY <1>9, <1>10, <1>11, <1>12, <1>13, <1>14, <1>15 DEF HInv

LEMMA StopPreserves ==
    ASSUME HInv, Stop
    PROVE  HInv'
<1>1. /\ started /\ started' = FALSE /\ stopped' = TRUE /\ stopCaller' = "waiting"
      /\ UNCHANGED <<tracked, removedBackends, states, backends, activeChecks>>
      /\ checks' = [b \in Backends |-> [s \in Slots |-> stop(checks[b][s])]]
      /\ checks \in [Backends -> [Slots -> Check]]
      /\ tracked \subseteq Backends
  BY DEF Stop, trackerVars, HInv, TypeOK, TrackerTypeOK
<1>2. \A check \in Check :
         /\ stop(check) \in Check
         /\ stop(check).pc = check.pc
         /\ check.pc # "idle" => stop(check).cancelled = TRUE
  BY Zenon DEF stop, Check
<1>3. \A b \in Backends, s \in Slots :
         /\ checks'[b][s] \in Check
         /\ checks'[b][s].pc = checks[b][s].pc
         /\ Running(b, s) => checks'[b][s].cancelled = TRUE
  BY <1>1, <1>2 DEF Running
<1>4. checks' \in [Backends -> [Slots -> Check]]
  BY <1>1, <1>2
<1>5. TypeOK'
  BY Zenon, <1>1, <1>4 DEF HInv, TypeOK, TrackerTypeOK
<1>6. GoodStates' /\ NoGhostBackend'
  BY <1>1 DEF HInv, GoodStates, NoGhostBackend
<1>7. HalfOpenChecked'
  <2>1. \A b \in Backends, s \in Slots :
            checks[b][s].pc = "checking" => checks'[b][s].pc = "checking"
    BY <1>3
  <2> QED
    BY <1>1, <2>1 DEF HInv, HalfOpenChecked
<1>8. Lifecycle'
  BY <1>1 DEF Lifecycle
<1>9. ActiveIsListed' /\ StoppedIsQuiet'
  BY <1>1 DEF ActiveIsListed, StoppedIsQuiet
<1>10. OthersCancelled'
  BY <1>3 DEF OthersCancelled, Running
<1>11. RemovedFlagIsExact'
  BY <1>1, <1>3 DEF HInv, RemovedFlagIsExact, Running
<1> QED
  BY <1>5, <1>6, <1>7, <1>8, <1>9, <1>10, <1>11 DEF HInv

LEMMA StopReturnsPreserves ==
    ASSUME HInv, StopReturns
    PROVE  HInv'
<1>1. /\ stopCaller = "waiting" /\ stopCaller' = "returned"
      /\ \A b \in Backends, s \in Slots : ~Running(b, s)
      /\ UNCHANGED <<tracked, removedBackends, states>>
      /\ UNCHANGED <<started, stopped, backends, activeChecks, checks>>
  BY DEF StopReturns, trackerVars
<1>2. TypeOK'
  BY <1>1 DEF HInv, TypeOK, TrackerTypeOK
<1>3. Lifecycle'
  BY <1>1 DEF HInv, Lifecycle, Running
<1>4. GoodStates' /\ HalfOpenChecked' /\ NoGhostBackend'
  BY <1>1 DEF HInv, GoodStates, HalfOpenChecked, NoGhostBackend
<1>5. ActiveIsListed' /\ OthersCancelled'
  BY <1>1 DEF HInv, ActiveIsListed, OthersCancelled, Running
<1>6. RemovedFlagIsExact' /\ StoppedIsQuiet'
  BY <1>1 DEF HInv, RemovedFlagIsExact, StoppedIsQuiet, Running
<1> QED
  BY <1>2, <1>3, <1>4, <1>5, <1>6 DEF HInv

LEMMA ElapsePreserves ==
    ASSUME HInv, NEW b \in Backends, TimeoutElapses(b)
    PROVE  HInv'
<1> DEFINE st == [states[b] EXCEPT !.circuitBreaker.elapsed = TRUE]
<1>1. /\ b \in tracked
      /\ states' = [states EXCEPT ![b] = st]
      /\ UNCHANGED <<tracked, removedBackends>>
      /\ UNCHANGED <<started, stopped, stopCaller, backends, activeChecks, checks>>
      /\ states \in [Backends -> backendHealthState]
      /\ tracked \subseteq Backends
  BY DEF TimeoutElapses, BreakerTimeoutElapses, monitorVars, HInv, TypeOK, TrackerTypeOK
<1>2. GoodState(st) /\ st.circuitBreaker.state = states[b].circuitBreaker.state
  BY <1>1, StateElapse DEF HInv, GoodStates
<1>3. states' \in [Backends -> backendHealthState]
  BY <1>1, <1>2 DEF GoodState
<1>4. TypeOK'
  BY <1>1, <1>3 DEF HInv, TypeOK, TrackerTypeOK
<1>5. GoodStates'
  BY <1>1, <1>2 DEF HInv, GoodStates
<1>6. HalfOpenChecked'
  BY <1>1, <1>2 DEF HInv, HalfOpenChecked
<1>7. Lifecycle' /\ NoGhostBackend'
  BY <1>1 DEF HInv, Lifecycle, NoGhostBackend, Running
<1>8. ActiveIsListed' /\ OthersCancelled'
  BY <1>1 DEF HInv, ActiveIsListed, OthersCancelled, Running
<1>9. RemovedFlagIsExact' /\ StoppedIsQuiet'
  BY <1>1 DEF HInv, RemovedFlagIsExact, StoppedIsQuiet, Running
<1> QED
  BY <1>4, <1>5, <1>6, <1>7, <1>8, <1>9 DEF HInv

\* The heart of the argument: the new goroutine takes a free slot, so no check
\* in flight is lost, and the flag of removedBackends changes with the list.
LEMMA UpdatePreserves ==
    ASSUME HInv, NEW newBackends \in [Backends -> Urls \union {Absent}],
           UpdateBackends(newBackends)
    PROVE  HInv'
<1> DEFINE fresh == NewOrChanged(newBackends)
           gone  == Gone(newBackends)
<1> HIDE DEF fresh, gone
<1>1. PICK slot \in [fresh -> Slots] :
         /\ \A b \in fresh : ~Running(b, slot[b])
         /\ checks' = [b \in Backends |->
               IF b \in fresh
               THEN [StopActive(b) EXCEPT ![slot[b]] = newCheck(newBackends[b], FALSE)]
               ELSE IF b \in gone THEN StopActive(b) ELSE checks[b]]
         /\ activeChecks' = [b \in Backends |->
               IF b \in fresh THEN slot[b]
               ELSE IF b \in gone THEN NoSlot ELSE activeChecks[b]]
  BY Zenon DEF UpdateBackends, ReplaceBackends, fresh, gone
<1>2. /\ started /\ ~stopped /\ UNCHANGED <<started, stopped, stopCaller>>
      /\ backends' = newBackends
      /\ tracked' = tracked \ gone
      /\ states' = [b \in Backends |-> IF b \in gone THEN noState ELSE states[b]]
      /\ removedBackends' = (removedBackends \ fresh) \union gone
  BY DEF UpdateBackends, ReplaceBackends, RemoveAndClear, fresh, gone
<1>3. /\ checks \in [Backends -> [Slots -> Check]]
      /\ activeChecks \in [Backends -> Slots \union {NoSlot}]
      /\ states \in [Backends -> backendHealthState]
      /\ tracked \subseteq Backends /\ removedBackends \subseteq Backends
  BY DEF HInv, TypeOK, TrackerTypeOK
<1>4. \A b \in Backends :
         /\ b \in fresh <=> /\ newBackends[b] # Absent
                            /\ \/ activeChecks[b] = NoSlot
                               \/ checks[b][activeChecks[b]].url # newBackends[b]
         /\ b \in gone <=> newBackends[b] = Absent /\ activeChecks[b] # NoSlot
  BY DEF NewOrChanged, Gone, fresh, gone
<1>5. \A check \in Check :
         /\ stop(check) \in Check
         /\ stop(check).pc = check.pc
         /\ check.pc # "idle" => stop(check).cancelled = TRUE
  BY Zenon DEF stop, Check
<1>6. \A b \in fresh :
         LET check == newCheck(newBackends[b], FALSE)
         IN  /\ check \in Check
             /\ check.pc = "ready" /\ check.cancelled = FALSE
             /\ check.url = newBackends[b]
  <2>1. \A b \in fresh : newBackends[b] \in Urls
    BY <1>4 DEF NewOrChanged, fresh
  <2> QED
    BY <2>1 DEF newCheck, Check
<1>7. \A b \in Backends : StopActive(b) \in [Slots -> Check]
  BY <1>3, <1>5 DEF StopActive
<1>8. checks' \in [Backends -> [Slots -> Check]]
  BY Zenon, <1>1, <1>3, <1>6, <1>7
<1>9. \A b \in fresh : /\ b \in Backends
                        /\ checks'[b][slot[b]] = newCheck(newBackends[b], FALSE)
  BY Zenon, <1>1, <1>7 DEF NewOrChanged, fresh
<1>10. \A b \in Backends, s \in Slots : Running(b, s) =>
          /\ b \in fresh \union gone /\ s = activeChecks[b]
                => checks'[b][s] = stop(checks[b][s])
          /\ ~(b \in fresh \union gone /\ s = activeChecks[b])
                => checks'[b][s] = checks[b][s]
  <2> SUFFICES ASSUME NEW b \in Backends, NEW s \in Slots, Running(b, s)
               PROVE  /\ b \in fresh \union gone /\ s = activeChecks[b]
                            => checks'[b][s] = stop(checks[b][s])
                      /\ ~(b \in fresh \union gone /\ s = activeChecks[b])
                            => checks'[b][s] = checks[b][s]
    OBVIOUS
  <2>1. checks[b] \in [Slots -> Check]
    BY <1>3
  <2>2. /\ s = activeChecks[b] => StopActive(b)[s] = stop(checks[b][s])
        /\ s # activeChecks[b] => StopActive(b)[s] = checks[b][s]
    BY <2>1, MonitorAssumption DEF StopActive
  <2>3. CASE b \in fresh
    <3>1. s # slot[b]
      BY <1>1, <2>3
    <3>2. checks'[b][s] = StopActive(b)[s]
      BY <1>1, <1>7, <2>3, <3>1
    <3> QED
      BY <2>2, <2>3, <3>2
  <2>4. CASE b \notin fresh
    <3>1. b \in gone => checks'[b][s] = StopActive(b)[s]
      BY <1>1, <2>4
    <3>2. b \notin gone => checks'[b][s] = checks[b][s]
      BY <1>1, <2>4
    <3> QED
      BY <2>2, <2>4, <3>1, <3>2
  <2> QED
    BY <2>3, <2>4
<1>11. \A b \in Backends, s \in Slots :
          Running(b, s)' => Running(b, s) \/ (b \in fresh /\ s = slot[b])
  <2>1. ASSUME NEW b \in Backends, NEW s \in Slots, ~(b \in fresh /\ s = slot[b])
        PROVE  checks'[b][s].pc = checks[b][s].pc
    <3>1. checks[b] \in [Slots -> Check] /\ checks[b][s] \in Check
      BY <1>3
    <3>2. StopActive(b)[s].pc = checks[b][s].pc
      BY <1>5, <3>1 DEF StopActive
    <3>3. checks'[b][s] = StopActive(b)[s] \/ checks'[b][s] = checks[b][s]
      BY Zenon, <1>1, <1>7, <2>1
    <3> QED
      BY <3>2, <3>3
  <2>2. ASSUME NEW b \in Backends, NEW s \in Slots, Running(b, s)'
        PROVE  Running(b, s) \/ (b \in fresh /\ s = slot[b])
    <3>1. CASE ~(b \in fresh /\ s = slot[b])
      <4>1. checks'[b][s].pc = checks[b][s].pc
        BY <2>1, <3>1
      <4> QED
        BY <2>2, <4>1 DEF Running
    <3> QED
      BY <3>1
  <2> QED
    BY <2>2
<1>0. \A b \in Backends :
         /\ b \in fresh => activeChecks'[b] = slot[b] /\ slot[b] \in Slots
         /\ b \notin fresh /\ b \in gone => activeChecks'[b] = NoSlot
         /\ b \notin fresh /\ b \notin gone => activeChecks'[b] = activeChecks[b]
  BY <1>1
<1>12. \A b \in Backends, s \in Slots :
          Running(b, s) => checks'[b][s].pc = checks[b][s].pc
  BY Zenon, <1>3, <1>5, <1>10
<1>13. \A b \in Backends : activeChecks[b] = NoSlot <=> backends[b] = Absent
  BY <1>2 DEF HInv, ActiveIsListed
<1>14. TypeOK'
  <2>1. activeChecks' \in [Backends -> Slots \union {NoSlot}]
    BY <1>1, <1>3
  <2>2. states' \in [Backends -> backendHealthState]
    <3>1. noState \in backendHealthState
      BY NewStateGood DEF GoodState
    <3> QED
      BY <1>2, <1>3, <3>1
  <2>3. gone \subseteq Backends
    BY DEF Gone, gone
  <2>4. TrackerTypeOK'
    BY <1>2, <1>3, <2>2, <2>3 DEF TrackerTypeOK
  <2> QED
    BY <1>2, <1>8, <2>1, <2>4 DEF HInv, TypeOK
<1>15. GoodStates'
  BY Zenon, <1>2, <1>3 DEF HInv, GoodStates
<1>16. HalfOpenChecked'
  <2>1. \A b \in Backends, s \in Slots :
            checks[b][s].pc = "checking" => checks'[b][s].pc = "checking"
    BY <1>12 DEF Running
  <2> QED
    BY <1>2, <1>3, <2>1 DEF HInv, HalfOpenChecked
<1>17. Lifecycle'
  <2>1. started /\ ~stopped /\ started' = started /\ stopped' = stopped
        /\ stopCaller' = stopCaller
    BY <1>2
  <2>2. stopCaller = "none"
    BY <2>1 DEF HInv, Lifecycle
  <2> QED
    BY <2>1, <2>2 DEF Lifecycle
<1>18. ActiveIsListed'
  <2>1. ASSUME NEW b \in Backends
        PROVE  activeChecks'[b] = NoSlot <=> backends'[b] = Absent
    <3>1. CASE b \in fresh
      <4>1. activeChecks'[b] = slot[b] /\ slot[b] \in Slots /\ newBackends[b] # Absent
        BY <1>0, <1>4, <3>1
      <4> QED
        BY <1>2, <4>1, MonitorAssumption
    <3>2. CASE b \in gone
      <4>1. newBackends[b] = Absent /\ b \notin fresh
        BY <1>4, <3>2
      <4> QED
        BY <1>0, <1>2, <3>2, <4>1
    <3>3. CASE b \notin fresh /\ b \notin gone
      <4>1. activeChecks'[b] = activeChecks[b]
        BY <1>0, <3>3
      <4>2. activeChecks[b] = NoSlot <=> newBackends[b] = Absent
        BY <1>4, <3>3
      <4> QED
        BY <1>2, <4>1, <4>2
    <3> QED
      BY <3>1, <3>2, <3>3
  <2>2. ASSUME NEW b \in Backends, activeChecks'[b] # NoSlot
        PROVE  /\ checks'[b][activeChecks'[b]].pc # "idle"
               /\ ~checks'[b][activeChecks'[b]].cancelled
               /\ checks'[b][activeChecks'[b]].url = backends'[b]
    <3>1. CASE b \in fresh
      BY Zenon, <1>0, <1>2, <1>6, <1>9, <3>1
    <3>2. CASE b \notin fresh
      <4>1. /\ b \notin gone /\ activeChecks'[b] = activeChecks[b]
            /\ activeChecks[b] # NoSlot /\ activeChecks[b] \in Slots
            /\ newBackends[b] # Absent
            /\ checks[b][activeChecks[b]].url = newBackends[b]
        BY Zenon, <1>0, <1>3, <1>4, <2>2, <3>2
      <4>2. Running(b, activeChecks[b]) /\ ~checks[b][activeChecks[b]].cancelled
        BY Zenon, <1>2, <4>1 DEF HInv, ActiveIsListed
      <4>3. checks'[b][activeChecks[b]] = checks[b][activeChecks[b]]
        BY <1>10, <3>2, <4>1, <4>2
      <4> QED
        BY <1>2, <4>1, <4>2, <4>3 DEF Running
    <3> QED
      BY <3>1, <3>2
  <2> QED
    BY <2>1, <2>2 DEF ActiveIsListed, Running
<1>19. OthersCancelled'
  <2> SUFFICES ASSUME NEW b \in Backends, NEW s \in Slots,
                      Running(b, s)', ~checks'[b][s].cancelled
               PROVE  activeChecks'[b] = s
    BY <1>2 DEF OthersCancelled
  <2>1. CASE b \in fresh /\ s = slot[b]
    BY <1>0, <2>1
  <2>2. CASE Running(b, s) /\ b \in fresh \union gone /\ s = activeChecks[b]
    BY <1>3, <1>5, <1>10, <2>2 DEF Running
  <2>3. CASE Running(b, s) /\ ~(b \in fresh \union gone /\ s = activeChecks[b])
    <3>1. activeChecks[b] = s
      BY <1>10, <2>3 DEF HInv, OthersCancelled
    <3> QED
      BY Zenon, <1>0, <2>3, <3>1
  <2> QED
    BY <1>11, <2>1, <2>2, <2>3
<1>20. RemovedFlagIsExact'
  <2>1. ASSUME NEW b \in Backends, b \in removedBackends'
        PROVE  newBackends[b] = Absent
    BY Zenon, <1>2, <1>4, <1>13, <2>1 DEF HInv, RemovedFlagIsExact
  <2>2. ASSUME NEW b \in Backends, NEW s \in Slots,
               Running(b, s)', newBackends[b] = Absent
        PROVE  b \in removedBackends'
    BY <1>2, <1>4, <1>11, <1>13, <2>2 DEF HInv, RemovedFlagIsExact
  <2> QED
    BY <1>2, <2>1, <2>2 DEF RemovedFlagIsExact
<1>21. NoGhostBackend'
  BY <1>2, <1>3, <1>4, <1>13 DEF HInv, NoGhostBackend
<1>22. StoppedIsQuiet'
  BY <1>2 DEF HInv, Lifecycle, StoppedIsQuiet
<1> QED
  BY <1>14, <1>15, <1>16, <1>17, <1>18, <1>19, <1>20, <1>21, <1>22 DEF HInv
-----------------------------------------------------------------------------
(* The theorems. *)

LEMMA InitEstablishes ==
    ASSUME Init
    PROVE  HInv
<1>1. /\ tracked = {} /\ removedBackends = {}
      /\ states = [b \in Backends |-> noState]
      /\ started = FALSE /\ stopped = FALSE /\ stopCaller = "none"
      /\ backends \in [Backends -> Urls \union {Absent}]
      /\ activeChecks = [b \in Backends |-> NoSlot]
      /\ checks = [b \in Backends |-> [s \in Slots |-> idleCheck]]
  BY DEF Init, TrackerInit
<1>2. noState \in backendHealthState
  BY NewStateGood DEF GoodState
<1>3. idleCheck \in Check /\ idleCheck.pc = "idle"
  BY DEF Check, idleCheck
<1>4. \A b \in Backends, s \in Slots : ~Running(b, s)
  BY <1>1, <1>3 DEF Running
<1>5. TypeOK
  BY Zenon, <1>1, <1>2, <1>3 DEF TypeOK, TrackerTypeOK
<1>6. GoodStates /\ HalfOpenChecked /\ NoGhostBackend
  BY <1>1 DEF GoodStates, HalfOpenChecked, NoGhostBackend
<1>7. Lifecycle /\ ActiveIsListed /\ StoppedIsQuiet
  BY <1>1, <1>4 DEF Lifecycle, ActiveIsListed, StoppedIsQuiet
<1>8. OthersCancelled /\ RemovedFlagIsExact
  BY <1>1, <1>4 DEF OthersCancelled, RemovedFlagIsExact
<1> QED
  BY <1>5, <1>6, <1>7, <1>8 DEF HInv

LEMMA StepPreserves ==
    ASSUME HInv, [Next]_vars
    PROVE  HInv'
<1>1. CASE Start
  BY <1>1, StartPreserves
<1>2. CASE Stop
  BY <1>2, StopPreserves
<1>3. CASE StopReturns
  BY <1>3, StopReturnsPreserves
<1>4. CASE \E newBackends \in [Backends -> Urls \union {Absent}] :
               UpdateBackends(newBackends)
  BY <1>4, UpdatePreserves
<1>5. ASSUME NEW b \in Backends, NEW s \in Slots, Goroutine(b, s)
      PROVE  HInv'
  BY <1>5, ShouldAttemptPreserves, CheckPreserves, RefreshPreserves,
     TickerPreserves, ContextDonePreserves DEF Goroutine
<1>6. CASE \E b \in Backends : TimeoutElapses(b)
  BY <1>6, ElapsePreserves
<1>7. CASE UNCHANGED vars
  <2>1. UNCHANGED <<tracked, states, removedBackends>>
        /\ UNCHANGED <<started, stopped, stopCaller, backends, activeChecks, checks>>
    BY <1>7 DEF vars, trackerVars, monitorVars
  <2>2. TypeOK' /\ GoodStates' /\ HalfOpenChecked' /\ NoGhostBackend'
    BY <2>1 DEF HInv, TypeOK, TrackerTypeOK, GoodStates, HalfOpenChecked, NoGhostBackend
  <2>3. Lifecycle' /\ ActiveIsListed' /\ StoppedIsQuiet'
    BY Zenon, <2>1 DEF HInv, Lifecycle, ActiveIsListed, StoppedIsQuiet, Running
  <2>4. OthersCancelled' /\ RemovedFlagIsExact'
    BY <2>1 DEF HInv, OthersCancelled, RemovedFlagIsExact, Running
  <2> QED
    BY <2>2, <2>3, <2>4 DEF HInv
<1> QED
  BY <1>1, <1>2, <1>3, <1>4, <1>5, <1>6, <1>7 DEF Next, GoroutineNext

\* HInv holds in every reachable state of the monitor.
THEOREM Invariance == Spec => []HInv
<1>1. Init => HInv
  BY InitEstablishes
<1>2. HInv /\ [Next]_vars => HInv'
  BY StepPreserves
<1> QED
  BY <1>1, <1>2, PTL DEF Spec

\* The variables of the tracker and the monitor keep their types.
THEOREM TypeCorrect == Spec => []TypeOK
<1>1. HInv => TypeOK
  BY DEF HInv
<1> QED
  BY <1>1, Invariance, PTL

\* No half-open circuit is ever left without the check that moves it on.
THEOREM HalfOpenNeverStuck == Spec => []HalfOpenHasCheckInFlight
<1>1. HInv => HalfOpenHasCheckInFlight
  BY DEF HInv, GoodStates, GoodState, GoodBreaker, HalfOpenChecked, HalfOpenHasCheckInFlight
<1> QED
  BY <1>1, Invariance, PTL

\* Late results never bring a removed backend back into the tracker.
THEOREM NoGhosts == Spec => []NoGhostBackend
<1>1. HInv => NoGhostBackend
  BY DEF HInv
<1> QED
  BY <1>1, Invariance, PTL

\* Every live goroutine is reachable by UpdateBackends and checks the listed URL.
THEOREM LiveChecksAreCurrent == Spec => []LiveCheckIsCurrent
<1>1. HInv => LiveCheckIsCurrent
  BY MonitorAssumption DEF HInv, OthersCancelled, ActiveIsListed, LiveCheckIsCurrent
<1> QED
  BY <1>1, Invariance, PTL

\* The tracker's and the breaker's failure counters agree.
THEOREM CountersAlwaysAgree == Spec => []CountersAgree
<1>1. HInv => CountersAgree
  BY DEF HInv, GoodStates, GoodState, GoodBreaker, CountersAgree
<1> QED
  BY <1>1, Invariance, PTL

\* A failing status shows exactly from the threshold on.
THEOREM FailingStatusIsExact == Spec => []FailingExactlyFromThreshold
<1>1. HInv => FailingExactlyFromThreshold
  BY DEF HInv, GoodStates, GoodState, FailingExactlyFromThreshold
<1> QED
  BY <1>1, Invariance, PTL

\* After Stop has returned no goroutine of the monitor is alive.
THEOREM StopIsFinal == Spec => []StoppedIsQuiet
<1>1. HInv => StoppedIsQuiet
  BY DEF HInv
<1> QED
  BY <1>1, Invariance, PTL
=============================================================================
