---------------------------- MODULE StatusTracker ---------------------------
(***************************************************************************)
(* statusTracker of pkg/vmcp/health/status.go: what the vMCP server        *)
(* believes about each backend.  Every method runs under the tracker's     *)
(* lock, so each is one action.                                            *)
(*                                                                         *)
(* The map states is split into its domain (tracked) and its values; the   *)
(* value of an untracked backend is noState and is never read.             *)
(***************************************************************************)
EXTENDS CircuitBreaker

CONSTANTS
    Backends,            \* backend IDs
    UnhealthyThreshold,  \* consecutive failures before a failing status shows
    Revisions            \* MCP revisions the client may report for a backend

ASSUME TrackerAssumption ==
    /\ UnhealthyThreshold \in Nat \ {0}
    /\ UnhealthyThreshold <= MaxCount
    /\ "unprobed" \notin Revisions

VARIABLES
    tracked,          \* DOMAIN of statusTracker.states
    states,           \* states[b] for tracked b
    removedBackends   \* backends removed and not added again

trackerVars == <<tracked, states, removedBackends>>

\* What CheckHealth returns with a nil error, and with a non-nil one.
SuccessStatus == {"healthy", "degraded"}
FailureStatus == {"unhealthy", "unauthenticated"}
BackendHealthStatus == SuccessStatus \union FailureStatus \union {"unknown"}

backendHealthState == [ status              : BackendHealthStatus,
                        consecutiveFailures : 0..MaxCount,
                        circuitBreaker      : circuitBreaker,
                        mcpRevision         : Revisions \union {"unprobed"} ]

noState == [ status              |-> "unknown",
             consecutiveFailures |-> 0,
             circuitBreaker      |-> newCircuitBreaker,
             mcpRevision         |-> "unprobed" ]

TrackerInit ==
    /\ tracked = {}
    /\ states = [b \in Backends |-> noState]
    /\ removedBackends = {}

\* A state that does not exist yet is created before the result is applied.
\* RecordSuccess and RecordFailure treat a new state in a branch of its own;
\* on noState the branch for an existing state gives the same values.
getOrCreateState(b) == IF b \in tracked THEN states[b] ELSE noState
-----------------------------------------------------------------------------
(* Mutated forms of the operators below, for testing the properties. *)

\* Recording without the check for removed backends.
StoreUnchecked(b, st) ==
    /\ tracked' = tracked \union {b}
    /\ states' = [states EXCEPT ![b] = st]
    /\ UNCHANGED removedBackends
-----------------------------------------------------------------------------
\* A backend that answers while it had failures is recovering: degraded.
Succeeded(st, status) ==
    [st EXCEPT !.status = IF st.consecutiveFailures > 0 THEN "degraded" ELSE status,
               !.consecutiveFailures = 0,
               !.circuitBreaker = BreakerRecordSuccess(@)]

\* The failing status shows only from the threshold on.
Failed(st, status) ==
    LET failures == CountUp(st.consecutiveFailures)
    IN  [st EXCEPT !.status = IF failures >= UnhealthyThreshold THEN status ELSE @,
                   !.consecutiveFailures = failures,
                   !.circuitBreaker = BreakerRecordFailure(@)]

\* Results for a removed backend are ignored.
Store(b, st) ==
    IF b \in removedBackends
    THEN UNCHANGED trackerVars
    ELSE /\ tracked' = tracked \union {b}
         /\ states' = [states EXCEPT ![b] = st]
         /\ UNCHANGED removedBackends

RecordSuccess(b, status) == Store(b, Succeeded(getOrCreateState(b), status))

RecordFailure(b, status) == Store(b, Failed(getOrCreateState(b), status))

RecordRevision(b, revision) ==
    /\ states' = IF b \in tracked
                 THEN [states EXCEPT ![b].mcpRevision = revision]
                 ELSE states
    /\ UNCHANGED <<tracked, removedBackends>>

\* The check is attempted unless the breaker of a tracked backend refuses;
\* asking may itself open the half-open test.
CanAttemptHealthCheck(b) ==
    b \in tracked => CanAttempt(states[b].circuitBreaker)

AfterShouldAttempt(b) ==
    /\ states' = IF b \in tracked
                 THEN [states EXCEPT ![b].circuitBreaker = AfterCanAttempt(@)]
                 ELSE states
    /\ UNCHANGED <<tracked, removedBackends>>

\* RemoveBackend for every backend of gone and ClearRemovedFlag for every
\* backend of added, as UpdateBackends calls them.
RemoveAndClear(gone, added) ==
    /\ tracked' = tracked \ gone
    /\ states' = [b \in Backends |-> IF b \in gone THEN noState ELSE states[b]]
    /\ removedBackends' = (removedBackends \ added) \union gone

\* Time passes until an open breaker may be tested again.
BreakerTimeoutElapses(b) ==
    /\ b \in tracked
    /\ states[b].circuitBreaker.state = "open"
    /\ ~states[b].circuitBreaker.elapsed
    /\ states' = [states EXCEPT ![b].circuitBreaker.elapsed = TRUE]
    /\ UNCHANGED <<tracked, removedBackends>>
-----------------------------------------------------------------------------
TrackerTypeOK ==
    /\ tracked \subseteq Backends
    /\ states \in [Backends -> backendHealthState]
    /\ removedBackends \subseteq Backends
=============================================================================
