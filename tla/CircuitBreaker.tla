--------------------------- MODULE CircuitBreaker ---------------------------
(***************************************************************************)
(* The circuit breaker of one vMCP backend (pkg/vmcp/health).              *)
(*                                                                         *)
(* Every method of circuitBreaker runs under its own mutex, so a breaker   *)
(* is a value and each method an operator from the value before the call   *)
(* to the value after it.  Wall-clock time is abstracted to one bit:       *)
(* elapsed is time.Since(lastStateChange) >= timeout, which only matters   *)
(* while the circuit is open.                                              *)
(***************************************************************************)
EXTENDS Naturals

CONSTANTS
    BreakerEnabled,     \* FALSE: alwaysClosedCircuit is used instead
    FailureThreshold,   \* failures that open a closed circuit
    MaxCount            \* failure counters saturate here (see CountUp)

ASSUME BreakerAssumption ==
    /\ BreakerEnabled \in BOOLEAN
    /\ FailureThreshold \in Nat \ {0}
    /\ MaxCount \in Nat
    /\ FailureThreshold <= MaxCount

CircuitState == {"closed", "open", "half-open"}

circuitBreaker == [ state                  : CircuitState,
                    failureCount           : 0..MaxCount,
                    halfOpenTestInProgress : BOOLEAN,
                    elapsed                : BOOLEAN ]

newCircuitBreaker == [ state                  |-> "closed",
                       failureCount           |-> 0,
                       halfOpenTestInProgress |-> FALSE,
                       elapsed                |-> FALSE ]

transitionTo(cb, newState) ==
    [cb EXCEPT !.state = newState, !.elapsed = FALSE]
-----------------------------------------------------------------------------
(* Mutated forms of the operators below, for testing the properties. *)

\* RecordFailure without the half-open branch and without clearing the flag.
BreakerRecordFailureKeepsHalfOpen(cb) ==
    LET failures == IF cb.failureCount < MaxCount THEN cb.failureCount + 1 ELSE MaxCount
        counted  == [cb EXCEPT !.failureCount = failures]
    IN  IF cb.state = "closed" /\ failures >= FailureThreshold
        THEN transitionTo(counted, "open")
        ELSE counted

\* RecordFailure with > for >=.
BreakerRecordFailureOffByOne(cb) ==
    LET failures == IF cb.failureCount < MaxCount THEN cb.failureCount + 1 ELSE MaxCount
        counted  == [cb EXCEPT !.failureCount = failures, !.halfOpenTestInProgress = FALSE]
    IN  IF \/ cb.state = "closed" /\ failures > FailureThreshold
           \/ cb.state = "half-open"
        THEN transitionTo(counted, "open")
        ELSE counted

\* CanAttempt without tryTransitionOpenToHalfOpen.
CanAttemptOnlyClosed(cb) == cb.state = "closed"
-----------------------------------------------------------------------------
\* The code only compares a failure counter with 0 and with thresholds, all
\* of them at most MaxCount, so a saturating counter takes the same branches.
CountUp(n) == IF n < MaxCount THEN n + 1 ELSE n

\* RecordSuccess: the counter and the test flag are reset, and a circuit that
\* is not closed closes.
BreakerRecordSuccess(cb) ==
    LET reset == [cb EXCEPT !.failureCount = 0,
                            !.halfOpenTestInProgress = FALSE]
    IN  IF cb.state = "closed" THEN reset ELSE transitionTo(reset, "closed")

\* RecordFailure: opens a closed circuit at the threshold and a half-open one
\* at once; an open circuit keeps the time of its opening.
BreakerRecordFailure(cb) ==
    LET counted == [cb EXCEPT !.failureCount = CountUp(@),
                              !.halfOpenTestInProgress = FALSE]
    IN  IF ~BreakerEnabled THEN cb
        ELSE IF \/ cb.state = "closed" /\ counted.failureCount >= FailureThreshold
                \/ cb.state = "half-open"
             THEN transitionTo(counted, "open")
             ELSE counted

\* The answer of CanAttempt ...
CanAttempt(cb) ==
    \/ cb.state = "closed"
    \/ cb.state = "open" /\ cb.elapsed
    \/ cb.state = "half-open" /\ ~cb.halfOpenTestInProgress

\* ... and the breaker it leaves behind: an attempt through an open or a
\* half-open circuit is the recovery test.
AfterCanAttempt(cb) ==
    IF cb.state = "open" /\ cb.elapsed
    THEN [transitionTo(cb, "half-open") EXCEPT !.halfOpenTestInProgress = TRUE]
    ELSE IF cb.state = "half-open"
         THEN [cb EXCEPT !.halfOpenTestInProgress = TRUE]
         ELSE cb
=============================================================================
