------------------------------ MODULE Workflow ------------------------------
(* Composite tools, part 3: one execution of a workflow (ExecuteWorkflow and
   executeStep of pkg/vmcp/composer/workflow_engine.go, executeDAG and
   executeLevel of dag_executor.go, workflow_context.go). Every call builds its
   own engine, so the executor's semaphore belongs to one execution.

   The execution plans its levels, then starts one goroutine per step of a
   level and waits for all of them before the next level. A goroutine waits for
   a slot of the semaphore or for its group to be cancelled; an error that is
   not tolerated cancels the group. Outside the execution, the deadline may
   pass, the client may leave, the workflow may be marked cancelled in the
   store and the store may drop the entry, at any moment.

   Templates, arguments, outputs and error texts are left out: where the code
   branches on them, either branch may be taken. The iterations of a forEach
   step all end before the step does and touch nothing that other steps see,
   so the step is one call.                                                  *)
EXTENDS WorkflowStore

CONSTANTS MaxParallel,      \* slots of the executor's semaphore
          MaxRetryCount     \* cap on the retries of a step

ASSUME WorkflowConstants ==
  /\ IsFiniteSet(Steps)
  /\ Definitions \subseteq DefinitionType
  /\ MaxParallel \in Nat \ {0}
  /\ MaxRetryCount \in Nat

VARIABLES phase,            \* where ExecuteWorkflow is
          current,          \* number of the level being executed
          groupFailed,      \* some goroutine of the level returned an error
          dagErr,           \* executeDAG returned an error
          ctx,              \* the execution's context
          outcome,          \* the status ExecuteWorkflow returned
          slots,            \* slots taken
          pc,               \* step -> where its goroutine is
          result,           \* step -> status of its StepResult
          attempts,         \* step -> calls made to its tool
          snap              \* step -> completed steps of its checkpoint

runVars == <<phase, current, groupFailed, dagErr, outcome>>
stepVars == <<slots, pc, result, attempts, snap>>
vars == <<planVars, storeVars, runVars, ctx, stepVars>>

Phases == {"new", "planning", "levels", "joining", "ended", "done"}
Pcs == {"idle", "queued", "admitted", "condition", "prepare", "calling",
        "backoff", "asking", "iterating", "snapshot", "saving", "ok", "err",
        "done"}

(* The types of the variables; the retry loop of a tool step stays within the
   cap of getRetryConfig, whatever the definition asks for.                  *)
TypeOK ==
  /\ PlanTypeOK /\ StoreTypeOK
  /\ phase \in Phases
  /\ current \in Nat
  /\ groupFailed \in BOOLEAN /\ dagErr \in BOOLEAN
  /\ ctx \in {"live", "deadline", "cancelled"}
  /\ outcome \in {"none", "completed", "failed", "timed_out"}
  /\ slots \in Nat
  /\ pc \in [Steps -> Pcs]
  /\ result \in [Steps -> {"none", "running", "completed", "failed", "skipped"}]
  /\ attempts \in [Steps -> 0..(MaxRetryCount + 1)]
  /\ snap \in [Steps -> SUBSET Steps]

Init ==
  /\ PlanInit /\ StoreInit
  /\ phase = "new" /\ current = 0
  /\ groupFailed = FALSE /\ dagErr = FALSE
  /\ ctx = "live" /\ outcome = "none" /\ slots = 0
  /\ pc = [s \in Steps |-> "idle"]
  /\ result = [s \in Steps |-> "none"]
  /\ attempts = [s \in Steps |-> 0]
  /\ snap = [s \in Steps |-> {}]

-----------------------------------------------------------------------------
(* What the actions share *)

(* Mutated form of Completed: whatever has not failed counts. *)
notFailed == {s \in def.steps : result[s] \notin {"none", "failed"}}

Completed == {s \in def.steps : result[s] = "completed"}

shouldContinueOnError(s) ==
  def.onError[s] = "continue" \/ def.failureMode = "continue"

getRetryConfig(s) ==
  IF def.onError[s] # "retry" THEN 0
  ELSE IF def.retries[s] > MaxRetryCount THEN MaxRetryCount
  ELSE def.retries[s]

(* The context of the level's goroutines. *)
groupDone == groupFailed \/ ctx # "live"

goto(s, where) == pc' = [pc EXCEPT ![s] = where]
record(s, status) == result' = [result EXCEPT ![s] = status]

(* RecordStepSuccess and RecordStepFailure, and the step function returns. *)
succeed(s) == record(s, "completed") /\ goto(s, "ok")
fail(s) == record(s, "failed") /\ goto(s, "err")

-----------------------------------------------------------------------------
(* ExecuteWorkflow and executeDAG *)

ExecuteWorkflow ==
  /\ phase = "new" /\ phase' = "planning"
  /\ startPlan
  /\ SaveState("running", {})
  /\ UNCHANGED <<loaded, current, groupFailed, dagErr, outcome, ctx, stepVars>>

(* buildExecutionLevels: one more level while steps are left; without a step
   of in-degree zero the plan fails and no step runs.                        *)
plan ==
  /\ phase = "planning" /\ processed # def.steps
  /\ IF currentLevel # {}
       THEN buildLevel /\ UNCHANGED <<phase, dagErr>>
       ELSE phase' = "ended" /\ dagErr' = TRUE /\ UNCHANGED planVars
  /\ UNCHANGED <<storeVars, current, groupFailed, outcome, ctx, stepVars>>

planned ==
  /\ phase = "planning" /\ processed = def.steps
  /\ phase' = "levels"
  /\ UNCHANGED <<planVars, storeVars, current, groupFailed, dagErr, outcome,
                 ctx, stepVars>>

(* The next level: a new group, and a goroutine for each of its steps. *)
executeLevel ==
  /\ phase = "levels" /\ current < height
  /\ phase' = "joining" /\ current' = current + 1 /\ groupFailed' = FALSE
  /\ pc' = [s \in Steps |-> IF s \in def.steps /\ level[s] = current + 1
                              THEN "queued" ELSE pc[s]]
  /\ UNCHANGED <<planVars, storeVars, dagErr, outcome, ctx, slots, result,
                 attempts, snap>>

levelJoined == \A s \in def.steps : level[s] = current => pc[s] = "done"

(* Mutated form of wait: the level is left while steps of it still run. *)
waitEarly ==
  /\ phase = "joining"
  /\ phase' = IF groupFailed THEN "ended" ELSE "levels"
  /\ dagErr' = groupFailed
  /\ UNCHANGED <<planVars, storeVars, current, groupFailed, outcome, ctx,
                 stepVars>>

(* g.Wait: every goroutine of the level has returned; an error ends the run. *)
wait ==
  /\ phase = "joining" /\ levelJoined
  /\ phase' = IF groupFailed THEN "ended" ELSE "levels"
  /\ dagErr' = groupFailed
  /\ UNCHANGED <<planVars, storeVars, current, groupFailed, outcome, ctx,
                 stepVars>>

dagEnds ==
  /\ phase = "levels" /\ current = height
  /\ phase' = "ended"
  /\ UNCHANGED <<planVars, storeVars, current, groupFailed, dagErr, outcome,
                 ctx, stepVars>>

(* Mutated form of finish: saved under the execution's own context. *)
finishInContext(status) ==
  /\ phase = "ended" /\ phase' = "done"
  /\ status \in IF dagErr THEN {IF ctx = "deadline" THEN "timed_out" ELSE "failed"}
                          ELSE {"completed", "failed"}
  /\ outcome' = status
  /\ IF ctx = "live" THEN SaveState(status, Completed) ELSE UNCHANGED stored
  /\ UNCHANGED <<planVars, loaded, current, groupFailed, dagErr, ctx, stepVars>>

(* The status of the result: an error counts as a timeout when the deadline has
   passed; a workflow without error completes unless its output cannot be
   constructed. The final state is saved under a context of its own.         *)
finish(status) ==
  /\ phase = "ended" /\ phase' = "done"
  /\ status \in IF dagErr THEN {IF ctx = "deadline" THEN "timed_out" ELSE "failed"}
                          ELSE {"completed", "failed"}
  /\ outcome' = status
  /\ SaveState(status, Completed)
  /\ UNCHANGED <<planVars, loaded, current, groupFailed, dagErr, ctx, stepVars>>

-----------------------------------------------------------------------------
(* The goroutine of a step *)

quiet == UNCHANGED <<planVars, storeVars, phase, current, dagErr, outcome, ctx>>

acquire(s) ==
  /\ pc[s] = "queued" /\ slots < MaxParallel
  /\ slots' = slots + 1
  /\ goto(s, "admitted")
  /\ quiet /\ UNCHANGED <<groupFailed, result, attempts, snap>>

(* Mutated form of cancelledInQueue: gives back a slot it never took. *)
cancelledGivesBack(s) ==
  /\ pc[s] = "queued" /\ groupDone
  /\ groupFailed' = TRUE /\ slots' = slots - 1
  /\ goto(s, "done")
  /\ quiet /\ UNCHANGED <<result, attempts, snap>>

(* The group was cancelled first: the error is the context's, and no failure
   mode tolerates it.                                                        *)
cancelledInQueue(s) ==
  /\ pc[s] = "queued" /\ groupDone
  /\ groupFailed' = TRUE
  /\ goto(s, "done")
  /\ quiet /\ UNCHANGED <<slots, result, attempts, snap>>

(* The step executor's look at the context, then RecordStepStart. *)
start(s) ==
  /\ pc[s] = "admitted"
  /\ IF groupDone THEN goto(s, "err") /\ UNCHANGED result
     ELSE record(s, "running")
          /\ goto(s, IF def.conditional[s] THEN "condition" ELSE "prepare")
  /\ quiet /\ UNCHANGED <<slots, groupFailed, attempts, snap>>

evaluateCondition(s) ==
  /\ pc[s] = "condition"
  /\ \/ fail(s)
     \/ record(s, "skipped") /\ goto(s, "ok")
     \/ goto(s, "prepare") /\ UNCHANGED result
  /\ quiet /\ UNCHANGED <<slots, groupFailed, attempts, snap>>

(* The type of the step; a tool step may fail to expand its arguments or to
   find a backend, an elicitation or forEach step to be set up.              *)
executeStep(s) ==
  /\ pc[s] = "prepare"
  /\ \/ fail(s)
     \/ /\ goto(s, CASE def.type[s] = "tool" -> "calling"
                     [] def.type[s] = "elicitation" -> "asking"
                     [] def.type[s] = "forEach" -> "iterating")
        /\ UNCHANGED result
  /\ quiet /\ UNCHANGED <<slots, groupFailed, attempts, snap>>

(* handleToolStepFailure: a step that continues on error swallows it here. *)
toolFails(s) ==
  /\ record(s, "failed")
  /\ goto(s, IF def.onError[s] = "continue" THEN "ok" ELSE "err")

(* Mutated form of triesLeft: one call too many. *)
oneTryMore(s) == attempts[s] < getRetryConfig(s) + 1

(* backoff.WithMaxTries(maxRetries + 1), as the call that is ending sees it. *)
triesLeft(s) == attempts[s] + 1 < getRetryConfig(s) + 1

(* A call of callToolWithRetry returns: with the tool's answer, after which the
   step takes a checkpoint, or with an error.                                *)
callTool(s) ==
  /\ pc[s] = "calling"
  /\ attempts' = [attempts EXCEPT ![s] = @ + 1]
  /\ \/ record(s, "completed") /\ goto(s, "snapshot")
     \/ triesLeft(s) /\ goto(s, "backoff") /\ UNCHANGED result
     \/ ~triesLeft(s) /\ toolFails(s)
  /\ quiet /\ UNCHANGED <<slots, groupFailed, snap>>

(* The delay before a retry ends: with the next call, or with the context (the
   step's own deadline included).                                            *)
backoff(s) ==
  /\ pc[s] = "backoff"
  /\ \/ goto(s, "calling") /\ UNCHANGED result
     \/ toolFails(s)
  /\ quiet /\ UNCHANGED <<slots, groupFailed, attempts, snap>>

(* checkpointWorkflowState builds the status under the context's lock ... *)
buildWorkflowStatus(s) ==
  /\ pc[s] = "snapshot"
  /\ snap' = [snap EXCEPT ![s] = Completed]
  /\ goto(s, "saving")
  /\ quiet /\ UNCHANGED <<slots, groupFailed, result, attempts>>

(* ... and saves it later, when another step may have saved a newer one. *)
checkpointWorkflowState(s) ==
  /\ pc[s] = "saving"
  /\ SaveState("running", snap[s])
  /\ goto(s, "ok")
  /\ UNCHANGED <<planVars, loaded, runVars, ctx, slots, result, attempts, snap>>

(* executeElicitationStep: the user's answer, or the timeout, which counts as a
   cancel; the handlers of the definition turn a decline or a cancel into a
   success or a failure ("skip_remaining" is a success like "continue").     *)
executeElicitationStep(s) ==
  /\ pc[s] = "asking"
  /\ succeed(s) \/ fail(s)
  /\ quiet /\ UNCHANGED <<slots, groupFailed, attempts, snap>>

(* executeForEachStep returns after its last iteration has. *)
executeForEachStep(s) ==
  /\ pc[s] = "iterating"
  /\ \/ succeed(s)
     \/ def.onError[s] # "continue" /\ fail(s)
  /\ quiet /\ UNCHANGED <<slots, groupFailed, attempts, snap>>

(* Mutated form of return: the slot is not given back. *)
returnKeepsSlot(s) ==
  /\ pc[s] \in {"ok", "err"}
  /\ groupFailed' = (groupFailed \/ (pc[s] = "err" /\ ~shouldContinueOnError(s)))
  /\ goto(s, "done")
  /\ quiet /\ UNCHANGED <<slots, result, attempts, snap>>

(* Mutated form of return: the error of the step is lost. *)
returnDropsError(s) ==
  /\ pc[s] \in {"ok", "err"}
  /\ slots' = slots - 1
  /\ goto(s, "done")
  /\ quiet /\ UNCHANGED <<groupFailed, result, attempts, snap>>

(* The goroutine returns: the first error that is not tolerated fails the group
   and cancels its context; the slot is given back.                          *)
return(s) ==
  /\ pc[s] \in {"ok", "err"}
  /\ groupFailed' = (groupFailed \/ (pc[s] = "err" /\ ~shouldContinueOnError(s)))
  /\ slots' = slots - 1
  /\ goto(s, "done")
  /\ quiet /\ UNCHANGED <<result, attempts, snap>>

-----------------------------------------------------------------------------
(* Outside the execution *)

(* The workflow's deadline passes, or the client's request ends. *)
contextEnds ==
  /\ phase \notin {"new", "done"} /\ ctx = "live"
  /\ ctx' \in {"deadline", "cancelled"}
  /\ UNCHANGED <<planVars, storeVars, runVars, stepVars>>

storeStep ==
  /\ CancelWorkflowLoad \/ CancelWorkflowSave \/ cleanup
  /\ UNCHANGED <<planVars, runVars, ctx, stepVars>>

engineStep ==
  \/ plan \/ planned \/ executeLevel \/ wait \/ dagEnds
  \/ \E status \in {"completed", "failed", "timed_out"} : finish(status)

stepStep(s) ==
  \/ acquire(s) \/ cancelledInQueue(s) \/ start(s) \/ evaluateCondition(s)
  \/ executeStep(s) \/ callTool(s) \/ backoff(s) \/ buildWorkflowStatus(s)
  \/ checkpointWorkflowState(s) \/ executeElicitationStep(s)
  \/ executeForEachStep(s) \/ return(s)

Next ==
  \/ ExecuteWorkflow \/ engineStep \/ contextEnds \/ storeStep
  \/ \E s \in Steps : stepStep(s)

Spec == Init /\ [][Next]_vars

(* The Go scheduler runs every goroutine that can run; a call to a backend, a
   delay and a request to the user end, because each has a deadline.         *)
FairSpec ==
  /\ Spec
  /\ WF_vars(engineStep)
  /\ \A s \in Steps : WF_vars(stepStep(s))

-----------------------------------------------------------------------------
(* Properties *)

(* Sorting a validated definition never finds a cycle: while steps are left,
   one of them has all its dependencies in earlier levels
   (buildExecutionLevels; the validation ran at start-up, on DependsOn).     *)
PlanSucceeds ==
  phase = "planning" => processed = def.steps \/ currentLevel # {}

(* The step ended well, or badly where the definition tolerates it. *)
Earned(s) ==
  /\ pc[s] = "done"
  /\ result[s] \in {"completed", "skipped"} \/ shouldContinueOnError(s)

(* A step starts only after every dependency has ended, completed or skipped
   unless its failure is tolerated; so nothing that depends on a failed step
   of an aborting workflow runs, whatever the levels and the cancellations do
   (executeStep: "all dependencies are guaranteed to have completed").       *)
DependenciesFirst ==
  \A s \in def.steps :
    result[s] # "none" => \A d \in def.deps[s] : Earned(d)

(* The steps between taking and giving back a slot. *)
Running == {s \in Steps : pc[s] \notin {"idle", "queued", "done"}}

(* No more than MaxParallel steps run at a time, through cancellations, errors
   and level changes (the semaphore of executeLevel).                        *)
AtMostMaxParallel == Cardinality(Running) <= MaxParallel

(* ExecuteWorkflow reports a completed workflow only if every step of it
   completed, was skipped, or may fail by its definition; no error of a
   parallel step is lost.                                                    *)
CompletedIsEarned ==
  outcome = "completed" => \A s \in def.steps : Earned(s)

(* The store never lists a step as completed that is not: neither through a
   late checkpoint nor through a cancellation that saves an old copy.        *)
RecordedIsTrue ==
  stored.completed \subseteq Completed /\ loaded.completed \subseteq Completed

(* When ExecuteWorkflow has returned, nothing of it runs, and no checkpoint of a
   step has overwritten the final state: the store holds the status that was
   returned with all completed steps, unless it was marked cancelled by a
   CancelWorkflow that had loaded it earlier, or was cleaned up.             *)
ReturnedIsRecorded ==
  phase = "done" =>
    /\ Running = {}
    /\ \/ stored.status \in {"none", "cancelled"}
       \/ stored = [status |-> outcome, completed |-> Completed]

(* Every execution returns: no step waits for ever for a slot, no level for a
   step.                                                                     *)
WorkflowEnds == (phase = "planning") ~> (phase = "done")
=============================================================================
