--------------------------- MODULE WorkflowProofs ---------------------------
(* Proofs about Workflow for every set of definitions, every number of steps,
   every number of slots and every cap on retries.

   The inductive invariant has six parts. PlanInv: levels respect dependencies
   and the unmet dependencies are the ones without a level. RunInv: what each
   phase of ExecuteWorkflow knows about the plan and the errors. PcInv: steps
   of later levels are idle, steps of earlier levels have ended well, and so
   has every returned step of the current level while the group has not failed.
   TryInv: the retry loop. SlotInv: the semaphore counts the running steps.
   StoreInv: every copy of the completed steps is a subset of them.           *)
EXTENDS Workflow, TLAPS

PlanInv ==
  /\ ValidateWorkflow(def)
  /\ \A s \in Steps : level[s] <= height /\ (level[s] # 0 => s \in def.steps)
  /\ phase = "new" => \A s \in Steps : level[s] = 0
  /\ phase # "new" =>
       \A s \in def.steps : unmet[s] = {x \in def.deps[s] : level[x] = 0}
  /\ \A s \in def.steps : level[s] # 0 =>
       \A x \in def.deps[s] : level[x] # 0 /\ level[x] < level[s]
  /\ phase \notin {"new", "planning"} => \A s \in def.steps : level[s] # 0

RunInv ==
  /\ current <= height
  /\ phase \in {"new", "planning"} => current = 0
  /\ phase \in {"new", "planning", "levels"} => ~groupFailed
  /\ phase \in {"new", "planning", "levels", "joining"} => ~dagErr
  /\ phase \in {"ended", "done"} => dagErr \/ (current = height /\ ~groupFailed)
  /\ phase # "done" => outcome = "none"
  /\ outcome = "completed" => ~dagErr

Before == {"idle", "queued", "admitted"}
Inside == {"condition", "prepare", "calling", "backoff", "asking", "iterating"}

PcInv ==
  /\ \A s \in Steps : level[s] = 0 \/ level[s] > current => pc[s] = "idle"
  /\ phase # "joining" =>
       \A s \in Steps : pc[s] \in {"idle", "done"}
                        /\ (level[s] # 0 /\ level[s] <= current => pc[s] = "done")
  /\ \A s \in Steps : level[s] # 0 /\ level[s] < current => Earned(s)
  /\ ~groupFailed => \A s \in Steps :
       level[s] # 0 /\ level[s] = current /\ pc[s] = "done" => Earned(s)
  /\ \A s \in Steps : pc[s] \in Before => result[s] = "none"
  /\ \A s \in Steps : pc[s] \in Inside => result[s] = "running"
  /\ \A s \in Steps : pc[s] \in {"snapshot", "saving"} => result[s] = "completed"
  /\ \A s \in Steps : pc[s] = "ok" =>
       result[s] \in {"completed", "skipped"} \/ def.onError[s] = "continue"

TryInv ==
  \A s \in Steps :
    /\ pc[s] \in Before \cup {"condition", "prepare"} => attempts[s] = 0
    /\ pc[s] \in {"calling", "backoff"} => attempts[s] <= getRetryConfig(s)

SlotInv == slots = Cardinality(Running) /\ slots <= MaxParallel

StoreInv ==
  /\ RecordedIsTrue
  /\ \A s \in Steps : snap[s] \subseteq Completed

IInv == TypeOK /\ PlanInv /\ RunInv /\ PcInv /\ TryInv /\ SlotInv /\ StoreInv

-----------------------------------------------------------------------------
(* The sort *)

(* While a validated definition has steps without a level, one of them has no
   unmet dependency (buildExecutionLevels never reports a cycle).            *)
LEMMA SortProgresses ==
  ASSUME TypeOK, PlanInv, phase = "planning"
  PROVE  PlanSucceeds
<1> SUFFICES ASSUME processed # def.steps, currentLevel = {} PROVE FALSE
  BY DEF PlanSucceeds
<1> DEFINE C == {s \in def.steps : level[s] = 0}
<1>1. def \in DefinitionType /\ level \in [Steps -> Nat] /\ unmet \in [Steps -> SUBSET Steps]
  BY DEF TypeOK, PlanTypeOK
<1>2. C # {} BY DEF processed
<1>3. \A s \in C : unmet[s] # {} BY DEF currentLevel
<1>4. \A s \in C : unmet[s] = {x \in def.deps[s] : level[x] = 0} BY DEF PlanInv
<1>5. \A s \in C : def.deps[s] \subseteq def.steps
  BY DEF PlanInv, ValidateWorkflow, validateReferences
<1>6. \A s \in C : def.deps[s] \cap C # {} BY <1>3, <1>4, <1>5
<1>7. C \in SUBSET def.steps OBVIOUS
<1>8. hasCycle(def) BY <1>2, <1>6, <1>7, Zenon DEF hasCycle
<1> QED BY <1>8 DEF PlanInv, ValidateWorkflow

-----------------------------------------------------------------------------
(* Steps of the execution *)

(* What every step of a goroutine leaves alone. *)
LEMMA StepFrame ==
  ASSUME NEW s \in Steps, stepStep(s)
  PROVE  UNCHANGED <<planVars, phase, current, dagErr, outcome, ctx, loaded>>
BY DEF stepStep, quiet, runVars, storeVars, acquire, cancelledInQueue, start,
       evaluateCondition, executeStep, callTool, backoff, buildWorkflowStatus,
       checkpointWorkflowState, executeElicitationStep, executeForEachStep, return

(* What the engine's other steps leave alone: all of the goroutines' state. *)
LEMMA EngineFrame ==
  ASSUME ExecuteWorkflow \/ plan \/ planned \/ wait \/ dagEnds \/ contextEnds \/ storeStep
         \/ \E st \in {"completed", "failed", "timed_out"} : finish(st)
  PROVE  UNCHANGED <<def, stepVars>>
<1>1. CASE ExecuteWorkflow BY <1>1 DEF ExecuteWorkflow, startPlan
<1>2. CASE plan BY <1>2 DEF plan, buildLevel, planVars
<1>3. CASE planned BY <1>3 DEF planned, planVars
<1>4. CASE wait \/ dagEnds BY <1>4 DEF wait, dagEnds, planVars
<1>5. CASE contextEnds \/ storeStep BY <1>5 DEF contextEnds, storeStep, planVars
<1>6. ASSUME NEW st \in {"completed", "failed", "timed_out"}, finish(st)
      PROVE  UNCHANGED <<def, stepVars>>
  BY <1>6 DEF finish, planVars
<1> QED BY <1>1, <1>2, <1>3, <1>4, <1>5, <1>6

(* The plan's part survives every step: levels are only given in the planning
   phase, to steps whose dependencies all have one already.                  *)
LEMMA PlanNext ==
  ASSUME IInv, Next
  PROVE  PlanInv'
<1> USE DEF IInv
<1>0. /\ def \in DefinitionType /\ level \in [Steps -> Nat] /\ height \in Nat
      /\ unmet \in [Steps -> SUBSET Steps] /\ def.steps \subseteq Steps
      /\ \A s \in def.steps : def.deps[s] \subseteq def.steps
  BY DEF TypeOK, PlanTypeOK, DefinitionType, PlanInv, ValidateWorkflow, validateReferences
<1>1. CASE ExecuteWorkflow
  <2>1. unmet' = def.deps /\ UNCHANGED <<def, level, height>> /\ phase' = "planning" /\ phase = "new"
    BY <1>1 DEF ExecuteWorkflow, startPlan
  <2>2. \A s \in def.steps : \A x \in def.deps[s] : level[x] = 0
    BY <1>0, <2>1 DEF PlanInv
  <2> QED BY <1>0, <2>1, <2>2 DEF PlanInv
<1>2. CASE plan
  <2>1. phase = "planning" /\ processed # def.steps BY <1>2 DEF plan
  <2>2. currentLevel # {} BY <2>1, SortProgresses DEF PlanSucceeds
  <2>3. buildLevel /\ phase' = phase BY <1>2, <2>2 DEF plan
  <2>4. /\ def' = def /\ height' = height + 1
        /\ level' = [s \in Steps |-> IF s \in currentLevel THEN height + 1 ELSE level[s]]
        /\ unmet' = [s \in Steps |-> unmet[s] \ currentLevel]
    BY <2>3 DEF buildLevel
  <2>5. \A s \in currentLevel : s \in def.steps /\ level[s] = 0 /\ unmet[s] = {}
    BY DEF currentLevel
  <2>6. \A s \in Steps : level'[s] <= height' /\ (level'[s] # 0 => s \in def.steps)
    BY <1>0, <2>4, <2>5 DEF PlanInv
  <2>7. \A s \in def.steps : unmet'[s] = {x \in def.deps[s] : level'[x] = 0}
    <3> SUFFICES ASSUME NEW s \in def.steps
                 PROVE  unmet'[s] = {x \in def.deps[s] : level'[x] = 0}
      OBVIOUS
    <3>1. unmet[s] = {x \in def.deps[s] : level[x] = 0} BY <2>1 DEF PlanInv
    <3>2. unmet'[s] = unmet[s] \ currentLevel BY <1>0, <2>4
    <3>3. \A x \in def.deps[s] : level'[x] = 0 <=> level[x] = 0 /\ x \notin currentLevel
      BY <1>0, <2>4
    <3> QED BY <3>1, <3>2, <3>3
  <2>8. ASSUME NEW s \in def.steps, level'[s] # 0, NEW x \in def.deps[s]
        PROVE  level'[x] # 0 /\ level'[x] < level'[s]
    <3>0. s \in Steps /\ x \in def.steps /\ x \in Steps BY <1>0
    <3>1. CASE s \in currentLevel
      <4>1. level[x] # 0
        BY <2>1, <2>5, <3>1 DEF PlanInv
      <4>2. x \notin currentLevel BY <4>1, <2>5
      <4>3. level'[x] = level[x] /\ level'[s] = height + 1
        BY <2>4, <3>0, <3>1, <4>2
      <4>4. level[x] <= height BY <3>0 DEF PlanInv
      <4> QED BY <1>0, <3>0, <4>1, <4>3, <4>4
    <3>2. CASE s \notin currentLevel
      <4>1. level'[s] = level[s] BY <2>4, <3>0, <3>2
      <4>2. level[x] # 0 /\ level[x] < level[s] BY <2>8, <4>1 DEF PlanInv
      <4>3. x \notin currentLevel BY <4>2, <2>5
      <4> QED BY <2>4, <3>0, <4>1, <4>2, <4>3
    <3> QED BY <3>1, <3>2
  <2> QED BY Zenon, <2>1, <2>3, <2>4, <2>6, <2>7, <2>8 DEF PlanInv
<1>3. CASE planned
  <2>1. \A s \in def.steps : level[s] # 0 BY <1>3 DEF planned, processed
  <2> QED BY <1>3, <2>1 DEF planned, planVars, PlanInv
<1>4. CASE UNCHANGED planVars /\ (phase' = phase \/ (phase' \notin {"new", "planning"}
                                                    /\ phase \notin {"new", "planning"}))
  BY <1>4 DEF planVars, PlanInv
<1>5. CASE executeLevel \/ wait \/ dagEnds \/ \E st \in {"completed", "failed", "timed_out"} : finish(st)
  BY <1>4, <1>5 DEF executeLevel, wait, dagEnds, finish
<1>6. CASE contextEnds \/ storeStep
  BY <1>4, <1>6 DEF contextEnds, storeStep, runVars
<1>7. ASSUME NEW s \in Steps, stepStep(s) PROVE PlanInv'
  BY <1>4, <1>7, StepFrame
<1> QED BY <1>1, <1>2, <1>3, <1>5, <1>6, <1>7 DEF Next, engineStep

(* The phases' part. *)
LEMMA RunNext ==
  ASSUME IInv, Next
  PROVE  RunInv'
<1> USE DEF IInv
<1>0. current \in Nat /\ height \in Nat /\ dagErr \in BOOLEAN /\ groupFailed \in BOOLEAN
  BY DEF TypeOK, PlanTypeOK
<1>1. CASE ExecuteWorkflow
  BY <1>0, <1>1 DEF ExecuteWorkflow, startPlan, RunInv
<1>2. CASE plan
  <2>1. phase = "planning" /\ processed # def.steps BY <1>2 DEF plan
  <2>2. currentLevel # {} BY <2>1, SortProgresses DEF PlanSucceeds
  <2>3. buildLevel /\ UNCHANGED <<phase, dagErr>> BY <1>2, <2>2 DEF plan
  <2> QED BY <1>0, <1>2, <2>3 DEF plan, buildLevel, RunInv
<1>3. CASE planned BY <1>0, <1>3 DEF planned, planVars, RunInv
<1>4. CASE executeLevel BY <1>0, <1>4 DEF executeLevel, planVars, RunInv
<1>5. CASE wait BY <1>0, <1>5 DEF wait, planVars, RunInv
<1>6. CASE dagEnds BY <1>0, <1>6 DEF dagEnds, planVars, RunInv
<1>7. ASSUME NEW st \in {"completed", "failed", "timed_out"}, finish(st) PROVE RunInv'
  BY <1>0, <1>7 DEF finish, planVars, RunInv
<1>8. CASE contextEnds BY <1>8 DEF contextEnds, planVars, runVars, RunInv
<1>9. CASE storeStep BY <1>9 DEF storeStep, planVars, runVars, RunInv
<1>10. ASSUME NEW s \in Steps, stepStep(s) PROVE RunInv'
  <2>1. UNCHANGED <<height, phase, current, dagErr, outcome>> BY <1>10, StepFrame DEF planVars
  <2>2. phase = "joining" \/ groupFailed' = groupFailed
    <3>1. phase # "joining" => pc[s] \in {"idle", "done"} BY DEF PcInv
    <3> QED BY <1>10, <3>1 DEF stepStep, acquire, cancelledInQueue, start,
       evaluateCondition, executeStep, callTool, backoff, buildWorkflowStatus,
       checkpointWorkflowState, executeElicitationStep, executeForEachStep, return
  <2> QED BY <2>1, <2>2 DEF RunInv
<1> QED BY <1>1, <1>2, <1>3, <1>4, <1>5, <1>6, <1>7, <1>8, <1>9, <1>10 DEF Next, engineStep

(* A goroutine that is neither idle nor done belongs to the current level of a
   level being executed.                                                     *)
LEMMA ActiveIsCurrent ==
  ASSUME IInv, NEW s \in Steps, pc[s] \notin {"idle", "done"}
  PROVE  phase = "joining" /\ level[s] # 0 /\ level[s] = current
<1>1. level[s] \in Nat /\ current \in Nat BY DEF IInv, TypeOK, PlanTypeOK
<1>2. phase = "joining" /\ level[s] # 0 /\ ~(level[s] > current) BY DEF IInv, PcInv
<1>3. ~(level[s] < current) BY <1>2 DEF IInv, PcInv, Earned
<1> QED BY <1>1, <1>2, <1>3

LEMMA StepIsActive ==
  ASSUME NEW s \in Steps, stepStep(s)
  PROVE  pc[s] \notin {"idle", "done"}
BY DEF stepStep, acquire, cancelledInQueue, start, evaluateCondition,
       executeStep, callTool, backoff, buildWorkflowStatus,
       checkpointWorkflowState, executeElicitationStep, executeForEachStep, return

(* The goroutine of s goes to w and its result becomes v; the others stay, and
   a failed group stays failed. PcInv then only asks whether v fits w.       *)
LEMMA PcMove ==
  ASSUME IInv, NEW s \in Steps, NEW w \in Pcs \ {"idle"},
         NEW v \in {"none", "running", "completed", "failed", "skipped"},
         phase = "joining", level[s] # 0, level[s] = current,
         UNCHANGED <<def, level, phase, current>>, groupFailed => groupFailed',
         pc' = [pc EXCEPT ![s] = w], result' = [result EXCEPT ![s] = v],
         w \in Before => v = "none",
         w \in Inside => v = "running",
         w \in {"snapshot", "saving"} => v = "completed",
         w = "ok" => v \in {"completed", "skipped"} \/ def.onError[s] = "continue",
         w = "done" => groupFailed' \/ v \in {"completed", "skipped"} \/ shouldContinueOnError(s)
  PROVE  PcInv'
<1> USE DEF IInv
<1>1. /\ pc'[s] = w /\ result'[s] = v
      /\ \A x \in Steps \ {s} : pc'[x] = pc[x] /\ result'[x] = result[x]
  BY DEF TypeOK
<1>2. \A x \in Steps : shouldContinueOnError(x)' = shouldContinueOnError(x)
  BY DEF shouldContinueOnError
<1>3. \A x \in Steps \ {s} : Earned(x) => Earned(x)'
  BY Zenon, <1>1, <1>2 DEF Earned
<1>4. level[s] \in Nat /\ current \in Nat BY DEF TypeOK, PlanTypeOK
<1>5. ~(level[s] = 0) /\ ~(level[s] > current) /\ ~(level[s] < current) BY <1>4
<1>6. \A x \in Steps : (level[x] = 0 \/ level[x] > current => pc[x] = "idle")'
  BY Zenon, <1>1, <1>5 DEF PcInv
<1>7. \A x \in Steps : (level[x] # 0 /\ level[x] < current => Earned(x))'
  BY Zenon, <1>3, <1>5 DEF PcInv
<1>8. (~groupFailed => \A x \in Steps :
         level[x] # 0 /\ level[x] = current /\ pc[x] = "done" => Earned(x))'
  <2> SUFFICES ASSUME ~groupFailed', NEW x \in Steps, level[x] # 0, level[x] = current, pc'[x] = "done"
               PROVE  Earned(x)'
    BY Zenon
  <2>1. CASE x = s BY Zenon, <2>1, <1>1, <1>2 DEF Earned
  <2>2. CASE x # s BY Zenon, <2>2, <1>1, <1>3 DEF PcInv
  <2> QED BY <2>1, <2>2
<1>9. \A x \in Steps : /\ pc'[x] \in Before => result'[x] = "none"
                       /\ pc'[x] \in Inside => result'[x] = "running"
                       /\ pc'[x] \in {"snapshot", "saving"} => result'[x] = "completed"
  BY <1>1 DEF PcInv
<1>10. \A x \in Steps : pc'[x] = "ok" =>
          result'[x] \in {"completed", "skipped"} \/ def'.onError[x] = "continue"
  BY <1>1 DEF PcInv
<1> QED BY <1>6, <1>7, <1>8, <1>9, <1>10, Zenon DEF PcInv, Before, Inside

(* One goroutine moves: its own position and result stay related, and a return
   without a tolerated error fails the group.                                *)
LEMMA StepPc ==
  ASSUME IInv, NEW s \in Steps, stepStep(s)
  PROVE  PcInv'
<1> USE DEF IInv
<1>1. /\ result[s] \in {"none", "running", "completed", "failed", "skipped"}
      /\ result = [result EXCEPT ![s] = result[s]]
  BY DEF TypeOK
<1>2. phase = "joining" /\ level[s] # 0 /\ level[s] = current
  BY StepIsActive, ActiveIsCurrent
<1>3. UNCHANGED <<def, level, phase, current>> BY StepFrame DEF planVars
<1>4. /\ pc[s] \in Before => result[s] = "none"
      /\ pc[s] \in Inside => result[s] = "running"
      /\ pc[s] \in {"snapshot", "saving"} => result[s] = "completed"
      /\ pc[s] = "ok" => result[s] \in {"completed", "skipped"} \/ def.onError[s] = "continue"
  BY DEF PcInv
<1> DEFINE Fits(w, v) ==
      /\ w \in Before => v = "none"
      /\ w \in Inside => v = "running"
      /\ w \in {"snapshot", "saving"} => v = "completed"
      /\ w = "ok" => v \in {"completed", "skipped"} \/ def.onError[s] = "continue"
<1>5. ASSUME NEW w \in Pcs \ {"idle", "done"},
             NEW v \in {"none", "running", "completed", "failed", "skipped"},
             goto(s, w), record(s, v), UNCHANGED groupFailed, Fits(w, v)
      PROVE  PcInv'
  BY Zenon, <1>2, <1>3, <1>5, PcMove DEF goto, record
<1>6. ASSUME NEW w \in Pcs \ {"idle", "done"},
             goto(s, w), UNCHANGED <<result, groupFailed>>, Fits(w, result[s])
      PROVE  PcInv'
  <2>1. record(s, result[s]) BY <1>1, <1>6 DEF record
  <2> QED BY Zenon, <1>1, <1>5, <1>6, <2>1
<1> USE DEF Before, Inside, Pcs
<1>7. CASE acquire(s) BY <1>4, <1>6, <1>7 DEF acquire
<1>8. CASE start(s)
  <2>1. CASE groupDone BY <1>6, <1>8, <2>1 DEF start
  <2>2. CASE ~groupDone
    <3>1. PICK w \in {"condition", "prepare"} : goto(s, w)
      BY <1>8, <2>2 DEF start
    <3> QED BY <1>5, <1>8, <2>2, <3>1 DEF start
  <2> QED BY <2>1, <2>2
<1>9. CASE evaluateCondition(s)
  <2>1. CASE fail(s) BY <1>5, <1>9, <2>1 DEF evaluateCondition, fail
  <2>2. CASE record(s, "skipped") /\ goto(s, "ok") BY <1>5, <1>9, <2>2 DEF evaluateCondition
  <2>3. CASE goto(s, "prepare") /\ UNCHANGED result BY <1>4, <1>6, <1>9, <2>3 DEF evaluateCondition
  <2> QED BY <1>9, <2>1, <2>2, <2>3 DEF evaluateCondition
<1>10. CASE executeStep(s)
  <2>1. CASE fail(s) BY <1>5, <1>10, <2>1 DEF executeStep, fail
  <2>2. CASE ~fail(s)
    <3>1. def.type[s] \in StepTypes BY DEF TypeOK, PlanTypeOK, DefinitionType
    <3>2. PICK w \in {"calling", "asking", "iterating"} : goto(s, w)
      BY SMTT(30), <1>10, <2>2, <3>1 DEF executeStep, StepTypes
    <3> QED BY <1>4, <1>6, <1>10, <2>2, <3>2 DEF executeStep
  <2> QED BY <2>1, <2>2
<1>11. ASSUME toolFails(s), UNCHANGED groupFailed PROVE PcInv'
  <2>1. CASE def.onError[s] = "continue" BY <1>5, <1>11, <2>1 DEF toolFails
  <2>2. CASE def.onError[s] # "continue" BY <1>5, <1>11, <2>2 DEF toolFails
  <2> QED BY <2>1, <2>2
<1>12. CASE callTool(s)
  <2>1. CASE record(s, "completed") /\ goto(s, "snapshot") BY <1>5, <1>12, <2>1 DEF callTool
  <2>2. CASE goto(s, "backoff") /\ UNCHANGED result BY <1>4, <1>6, <1>12, <2>2 DEF callTool
  <2> QED BY <1>11, <1>12, <2>1, <2>2 DEF callTool
<1>13. CASE backoff(s)
  <2>1. CASE goto(s, "calling") /\ UNCHANGED result BY <1>4, <1>6, <1>13, <2>1 DEF backoff
  <2> QED BY <1>11, <1>13, <2>1 DEF backoff
<1>14. CASE buildWorkflowStatus(s) BY <1>4, <1>6, <1>14 DEF buildWorkflowStatus
<1>15. CASE checkpointWorkflowState(s) BY <1>4, <1>6, <1>15 DEF checkpointWorkflowState, runVars
<1>16. CASE executeElicitationStep(s) \/ executeForEachStep(s)
  <2>1. CASE succeed(s) BY <1>5, <1>16, <2>1 DEF executeElicitationStep, executeForEachStep, succeed
  <2>2. CASE fail(s) BY <1>5, <1>16, <2>2 DEF executeElicitationStep, executeForEachStep, fail
  <2> QED BY <1>16, <2>1, <2>2 DEF executeElicitationStep, executeForEachStep
<1>17. ASSUME goto(s, "done"), UNCHANGED result, groupFailed => groupFailed',
              groupFailed' \/ result[s] \in {"completed", "skipped"} \/ shouldContinueOnError(s)
       PROVE  PcInv'
  <2>1. record(s, result[s]) BY <1>1, <1>17 DEF record
  <2> QED BY Zenon, <1>1, <1>2, <1>3, <1>17, <2>1, PcMove DEF goto, record
<1>18. CASE cancelledInQueue(s) BY <1>17, <1>18 DEF cancelledInQueue
<1>19. CASE return(s)
  <2>1. CASE pc[s] = "ok" BY Zenon, <1>4, <1>17, <1>19, <2>1 DEF return, shouldContinueOnError
  <2>2. CASE pc[s] = "err" BY Zenon, <1>17, <1>19, <2>2 DEF return
  <2> QED BY <1>19, <2>1, <2>2 DEF return
<1> QED
  BY Zenon, <1>7, <1>8, <1>9, <1>10, <1>12, <1>13, <1>14, <1>15, <1>16, <1>18, <1>19 DEF stepStep

(* The positions' part: a new level starts only when the last one has been
   joined without a failure.                                                 *)
LEMMA PcNext ==
  ASSUME IInv, Next
  PROVE  PcInv'
<1> USE DEF IInv
<1>0. /\ level \in [Steps -> Nat] /\ current \in Nat /\ height \in Nat
      /\ def.steps \subseteq Steps /\ pc \in [Steps -> Pcs]
  BY DEF TypeOK, PlanTypeOK, DefinitionType
<1>1. CASE ExecuteWorkflow
  BY <1>1 DEF ExecuteWorkflow, startPlan, stepVars, PcInv, Earned, shouldContinueOnError
<1>2. CASE plan
  <2>1. phase = "planning" /\ processed # def.steps BY <1>2 DEF plan
  <2>2. currentLevel # {} BY <2>1, SortProgresses DEF PlanSucceeds
  <2>3. buildLevel /\ UNCHANGED <<phase, pc, result, current, groupFailed>>
    BY <1>2, <2>2 DEF plan, stepVars
  <2>4. current = 0 BY <2>1 DEF RunInv
  <2>5. \A s \in Steps : pc[s] = "idle"
    BY <1>0, <2>4 DEF PcInv
  <2>6. def' = def /\ level' \in [Steps -> Nat] BY <1>0, <2>3 DEF buildLevel
  <2> QED BY <1>0, <2>1, <2>3, <2>4, <2>5, <2>6 DEF PcInv, Before, Inside
<1>3. CASE planned
  BY <1>3 DEF planned, planVars, stepVars, PcInv, Earned, shouldContinueOnError
<1>4. CASE executeLevel
  <2>1. /\ phase = "levels" /\ phase' = "joining" /\ current' = current + 1
        /\ UNCHANGED <<def, level, result>> /\ ~groupFailed
        /\ pc' = [s \in Steps |-> IF s \in def.steps /\ level[s] = current + 1
                                     THEN "queued" ELSE pc[s]]
    BY <1>4 DEF executeLevel, planVars, RunInv
  <2>2. \A s \in Steps : level[s] # 0 /\ level[s] <= current => Earned(s)
    BY <1>0, <2>1 DEF PcInv
  <2>3. \A s \in Steps : level[s] # 0 /\ level[s] < current' => Earned(s)'
    BY <1>0, <2>1, <2>2 DEF Earned, shouldContinueOnError
  <2>4. \A s \in Steps : level[s] = current + 1 => pc[s] = "idle" /\ s \in def.steps
    BY <1>0 DEF PcInv, PlanInv
  <2>5. \A s \in Steps : level[s] = 0 \/ level[s] > current' => pc'[s] = "idle"
    BY <1>0, <2>1 DEF PcInv
  <2>6. \A s \in Steps : pc'[s] = pc[s] \/ (pc'[s] = "queued" /\ pc[s] = "idle")
    BY <1>0, <2>1, <2>4
  <2>7. \A s \in Steps : level[s] = current' => pc'[s] # "done"
    BY <1>0, <2>1, <2>4
  <2> QED BY <1>0, <2>1, <2>3, <2>5, <2>6, <2>7 DEF PcInv, Before, Inside
<1>5. CASE wait
  <2>1. /\ levelJoined /\ UNCHANGED <<def, level, current, groupFailed, pc, result>>
    BY Zenon, <1>5 DEF wait, planVars, stepVars
  <2>2. \A s \in Steps : level[s] # 0 /\ level[s] <= current => pc[s] = "done"
    BY <1>0, <2>1 DEF levelJoined, PcInv, PlanInv, Earned
  <2>3. \A s \in Steps : pc[s] \in {"idle", "done"}
    BY <1>0, <2>2 DEF PcInv
  <2> QED BY <2>1, <2>2, <2>3 DEF PcInv, Earned, shouldContinueOnError
<1>6. CASE dagEnds
  BY Zenon, <1>6 DEF dagEnds, planVars, stepVars, PcInv, Earned, shouldContinueOnError
<1>7. ASSUME NEW st \in {"completed", "failed", "timed_out"}, finish(st) PROVE PcInv'
  BY <1>7 DEF finish, planVars, stepVars, PcInv, Earned, shouldContinueOnError
<1>8. CASE contextEnds \/ storeStep
  BY <1>8 DEF contextEnds, storeStep, planVars, runVars, stepVars, PcInv, Earned, shouldContinueOnError
<1>9. ASSUME NEW s \in Steps, stepStep(s) PROVE PcInv'
  BY <1>9, StepPc
<1> QED BY <1>1, <1>2, <1>3, <1>4, <1>5, <1>6, <1>7, <1>8, <1>9 DEF Next, engineStep

(* The retry loop: a call is made only while tries are left. *)
LEMMA TryNext ==
  ASSUME IInv, Next
  PROVE  TryInv'
<1> USE DEF IInv
<1>0. /\ def \in DefinitionType /\ pc \in [Steps -> Pcs]
      /\ attempts \in [Steps -> 0..(MaxRetryCount + 1)] /\ MaxRetryCount \in Nat
      /\ \A s \in Steps : getRetryConfig(s) \in Nat
  BY WorkflowConstants DEF TypeOK, PlanTypeOK, DefinitionType, getRetryConfig
<1>1. CASE UNCHANGED <<def, pc, attempts>>
  BY <1>1, Zenon DEF TryInv, getRetryConfig
<1>2. CASE ExecuteWorkflow \/ plan \/ planned \/ wait \/ dagEnds \/ contextEnds \/ storeStep
           \/ \E st \in {"completed", "failed", "timed_out"} : finish(st)
  BY <1>1, <1>2, EngineFrame DEF stepVars
<1>3. CASE executeLevel
  <2>1. UNCHANGED <<def, attempts>> BY <1>3 DEF executeLevel, planVars
  <2>2. \A s \in Steps : pc'[s] = pc[s] \/ (pc'[s] = "queued" /\ pc[s] = "idle")
    <3> SUFFICES ASSUME NEW s \in Steps PROVE pc'[s] = pc[s] \/ (pc'[s] = "queued" /\ pc[s] = "idle")
      OBVIOUS
    <3>1. level[s] = current + 1 => pc[s] = "idle"
      BY SMTT(30) DEF PcInv, TypeOK, PlanTypeOK
    <3> QED BY <1>3, <3>1 DEF executeLevel
  <2> QED BY <2>1, <2>2 DEF TryInv, getRetryConfig, Before
<1>4. ASSUME NEW s \in Steps, stepStep(s) PROVE TryInv'
  <2>0. def' = def BY <1>4, StepFrame DEF planVars
  <2>1. \A t \in Steps : t # s => pc'[t] = pc[t] /\ attempts'[t] = attempts[t]
    BY Zenon, <1>0, <1>4, SMTT(30) DEF stepStep, acquire, cancelledInQueue, start, evaluateCondition,
       executeStep, callTool, backoff, buildWorkflowStatus, checkpointWorkflowState,
       executeElicitationStep, executeForEachStep, return, goto, succeed, fail, toolFails
  <2>2. /\ pc'[s] \in Before \cup {"condition", "prepare"} => attempts'[s] = 0
        /\ pc'[s] \in {"calling", "backoff"} => attempts'[s] <= getRetryConfig(s)
    <3>1. CASE callTool(s)
      <4>1. attempts[s] \in Nat /\ attempts'[s] = attempts[s] + 1 BY SMTT(30), <1>0, <3>1 DEF callTool
      <4>2. pc'[s] \in {"snapshot", "ok", "err"} \/ (pc'[s] = "backoff" /\ triesLeft(s))
        BY <1>0, <3>1 DEF callTool, goto, toolFails
      <4>3. triesLeft(s) => attempts'[s] <= getRetryConfig(s)
        BY <1>0, <4>1 DEF triesLeft
      <4> QED BY <4>2, <4>3 DEF Before
    <3>2. CASE backoff(s)
      <4>1. pc[s] = "backoff" /\ attempts' = attempts BY Zenon, <3>2 DEF backoff
      <4>2. pc'[s] \in {"calling", "ok", "err"} BY <1>0, <3>2 DEF backoff, goto, toolFails
      <4> QED BY <4>1, <4>2 DEF TryInv, Before
    <3>3. CASE acquire(s)
      BY <1>0, <3>3 DEF acquire, goto, TryInv, Before
    <3>4. CASE start(s)
      <4>1. attempts' = attempts /\ pc[s] = "admitted" BY <3>4 DEF start
      <4>2. pc'[s] \in {"err", "condition", "prepare"} BY <1>0, <3>4 DEF start, goto
      <4> QED BY <4>1, <4>2 DEF TryInv, Before
    <3>5. CASE evaluateCondition(s)
      <4>1. attempts' = attempts /\ pc[s] = "condition" BY <3>5 DEF evaluateCondition
      <4>2. pc'[s] \in {"err", "ok", "prepare"} BY <1>0, <3>5 DEF evaluateCondition, goto, fail
      <4> QED BY <4>1, <4>2 DEF TryInv, Before
    <3>6. CASE executeStep(s)
      <4>1. attempts' = attempts /\ pc[s] = "prepare" BY <3>6 DEF executeStep
      <4>2. pc'[s] \in {"err", "calling", "asking", "iterating"}
        <5>1. def.type[s] \in StepTypes BY <1>0 DEF DefinitionType
        <5> QED BY <1>0, <3>6, <5>1 DEF executeStep, goto, fail, StepTypes
      <4>3. attempts[s] = 0 BY <4>1 DEF TryInv
      <4>4. 0 <= getRetryConfig(s) BY <1>0
      <4> QED BY <4>1, <4>2, <4>3, <4>4 DEF Before
    <3>7. CASE cancelledInQueue(s) \/ buildWorkflowStatus(s) \/ checkpointWorkflowState(s)
               \/ executeElicitationStep(s) \/ executeForEachStep(s) \/ return(s)
      <4>1. pc'[s] \in {"done", "saving", "ok", "err"}
        BY <1>0, <3>7 DEF cancelledInQueue, buildWorkflowStatus, checkpointWorkflowState,
           executeElicitationStep, executeForEachStep, return, goto, succeed, fail
      <4> QED BY Zenon, <4>1 DEF Before
    <3> QED BY <1>4, <3>1, <3>2, <3>3, <3>4, <3>5, <3>6, <3>7 DEF stepStep
  <2> QED BY <2>0, <2>1, <2>2 DEF TryInv, getRetryConfig
<1> QED BY <1>2, <1>3, <1>4 DEF Next, engineStep

(* A completed step stays completed: results are written only by a goroutine
   that has not ended its step.                                              *)
LEMMA CompletedGrows ==
  ASSUME IInv, Next
  PROVE  Completed \subseteq Completed'
<1> USE DEF IInv
<1>0. result \in [Steps -> {"none", "running", "completed", "failed", "skipped"}]
      /\ def.steps \subseteq Steps
  BY DEF TypeOK, PlanTypeOK, DefinitionType
<1>1. CASE UNCHANGED <<def, result>> BY <1>1, Zenon DEF Completed
<1>2. CASE ExecuteWorkflow \/ engineStep \/ contextEnds \/ storeStep
  BY Zenon, <1>1, <1>2 DEF ExecuteWorkflow, startPlan, engineStep, plan, buildLevel, planned, executeLevel,
       wait, dagEnds, contextEnds, storeStep, finish, planVars, stepVars
<1>3. ASSUME NEW s \in Steps, stepStep(s) PROVE Completed \subseteq Completed'
  <2>0. def' = def BY <1>3, StepFrame DEF planVars
  <2>1. result' = result \/ (pc[s] \in Before \cup Inside
                             /\ \E r : result' = [result EXCEPT ![s] = r])
    BY Zenon, <1>3 DEF stepStep, acquire, cancelledInQueue, start, evaluateCondition,
       executeStep, callTool, backoff, buildWorkflowStatus, checkpointWorkflowState,
       executeElicitationStep, executeForEachStep, return, record, succeed, fail, toolFails,
       Before, Inside
  <2>2. pc[s] \in Before \cup Inside => result[s] # "completed" BY DEF PcInv
  <2> QED BY <1>0, <2>0, <2>1, <2>2 DEF Completed
<1> QED BY <1>2, <1>3 DEF Next

(* Every copy of the completed steps that a checkpoint, the store or a
   cancellation holds is a subset of them.                                   *)
LEMMA StoreNext ==
  ASSUME IInv, Next
  PROVE  StoreInv'
<1> USE DEF IInv
<1>0. /\ stored.completed \subseteq Completed /\ loaded.completed \subseteq Completed
      /\ \A s \in Steps : snap[s] \subseteq Completed
  BY Zenon DEF StoreInv, RecordedIsTrue
<1>1. Completed \subseteq Completed' BY CompletedGrows
<1>2. ASSUME stored'.completed \subseteq Completed', loaded'.completed \subseteq Completed',
             \A s \in Steps : snap'[s] \subseteq Completed'
      PROVE  StoreInv'
  BY <1>2 DEF StoreInv, RecordedIsTrue
<1>3. CASE UNCHANGED <<stored, loaded, snap>>
  <2>1. stored'.completed \subseteq Completed' /\ loaded'.completed \subseteq Completed'
    BY <1>0, <1>1, <1>3, Zenon
  <2>2. \A s \in Steps : snap'[s] \subseteq Completed' BY <1>0, <1>1, <1>3, Zenon
  <2> QED BY <1>2, <2>1, <2>2
<1>4. CASE ExecuteWorkflow
  <2>1. stored'.completed = {} /\ UNCHANGED <<loaded, snap>>
    BY <1>4 DEF ExecuteWorkflow, SaveState, stepVars
  <2> QED BY <1>0, <1>1, <1>2, <2>1
<1>5. ASSUME NEW st \in {"completed", "failed", "timed_out"}, finish(st) PROVE StoreInv'
  <2>1. stored'.completed = Completed /\ UNCHANGED <<loaded, snap>>
    BY <1>5 DEF finish, SaveState, stepVars
  <2> QED BY <1>0, <1>1, <1>2, <2>1
<1>6. CASE storeStep
  <2>1. snap' = snap BY <1>6 DEF storeStep, stepVars
  <2>2. /\ stored'.completed \in {{}, stored.completed, loaded.completed}
        /\ loaded'.completed \in {{}, stored.completed, loaded.completed}
    BY <1>6 DEF storeStep, CancelWorkflowLoad, CancelWorkflowSave, cleanup, SaveState, NoState
  <2> QED BY <1>0, <1>1, <1>2, <2>1, <2>2
<1>7. CASE plan \/ planned \/ executeLevel \/ wait \/ dagEnds \/ contextEnds
  <2>1. UNCHANGED <<stored, loaded, snap>>
    BY <1>7, Zenon DEF plan, planned, executeLevel, wait, dagEnds, contextEnds, storeVars, stepVars
  <2> QED BY <1>3, <2>1, Zenon
<1>8. ASSUME NEW s \in Steps, stepStep(s) PROVE StoreInv'
  <2>1. CASE checkpointWorkflowState(s)
    <3>1. stored'.completed = snap[s] /\ UNCHANGED <<loaded, snap>>
      BY <2>1 DEF checkpointWorkflowState, SaveState
    <3> QED BY Zenon, <1>0, <1>1, <1>2, <3>1
  <2>2. CASE buildWorkflowStatus(s)
    <3>1. snap' = [snap EXCEPT ![s] = Completed] /\ UNCHANGED <<stored, loaded>>
      BY <2>2 DEF buildWorkflowStatus, quiet, storeVars
    <3>2. snap \in [Steps -> SUBSET Steps] BY DEF TypeOK
    <3>3. \A t \in Steps : snap'[t] = snap[t] \/ snap'[t] = Completed BY <3>1, <3>2
    <3>4. \A t \in Steps : snap'[t] \subseteq Completed' BY Zenon, <1>0, <1>1, <3>3
    <3> QED BY <1>0, <1>1, <1>2, <3>1, <3>4
  <2>3. CASE ~checkpointWorkflowState(s) /\ ~buildWorkflowStatus(s)
    BY <1>3, <1>8, <2>3 DEF stepStep, quiet, storeVars, acquire, cancelledInQueue, start,
       evaluateCondition, executeStep, callTool, backoff, executeElicitationStep,
       executeForEachStep, return
  <2> QED BY <2>1, <2>2, <2>3
<1> QED BY Zenon, <1>4, <1>5, <1>6, <1>7, <1>8 DEF Next, engineStep

(* The types: the counter of tries is the one that could leave its range. *)
LEMMA TypeNext ==
  ASSUME IInv, Next, slots' \in Nat
  PROVE  TypeOK'
<1> USE DEF IInv
<1>0. /\ PlanTypeOK /\ StoreTypeOK /\ def \in DefinitionType /\ def.steps \subseteq Steps
      /\ phase \in Phases /\ current \in Nat /\ slots \in Nat
      /\ groupFailed \in BOOLEAN /\ dagErr \in BOOLEAN
  BY DEF TypeOK, PlanTypeOK, DefinitionType
<1>1. CASE ExecuteWorkflow
  <2>1. PlanTypeOK' BY <1>0, <1>1 DEF ExecuteWorkflow, startPlan, PlanTypeOK, DefinitionType
  <2>2. StoreTypeOK' BY <1>0, <1>1 DEF ExecuteWorkflow, SaveState, StoreTypeOK, States
  <2> QED BY <1>1, <2>1, <2>2 DEF ExecuteWorkflow, stepVars, TypeOK, Phases
<1>2. CASE plan
  <2>1. PlanTypeOK' BY <1>0, <1>2 DEF plan, buildLevel, planVars, PlanTypeOK
  <2>2. StoreTypeOK' BY <1>0, <1>2 DEF plan, storeVars, StoreTypeOK
  <2>3. phase' \in Phases /\ dagErr' \in BOOLEAN BY Zenon, <1>0, <1>2 DEF plan, Phases
  <2> QED BY Zenon, <1>2, <2>1, <2>2, <2>3 DEF plan, stepVars, TypeOK
<1>3. CASE planned \/ executeLevel \/ wait \/ dagEnds
  <2>1. PlanTypeOK' BY Zenon, <1>0, <1>3 DEF planned, executeLevel, wait, dagEnds, planVars, PlanTypeOK
  <2>2. StoreTypeOK' BY <1>0, <1>3 DEF planned, executeLevel, wait, dagEnds, storeVars, StoreTypeOK
  <2>3. /\ phase' \in Phases /\ dagErr' \in BOOLEAN /\ groupFailed' \in BOOLEAN /\ current' \in Nat
    <3>1. CASE planned BY <1>0, <3>1 DEF planned, Phases
    <3>2. CASE executeLevel
      <4>1. /\ phase' = "joining" /\ dagErr' = dagErr /\ groupFailed' = FALSE
            /\ current' = current + 1
        BY <3>2 DEF executeLevel
      <4>2. phase' \in Phases BY <4>1 DEF Phases
      <4>3. current' \in Nat BY <1>0, <4>1
      <4>4. dagErr' \in BOOLEAN /\ groupFailed' \in BOOLEAN BY <1>0, <4>1, Zenon
      <4> QED BY Zenon, <4>2, <4>3, <4>4
    <3>3. CASE wait BY <1>0, <3>3 DEF wait, Phases
    <3>4. CASE dagEnds BY <1>0, <3>4 DEF dagEnds, Phases
    <3> QED BY <1>3, <3>1, <3>2, <3>3, <3>4
  <2>4. pc' \in [Steps -> Pcs]
    BY Zenon, <1>3 DEF planned, executeLevel, wait, dagEnds, stepVars, TypeOK, Pcs
  <2>5. UNCHANGED <<ctx, outcome, slots, result, attempts, snap>>
    BY Zenon, <1>3 DEF planned, executeLevel, wait, dagEnds, stepVars
  <2> QED BY Zenon, <2>1, <2>2, <2>3, <2>4, <2>5 DEF TypeOK
<1>4. ASSUME NEW st \in {"completed", "failed", "timed_out"}, finish(st) PROVE TypeOK'
  <2>1. PlanTypeOK' BY Zenon, <1>0, <1>4 DEF finish, planVars, PlanTypeOK
  <2>2. StoreTypeOK'
    BY Zenon, <1>0, <1>4 DEF finish, SaveState, StoreTypeOK, States, Terminal, Completed
  <2> QED BY Zenon, <1>4, <2>1, <2>2 DEF finish, stepVars, TypeOK, Phases
<1>5. CASE contextEnds
  <2>1. PlanTypeOK' /\ StoreTypeOK' BY Zenon, <1>0, <1>5 DEF contextEnds, planVars, storeVars, PlanTypeOK, StoreTypeOK
  <2> QED BY Zenon, <1>5, <2>1 DEF contextEnds, runVars, stepVars, TypeOK
<1>6. CASE storeStep
  <2>1. PlanTypeOK' BY Zenon, <1>0, <1>6 DEF storeStep, planVars, PlanTypeOK
  <2>2. StoreTypeOK'
    BY <1>0, <1>6 DEF storeStep, CancelWorkflowLoad, CancelWorkflowSave, cleanup, SaveState,
                      StoreTypeOK, States, Terminal, NoState
  <2> QED BY <1>6, <2>1, <2>2 DEF storeStep, runVars, stepVars, TypeOK
<1>7. ASSUME NEW s \in Steps, stepStep(s) PROVE TypeOK'
  <2>1. PlanTypeOK' /\ UNCHANGED <<phase, current, dagErr, outcome, ctx>>
    BY <1>0, <1>7, StepFrame DEF planVars, PlanTypeOK
  <2>2. StoreTypeOK'
    <3>1. CASE checkpointWorkflowState(s)
      <4>1. snap[s] \in SUBSET Steps BY DEF TypeOK
      <4> QED BY Zenon, <1>0, <3>1, <4>1 DEF checkpointWorkflowState, SaveState, StoreTypeOK, States
    <3>2. CASE ~checkpointWorkflowState(s)
      <4>1. UNCHANGED storeVars
        BY <1>7, <3>2 DEF stepStep, quiet, acquire, cancelledInQueue, start, evaluateCondition,
          executeStep, callTool, backoff, buildWorkflowStatus, executeElicitationStep,
          executeForEachStep, return
      <4> QED BY Zenon, <1>0, <4>1 DEF storeVars, StoreTypeOK
    <3> QED BY Zenon, <3>1, <3>2
  <2>4. attempts' \in [Steps -> 0..(MaxRetryCount + 1)]
    <3>0. attempts \in [Steps -> 0..(MaxRetryCount + 1)] BY DEF TypeOK
    <3>1. CASE callTool(s)
      <4>1. attempts[s] <= getRetryConfig(s) BY <3>1 DEF callTool, TryInv
      <4>2. def.retries[s] \in Nat BY <1>0 DEF DefinitionType
      <4>3. getRetryConfig(s) \in Nat /\ getRetryConfig(s) <= MaxRetryCount
        BY <4>2, WorkflowConstants DEF getRetryConfig
      <4>4. attempts[s] \in Nat /\ attempts[s] + 1 \in 0..(MaxRetryCount + 1)
        BY <3>0, <4>1, <4>3, WorkflowConstants
      <4> QED BY <3>0, <3>1, <4>4 DEF callTool
    <3>2. CASE ~callTool(s)
      BY Zenon, <3>0, <1>7, <3>2 DEF stepStep, acquire, cancelledInQueue, start, evaluateCondition,
          executeStep, backoff, buildWorkflowStatus, checkpointWorkflowState,
          executeElicitationStep, executeForEachStep, return
    <3> QED BY <3>1, <3>2
  <2>5. snap' \in [Steps -> SUBSET Steps]
    <3>1. Completed \in SUBSET Steps BY <1>0 DEF Completed
    <3> QED BY <1>7, <3>1 DEF TypeOK, stepStep, acquire, cancelledInQueue, start,
          evaluateCondition, executeStep, callTool, backoff, buildWorkflowStatus,
          checkpointWorkflowState, executeElicitationStep, executeForEachStep, return
  <2>6. groupFailed' \in BOOLEAN
    BY Zenon, <1>0, <1>7 DEF stepStep, acquire, cancelledInQueue, start,
          evaluateCondition, executeStep, callTool, backoff, buildWorkflowStatus,
          checkpointWorkflowState, executeElicitationStep, executeForEachStep, return, runVars
  <2>7. /\ pc' \in [Steps -> Pcs]
        /\ result' \in [Steps -> {"none", "running", "completed", "failed", "skipped"}]
    <3>1. PICK w \in Pcs : pc' = [pc EXCEPT ![s] = w]
      <4>1. def.type[s] \in StepTypes BY <1>0 DEF DefinitionType
      <4> QED BY <1>7, <4>1 DEF stepStep, acquire, cancelledInQueue, start,
          evaluateCondition, executeStep, callTool, backoff, buildWorkflowStatus,
          checkpointWorkflowState, executeElicitationStep, executeForEachStep, return,
          goto, succeed, fail, toolFails, Pcs, StepTypes
    <3>2. result' = result \/ \E r \in {"running", "completed", "failed", "skipped"} :
                                  result' = [result EXCEPT ![s] = r]
      BY <1>7 DEF stepStep, acquire, cancelledInQueue, start,
          evaluateCondition, executeStep, callTool, backoff, buildWorkflowStatus,
          checkpointWorkflowState, executeElicitationStep, executeForEachStep, return,
          record, succeed, fail, toolFails
    <3> QED BY Zenon, <3>1, <3>2 DEF TypeOK
  <2> QED BY Zenon, <2>1, <2>2, <2>4, <2>5, <2>6, <2>7 DEF TypeOK
<1> QED BY <1>1, <1>2, <1>3, <1>4, <1>5, <1>6, <1>7 DEF Next, engineStep

-----------------------------------------------------------------------------
(* What needs the cardinality of the running steps *)

INSTANCE FiniteSetTheorems

(* A slot is given back only by a step that has taken one. *)
LEMMA SlotsNext ==
  ASSUME IInv, Next
  PROVE  slots' \in Nat
<1> USE DEF IInv
<1>0. slots \in Nat BY DEF TypeOK
<1>1. CASE executeLevel BY Zenon, <1>0, <1>1 DEF executeLevel
<1>2. ASSUME NEW s \in Steps, stepStep(s) PROVE slots' \in Nat
  <2>1. CASE return(s)
    <3>1. s \in Running BY <2>1 DEF return, Running
    <3>2. IsFiniteSet(Running) BY WorkflowConstants, FS_Subset DEF Running
    <3>3. Cardinality(Running) # 0 BY Zenon, <3>1, <3>2, FS_EmptySet
    <3> QED BY <1>0, <2>1, <3>3 DEF return, SlotInv
  <2>2. CASE ~return(s)
    BY <1>0, <1>2, <2>2 DEF stepStep, acquire, cancelledInQueue, start, evaluateCondition,
        executeStep, callTool, backoff, buildWorkflowStatus, checkpointWorkflowState,
        executeElicitationStep, executeForEachStep
  <2> QED BY <2>1, <2>2
<1> QED BY Zenon, <1>0, <1>1, <1>2, EngineFrame DEF Next, engineStep, stepVars

(* The semaphore: a slot is taken on entering the running steps and given back
   on leaving them, on every path.                                           *)
LEMMA SlotNext ==
  ASSUME IInv, Next
  PROVE  SlotInv'
<1> USE DEF IInv
<1>0. slots \in Nat /\ MaxParallel \in Nat /\ pc \in [Steps -> Pcs] /\ IsFiniteSet(Running)
  BY WorkflowConstants, FS_Subset DEF TypeOK, Running
<1>1. CASE UNCHANGED slots /\ Running' = Running
  BY <1>1 DEF SlotInv
<1>2. CASE ExecuteWorkflow \/ plan \/ planned \/ wait \/ dagEnds \/ contextEnds \/ storeStep
           \/ \E st \in {"completed", "failed", "timed_out"} : finish(st)
  BY <1>1, <1>2, EngineFrame DEF stepVars, Running
<1>3. CASE executeLevel
  <2>1. \A s \in Steps : pc'[s] = pc[s] \/ (pc'[s] = "queued" /\ pc[s] = "idle")
    <3> SUFFICES ASSUME NEW s \in Steps PROVE pc'[s] = pc[s] \/ (pc'[s] = "queued" /\ pc[s] = "idle")
      OBVIOUS
    <3>1. level[s] = current + 1 => pc[s] = "idle"
      BY DEF PcInv, TypeOK, PlanTypeOK
    <3> QED BY <1>3, <3>1 DEF executeLevel
  <2>2. Running' = Running BY <2>1 DEF Running
  <2> QED BY <1>1, <1>3, <2>2 DEF executeLevel
<1>4. ASSUME NEW s \in Steps, stepStep(s) PROVE SlotInv'
  <2>1. CASE acquire(s)
    <3>1. Running' = Running \cup {s} /\ s \notin Running
      BY <1>0, <2>1 DEF acquire, goto, Running
    <3>2. Cardinality(Running') = Cardinality(Running) + 1
      BY Zenon, <1>0, <3>1, FS_AddElement
    <3> QED BY <1>0, <2>1, <3>2 DEF acquire, SlotInv
  <2>2. CASE return(s)
    <3>1. Running' = Running \ {s} /\ s \in Running
      BY <1>0, <2>2 DEF return, goto, Running
    <3>2. Cardinality(Running') = Cardinality(Running) - 1
      BY <1>0, <3>1, FS_RemoveElement
    <3> QED BY <1>0, <2>2, <3>2 DEF return, SlotInv
  <2>3. CASE cancelledInQueue(s)
    <3>1. Running' = Running BY <1>0, <2>3 DEF cancelledInQueue, goto, Running
    <3> QED BY <1>1, <2>3, <3>1 DEF cancelledInQueue
  <2>4. CASE ~acquire(s) /\ ~return(s) /\ ~cancelledInQueue(s)
    <3>1. slots' = slots /\ pc[s] \notin {"idle", "queued", "done"}
      BY <1>4, <2>4 DEF stepStep, start, evaluateCondition, executeStep, callTool, backoff,
         buildWorkflowStatus, checkpointWorkflowState, executeElicitationStep, executeForEachStep
    <3>2. PICK w \in Pcs \ {"idle", "queued", "done"} : pc' = [pc EXCEPT ![s] = w]
      <4>1. def.type[s] \in StepTypes BY DEF TypeOK, PlanTypeOK, DefinitionType
      <4> QED BY Zenon, <1>4, <2>4, <4>1 DEF stepStep, start, evaluateCondition, executeStep, callTool,
         backoff, buildWorkflowStatus, checkpointWorkflowState, executeElicitationStep,
         executeForEachStep, goto, succeed, fail, toolFails, Pcs, StepTypes
    <3>3. Running' = Running BY Zenon, <1>0, <3>1, <3>2 DEF Running
    <3> QED BY <1>1, <3>1, <3>3
  <2> QED BY <2>1, <2>2, <2>3, <2>4
<1> QED BY <1>2, <1>3, <1>4 DEF Next, engineStep

-----------------------------------------------------------------------------
(* The invariant *)

LEMMA InitIInv == Init => IInv
<1> SUFFICES ASSUME Init PROVE IInv OBVIOUS
<1> USE DEF Init, PlanInit, StoreInit, NoState
<1>0. def \in DefinitionType BY WorkflowConstants
<1>1. TypeOK
  <2>1. PlanTypeOK BY Zenon, <1>0 DEF PlanTypeOK
  <2>2. StoreTypeOK BY DEF StoreTypeOK, States
  <2>3. attempts \in [Steps -> 0..(MaxRetryCount + 1)] BY WorkflowConstants
  <2> QED BY Zenon, <2>1, <2>2, <2>3 DEF TypeOK, Phases, Pcs
<1>2. PlanInv BY <1>0 DEF PlanInv, DefinitionType
<1>3. RunInv BY DEF RunInv
<1>4. PcInv BY DEF PcInv, Before, Inside
<1>5. TryInv BY Zenon DEF TryInv, Before
<1>6. SlotInv
  <2>1. Running = {} BY Zenon DEF Running
  <2> QED BY <2>1, FS_EmptySet, WorkflowConstants DEF SlotInv
<1>7. StoreInv BY DEF StoreInv, RecordedIsTrue, Completed
<1> QED BY <1>1, <1>2, <1>3, <1>4, <1>5, <1>6, <1>7 DEF IInv

LEMMA NextIInv == IInv /\ [Next]_vars => IInv'
<1> SUFFICES ASSUME IInv, [Next]_vars PROVE IInv' OBVIOUS
<1>1. CASE Next
  BY <1>1, SlotsNext, TypeNext, PlanNext, RunNext, PcNext, TryNext, SlotNext, StoreNext DEF IInv
<1>2. CASE UNCHANGED vars
  <2> USE <1>2 DEF vars, planVars, storeVars, runVars, stepVars, IInv
  <2>1. TypeOK' BY Zenon DEF TypeOK, PlanTypeOK, StoreTypeOK
  <2>2. PlanInv' BY DEF PlanInv
  <2>3. RunInv' BY Zenon DEF RunInv
  <2>4. PcInv' BY Zenon DEF PcInv, Earned, shouldContinueOnError
  <2>5. TryInv' BY DEF TryInv, getRetryConfig
  <2>6. SlotInv' BY Zenon DEF SlotInv, Running
  <2>7. StoreInv' BY DEF StoreInv, RecordedIsTrue, Completed
  <2> QED BY Zenon, <2>1, <2>2, <2>3, <2>4, <2>5, <2>6, <2>7
<1> QED BY <1>1, <1>2

LEMMA Invariance == Spec => []IInv
BY InitIInv, NextIInv, PTL DEF Spec

-----------------------------------------------------------------------------
(* Theorems *)

(* Every variable keeps its type; in particular no step's tool is called more
   often than the cap on retries allows plus one, whatever its definition asks
   for (getRetryConfig, callToolWithRetry).                                  *)
THEOREM TypesHold == Spec => []TypeOK
BY Invariance, PTL DEF IInv

(* For every validated definition, of any size, buildExecutionLevels finds a
   level as long as steps are left: the error of a cycle at run time is dead
   code.                                                                     *)
THEOREM PlanAlwaysSucceeds == Spec => []PlanSucceeds
<1>1. IInv => PlanSucceeds
  <2>1. CASE phase = "planning" BY <2>1, SortProgresses DEF IInv
  <2>2. CASE phase # "planning" BY Zenon, <2>2 DEF PlanSucceeds
  <2> QED BY <2>1, <2>2
<1> QED BY <1>1, Invariance, PTL

(* A step runs only after its dependencies have ended, well or by tolerated
   failure, for every dependency graph and every failure mode (executeDAG,
   executeLevel).                                                            *)
THEOREM DependenciesAlwaysFirst == Spec => []DependenciesFirst
<1>1. IInv => DependenciesFirst
  <2> SUFFICES ASSUME IInv, NEW s \in def.steps, result[s] # "none", NEW x \in def.deps[s]
               PROVE  Earned(x)
    BY DEF DependenciesFirst
  <2>0. /\ level \in [Steps -> Nat] /\ current \in Nat /\ s \in Steps /\ x \in Steps
    BY Zenon DEF IInv, TypeOK, PlanTypeOK, DefinitionType
  <2>1. pc[s] # "idle" BY Zenon, <2>0 DEF IInv, PcInv, Before
  <2>2. level[s] # 0 /\ ~(level[s] > current) BY Zenon, <2>0, <2>1 DEF IInv, PcInv
  <2>3. level[x] # 0 /\ level[x] < level[s] BY <2>2 DEF IInv, PlanInv
  <2>4. level[x] < current BY <2>0, <2>2, <2>3
  <2> QED BY Zenon, <2>0, <2>3, <2>4 DEF IInv, PcInv
<1> QED BY <1>1, Invariance, PTL

(* Never more than MaxParallel steps run, for every width of a level and every
   order of cancellations and errors (the semaphore of executeLevel).        *)
THEOREM ParallelismIsBounded == Spec => []AtMostMaxParallel
<1>1. IInv => AtMostMaxParallel BY Zenon DEF IInv, SlotInv, AtMostMaxParallel
<1> QED BY <1>1, Invariance, PTL

(* A workflow is reported completed only if every step completed, was skipped
   or may fail (executeLevel, executeDAG, ExecuteWorkflow).                  *)
THEOREM CompletedIsAlwaysEarned == Spec => []CompletedIsEarned
<1>1. IInv => CompletedIsEarned
  <2> SUFFICES ASSUME IInv, outcome = "completed", NEW s \in def.steps PROVE Earned(s)
    BY DEF CompletedIsEarned
  <2>0. /\ level \in [Steps -> Nat] /\ current \in Nat /\ height \in Nat /\ s \in Steps
    BY DEF IInv, TypeOK, PlanTypeOK, DefinitionType
  <2>1. phase = "done" /\ current = height /\ ~groupFailed BY DEF IInv, RunInv
  <2>2. level[s] # 0 /\ level[s] <= height BY Zenon, <2>0, <2>1 DEF IInv, PlanInv
  <2>3. pc[s] = "done" BY <2>0, <2>1, <2>2 DEF IInv, PcInv
  <2>4. level[s] < current \/ level[s] = current BY <2>0, <2>1, <2>2
  <2> QED BY Zenon, <2>0, <2>1, <2>2, <2>3, <2>4 DEF IInv, PcInv
<1> QED BY <1>1, Invariance, PTL

(* The store never lists a step as completed that is not (checkpoints, the
   final save, CancelWorkflow's copy).                                       *)
THEOREM RecordedIsAlwaysTrue == Spec => []RecordedIsTrue
BY Invariance, PTL DEF IInv, StoreInv

(* After ExecuteWorkflow has returned no step of it runs, so no checkpoint can
   overwrite the final state: the store holds the returned status and all
   completed steps until a cancellation or the cleanup replaces it.          *)
THEOREM ReturnedIsAlwaysRecorded == Spec => []ReturnedIsRecorded
<1>1. Init => ReturnedIsRecorded BY DEF Init, ReturnedIsRecorded
<1>2. IInv /\ ReturnedIsRecorded /\ [Next]_vars => ReturnedIsRecorded'
  <2> SUFFICES ASSUME IInv, ReturnedIsRecorded, [Next]_vars, phase' = "done"
               PROVE  /\ Running' = {}
                      /\ \/ stored'.status \in {"none", "cancelled"}
                         \/ stored' = [status |-> outcome', completed |-> Completed']
    BY DEF ReturnedIsRecorded
  <2>1. ASSUME NEW st \in {"completed", "failed", "timed_out"}, finish(st)
        PROVE  /\ Running' = {}
               /\ stored' = [status |-> outcome', completed |-> Completed']
    <3>1. \A s \in Steps : pc[s] \in {"idle", "done"} BY <2>1 DEF finish, IInv, PcInv
    <3>2. Running' = {} BY Zenon, <2>1, <3>1 DEF finish, stepVars, Running
    <3>3. Completed' = Completed BY <2>1 DEF finish, stepVars, planVars, Completed
    <3>4. stored' = [status |-> outcome', completed |-> Completed]
      BY <2>1, Zenon DEF finish, SaveState
    <3> QED BY <3>2, <3>3, <3>4, Zenon
  <2>2. CASE storeStep
    <3>1. UNCHANGED <<phase, outcome, def, pc, result>>
      BY <2>2 DEF storeStep, runVars, stepVars, planVars
    <3>2. Running' = Running /\ Completed' = Completed BY <3>1 DEF Running, Completed
    <3>3. stored' = stored \/ stored'.status \in {"none", "cancelled"}
      BY <2>2 DEF storeStep, CancelWorkflowLoad, CancelWorkflowSave, cleanup, SaveState, NoState
    <3>4. phase = "done" BY <3>1
    <3> QED BY <3>1, <3>2, <3>3, <3>4 DEF ReturnedIsRecorded
  <2>3. ASSUME NEW s \in Steps, stepStep(s) PROVE FALSE
    <3>1. phase = "joining" BY <2>3, StepIsActive, ActiveIsCurrent
    <3>2. phase' = phase BY <2>3, StepFrame, Zenon
    <3> QED BY <3>1, <3>2
  <2>4. CASE ExecuteWorkflow \/ plan \/ planned \/ executeLevel \/ wait \/ dagEnds \/ contextEnds
    BY <2>4 DEF ExecuteWorkflow, plan, planned, executeLevel, wait, dagEnds, contextEnds, runVars
  <2>5. CASE UNCHANGED vars
    <3>1. UNCHANGED <<phase, outcome, def, pc, result, stored>>
      BY <2>5 DEF vars, runVars, stepVars, planVars, storeVars
    <3>2. Running' = Running /\ Completed' = Completed BY <3>1 DEF Running, Completed
    <3> QED BY <3>1, <3>2 DEF ReturnedIsRecorded
  <2> QED BY Zenon, <2>1, <2>2, <2>3, <2>4, <2>5 DEF Next, engineStep
<1> QED BY <1>1, <1>2, Invariance, PTL DEF Spec
=============================================================================
