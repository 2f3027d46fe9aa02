---------------------------- MODULE ExecutionPlan ----------------------------
(* Composite tools, part 1: the definition of a workflow, its validation and
   its execution plan (pkg/vmcp/composer: validateDependencies of
   workflow_engine.go and buildExecutionLevels of dag_executor.go).

   A definition is validated when the server starts and executed later, once
   per call. The executor sorts the steps into levels, Kahn's algorithm one
   iteration of the outer loop at a time: a level is every step left whose
   dependencies are all in earlier levels.                                   *)
EXTENDS Naturals, FiniteSets

CONSTANTS Steps,         \* step IDs
          Definitions    \* the definitions the configuration may hold

VARIABLES def,           \* the definition being executed
          unmet,         \* step -> its dependencies not in a level yet
          level,         \* step -> number of its level, 0 before it has one
          height         \* number of levels built

planVars == <<def, unmet, level, height>>

StepTypes == {"tool", "elicitation", "forEach"}
OnError == {"abort", "continue", "retry"}

(* WorkflowDefinition and WorkflowStep; "conditional": the step has a condition. *)
DefinitionType ==
  [steps: SUBSET Steps, deps: [Steps -> SUBSET Steps],
   type: [Steps -> StepTypes], conditional: [Steps -> BOOLEAN],
   onError: [Steps -> OnError], retries: [Steps -> Nat],
   failureMode: {"abort", "continue", "best_effort"}]

(* The unmet dependencies stand for the in-degree: a dependency listed twice
   raises and lowers the counter twice.                                      *)
PlanTypeOK ==
  /\ def \in DefinitionType
  /\ unmet \in [Steps -> SUBSET Steps]
  /\ level \in [Steps -> Nat]
  /\ height \in Nat

(* A finite graph has a cycle exactly when some of its nodes all depend on one
   of themselves.                                                            *)
hasCycle(d) ==
  \E C \in SUBSET d.steps : C # {} /\ \A s \in C : d.deps[s] \cap C # {}

validateReferences(d) ==
  d.steps # {} /\ \A s \in d.steps : d.deps[s] \subseteq d.steps

ValidateWorkflow(d) == validateReferences(d) /\ ~hasCycle(d)

PlanInit ==
  /\ def \in {d \in Definitions : ValidateWorkflow(d)}
  /\ unmet = [s \in Steps |-> {}]
  /\ level = [s \in Steps |-> 0]
  /\ height = 0

(* The loop's tables at its first iteration. *)
startPlan ==
  /\ unmet' = def.deps
  /\ UNCHANGED <<def, level, height>>

processed == {s \in def.steps : level[s] # 0}

(* The steps of in-degree zero that no earlier level holds. *)
currentLevel == {s \in def.steps : level[s] = 0 /\ unmet[s] = {}}

(* One iteration. The in-degrees drop only after the level is complete, so two
   steps of one level never depend on each other.                            *)
buildLevel ==
  /\ currentLevel # {}
  /\ height' = height + 1
  /\ level' = [s \in Steps |-> IF s \in currentLevel THEN height + 1
                                                     ELSE level[s]]
  /\ unmet' = [s \in Steps |-> unmet[s] \ currentLevel]
  /\ UNCHANGED def
=============================================================================
