---------------------------- MODULE WorkflowStore ----------------------------
(* Composite tools, part 2: the entry of one execution in the in-memory state
   store (pkg/vmcp/composer/state_store.go) and the two clients of it that are
   not the execution itself: CancelWorkflow, which loads a copy, checks it and
   later saves it back, and the store's own cleanup.                          *)
EXTENDS ExecutionPlan

VARIABLES stored,        \* the entry under the execution's ID
          loaded         \* the copy CancelWorkflow holds between load and save

storeVars == <<stored, loaded>>

Terminal == {"completed", "failed", "cancelled", "timed_out"}
NoState == [status |-> "none", completed |-> {}]
States == [status: Terminal \cup {"none", "running"}, completed: SUBSET Steps]

StoreTypeOK == stored \in States /\ loaded \in States

StoreInit == stored = NoState /\ loaded = NoState

(* SaveState replaces the entry, whatever it says. *)
SaveState(status, completed) ==
  stored' = [status |-> status, completed |-> completed]

(* LoadState and the check that the execution may still be cancelled. *)
CancelWorkflowLoad ==
  /\ stored.status # "none" /\ stored.status \notin Terminal
  /\ loaded = NoState
  /\ loaded' = stored
  /\ UNCHANGED stored

CancelWorkflowSave ==
  /\ loaded # NoState
  /\ SaveState("cancelled", loaded.completed)
  /\ loaded' = NoState

(* Terminal entries leave when they are older than maxAge. *)
cleanup ==
  /\ stored.status \in Terminal
  /\ stored' = NoState
  /\ UNCHANGED loaded
=============================================================================
