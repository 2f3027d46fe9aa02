----------------------------- MODULE MCWorkflow -----------------------------
(* Instances of Workflow for TLC: the definitions the runs execute. *)
EXTENDS Workflow

CONSTANTS a, b, c, d

Graph(da, db, dc, dd) ==
  [s \in Steps |-> CASE s = a -> da [] s = b -> db [] s = c -> dc [] s = d -> dd]

(* A definition without conditions, retries or tolerated failures. *)
Plain(steps, deps) ==
  [steps |-> steps, deps |-> deps,
   type |-> [s \in Steps |-> "tool"], conditional |-> [s \in Steps |-> FALSE],
   onError |-> [s \in Steps |-> "abort"], retries |-> [s \in Steps |-> 0],
   failureMode |-> "abort"]

(* Every graph on three steps, cyclic ones included: validation keeps the
   acyclic ones.                                                             *)
EveryGraph ==
  {Plain({a, b, c}, Graph(da, db, dc, {})) : da, db, dc \in SUBSET {a, b, c}}

(* Two independent steps, one retried (beyond the cap) and one allowed to fail,
   then one that needs both.                                                 *)
Join ==
  [Plain({a, b, c}, Graph({}, {}, {a, b}, {})) EXCEPT
     !.onError = [@ EXCEPT ![a] = "retry", ![b] = "continue"],
     !.retries = [@ EXCEPT ![a] = 5], !.type = [@ EXCEPT ![c] = "elicitation"]]

(* One step, two that need it, one that needs those; a forEach step that
   collects failures, and a condition.                                       *)
Diamond ==
  [Plain({a, b, c, d}, Graph({}, {a}, {a}, {b, c})) EXCEPT
     !.onError = [@ EXCEPT ![c] = "continue"], !.type = [@ EXCEPT ![c] = "forEach"],
     !.conditional = [@ EXCEPT ![b] = TRUE]]

(* One step, then two that need it; every failure is tolerated. *)
Fork ==
  [Plain({a, b, c}, Graph({}, {a}, {a}, {})) EXCEPT
     !.failureMode = "continue", !.type = [@ EXCEPT ![b] = "forEach"]]

(* Four independent steps for two slots. *)
Wide ==
  [Plain(Steps, Graph({}, {}, {}, {})) EXCEPT !.type = [s \in Steps |-> "forEach"]]

AllDefinitions == EveryGraph \cup {Join, Diamond, Fork, Wide}
=============================================================================
