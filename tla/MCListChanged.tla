--------------------------- MODULE MCListChanged ---------------------------
(* Instances of ListChanged for TLC.                                       *)
EXTENDS ListChanged

MCOneKind == {"resources"}
MCTools == {"tools"}

\* KindResources covers the resources and the resource templates.
MCListsOf == [k \in Kinds |-> IF k = "resources" THEN <<"resources", "templates">> ELSE <<k>>]

MCOneDerived == <<"resources", "templates">>
MCOneInstalled == <<"resources", "templates">>
MCToolsOnly == <<"tools">>

MCOneBackend == {"a"}
MCTwoBackends == {"a", "b"}

\* n changes of backend a, and some requests, of a caller's first session with
\* backends that all answer.
MCFirst(n, requests) ==
  [changes |-> [b \in Registry |-> IF b = "a" THEN n ELSE 0], requests |-> requests,
   connected |-> Registry, healthy |-> {Registry},
   fails |-> FALSE, warm |-> FALSE, early |-> FALSE, ends |-> FALSE]

MCOneChange == {MCFirst(1, Requests)}

MCBounds ==
  { \* Two changes, which may be notified during registration, and the end.
    [MCFirst(2, {}) EXCEPT !.early = TRUE, !.ends = TRUE],
    \* Both backends change.
    [MCFirst(1, {}) EXCEPT !.changes = [b \in Registry |-> 1], !.early = TRUE],
    \* Backends that fail to answer some sweeps.
    [MCFirst(1, {}) EXCEPT !.fails = TRUE, !.early = TRUE],
    [MCFirst(1, Requests) EXCEPT !.fails = TRUE],
    \* A request during registration and resync.
    [MCFirst(1, Requests) EXCEPT !.early = TRUE],
    \* A caller with other sessions: views and sweeps from before this one.
    [MCFirst(1, Requests) EXCEPT !.warm = TRUE],
    \* A backend that changes without a connection, and health that comes and goes.
    [MCFirst(1, {}) EXCEPT !.changes = [b \in Registry |-> 1], !.connected = {"a"},
                           !.healthy = {{}, {"a"}, Registry}, !.warm = TRUE] }
=============================================================================
