---------------------------- MODULE ListChanged ----------------------------
(***************************************************************************)
(* The propagation of a backend's list_changed notifications to a session  *)
(* that is already initialized (pkg/vmcp/server/serve_list_changed.go):    *)
(* the coalescing worker of each capability kind, the capability cache it  *)
(* purges (pkg/vmcp/aggregator/caching_aggregator.go), the registration    *)
(* that installs the first lists, and live requests of the same caller,    *)
(* which read and fill the same cache entry.                               *)
(*                                                                         *)
(* What a backend offers of a kind is abstracted to a version, whose one   *)
(* item is the version itself: a list that merges two versions of a        *)
(* backend holds two items of it, a list that replaces one by the other    *)
(* holds one. Version 1 is what a backend offers when the session opens    *)
(* its connections, version 0 what it offered before.                      *)
(***************************************************************************)
EXTENDS Integers, FiniteSets, Sequences

CONSTANTS Registry,        \* the registered backends
          Kinds,           \* the ChangeKinds
          ListsOf,         \* ListsOf[k], the lists a resync of kind k replaces
          Derived,         \* the lists in the order registration derives them
          Installed,       \* the lists in the order registration installs them
          Goroutines,      \* names for goroutines that execute loop
          Requests,        \* live requests of the same caller
          Registration,    \* the registration of the session, as a caller
          Bounds,          \* bounds: what may happen in a behaviour
          MaxChanges,      \* the most changes of a backend that Bounds allow
          Caching          \* whether the aggregator memoizes (ttl > 0)

Lists == {Installed[i] : i \in DOMAIN Installed}
KindOf(l) == CHOOSE k \in Kinds : \E i \in DOMAIN ListsOf[k] : ListsOf[k][i] = l
Callers == Goroutines \cup Requests \cup {Registration}

\* A bound says how often each backend changes, which requests there are, which
\* backends the session is connected to, which sets of backends the health filter
\* may let through, whether a backend may fail to answer, whether the caller has
\* used the cache before (in another session), whether notifications may arrive
\* during registration, and whether the session may end.
Bound == [changes : [Registry -> 0 .. MaxChanges], requests : SUBSET Requests,
          connected : SUBSET Registry, healthy : SUBSET SUBSET Registry,
          fails : BOOLEAN, warm : BOOLEAN, early : BOOLEAN, ends : BOOLEAN]

ASSUME ListChangedAssumption ==
  /\ MaxChanges \in Nat
  /\ Bounds \subseteq Bound
  /\ Caching \in BOOLEAN
  /\ Registration \notin Goroutines \cup Requests
  /\ Goroutines \cap Requests = {}

\* Every list is derived and installed by the registration, and belongs to one
\* kind, whose resync replaces it.
ASSUME ListsAssumption ==
  /\ Installed \in Seq(Lists) /\ Installed # << >>
  /\ Derived \in Seq(Lists) /\ \A l \in Lists : \E i \in DOMAIN Derived : Derived[i] = l
  /\ DOMAIN ListsOf = Kinds
  /\ \A k \in Kinds : ListsOf[k] \in Seq(Lists) /\ ListsOf[k] # << >>
  /\ \A l \in Lists : \E k \in Kinds : \E i \in DOMAIN ListsOf[k] : ListsOf[k][i] = l
  /\ \A j, k \in Kinds : \A h \in DOMAIN ListsOf[j], i \in DOMAIN ListsOf[k] :
       ListsOf[j][h] = ListsOf[k][i] => j = k

VARIABLES bound,      \* the bound of this behaviour, one of Bounds
          backend,    \* the version of each kind at each backend
          notified,   \* the notifications of each kind on their way
          running,    \* listChangedResyncWorker.running of each kind
          dirty,      \* listChangedResyncWorker.dirty of each kind
          routine,    \* the goroutines that execute loop
          cache,      \* this caller's memoized view of each set of backends
          call,       \* the AggregateCapabilities call of each caller
          register,   \* injectCoreSessionCapabilities
          overlay,    \* the per-session store of each list
          alive,      \* whether GetMultiSession still finds the session
          owed,       \* history: kinds triggered since their last run began
          begun,      \* history: the versions when the last run of a kind began,
                      \* or when the session connected
          spoilt      \* history: backends the last run of a kind has missed

vars == <<bound, backend, notified, running, dirty, routine, cache, call, register,
          overlay, alive, owed, begun, spoilt>>

Version == 0 .. MaxChanges + 1
\* A view has the backends that were asked and answered.
View == UNION {[answered -> [Kinds -> Version]] : answered \in SUBSET Registry}
NoView == [b \in {} |-> {}]
NoCall == [pc |-> "none", view |-> NoView]
Asked == [pc |-> "get", view |-> NoView]
Idle == [pc |-> "idle", kind |-> "none", todo |-> << >>]

\* A list has the items of some versions of each backend.
NoItems == [b \in Registry |-> {}]
Items(view, k) == [b \in Registry |-> IF b \in DOMAIN view THEN {view[b][k]} ELSE {}]

ColdCache == [asked \in SUBSET Registry |-> NoView]

\* What the caller's other sessions may have left in the cache: views as old as
\* the session's connections, or older, without the backends that failed then.
WarmCaches ==
  {c \in [SUBSET Registry -> UNION {[S -> [Kinds -> {0, 1}]] : S \in SUBSET Registry}] :
     \A asked \in SUBSET Registry :
       DOMAIN c[asked] \subseteq (IF asked \in bound.healthy THEN asked ELSE {})}

\* A request of another session may be sweeping since before this one connected.
SweepingSince == {[pc |-> "sweep", view |-> [b \in asked |-> [k \in Kinds |-> 0]]] :
                    asked \in bound.healthy}

\* CreateSession has returned: the session is connected and can be found, and
\* its registration asks for the first list.
Init ==
  /\ bound \in Bounds
  /\ backend = [b \in Registry |-> [k \in Kinds |-> 1]]
  /\ notified = [k \in Kinds |-> 0]
  /\ running = [k \in Kinds |-> FALSE]
  /\ dirty = [k \in Kinds |-> FALSE]
  /\ routine = [g \in Goroutines |-> Idle]
  /\ cache \in IF Caching /\ bound.warm THEN WarmCaches ELSE {ColdCache}
  /\ \E others \in [bound.requests -> {NoCall} \cup IF bound.warm THEN SweepingSince ELSE {}] :
       call = [c \in Callers |-> IF c = Registration THEN Asked
                                 ELSE IF c \in bound.requests THEN others[c] ELSE NoCall]
  /\ register = [pc |-> "list", todo |-> Derived, got |-> << >>, existing |-> NoItems]
  /\ overlay = [l \in Lists |-> NoItems]
  /\ alive = TRUE
  /\ owed = [k \in Kinds |-> FALSE]
  /\ begun = [k \in Kinds |-> [b \in Registry |-> 1]]
  /\ spoilt = [k \in Kinds |-> {}]

-----------------------------------------------------------------------------
(* cachingAggregator: a call is "get" until it has looked into the cache,  *)
(* "sweep" while it queries the backends (view is then what they offered   *)
(* when the sweep began), and "ok" or "error" when it has returned.        *)

CallIs(c, pc, view) == call' = [call EXCEPT ![c] = [pc |-> pc, view |-> view]]

cached(asked) == Caching /\ cache[asked] # NoView

\* The health filter has let the backends in asked through.
GetHits(c) ==
  /\ call[c].pc = "get"
  /\ \E asked \in bound.healthy : cached(asked) /\ CallIs(c, "ok", cache[asked])
  /\ UNCHANGED <<cache, spoilt>>

GetMisses(c) ==
  /\ call[c].pc = "get"
  /\ \E asked \in bound.healthy :
       ~cached(asked) /\ CallIs(c, "sweep", [b \in asked |-> backend[b]])
  /\ UNCHANGED <<cache, spoilt>>

\* A view without b, or with what b offered before the last run of k began.
Predates(view, b, k) == b \notin DOMAIN view \/ view[b][k] < begun[k][b]

\* The run of kind k misses b when its own sweep is without b, and may miss it
\* when another caller caches a view that is without b or older than the run.
Misses(c, view, k) ==
  {b \in Registry : IF c \in Goroutines /\ routine[c].kind = k
                    THEN b \notin DOMAIN view
                    ELSE Caching /\ Predates(view, b, k)}

\* Mutant of Answered: a sweep that no backend has answered is a success.
AnsweredByNone(asked) == IF bound.fails THEN SUBSET asked ELSE {asked}

\* QueryAllCapabilities leaves a backend out that fails, as long as one answers.
Answered(asked) == (IF bound.fails THEN SUBSET asked ELSE {asked}) \ {{}}

\* Each kind of a backend is queried at some moment of the sweep.
SweepReturns(c) ==
  LET asked == DOMAIN call[c].view IN
  /\ call[c].pc = "sweep"
  /\ \E answered \in Answered(asked) : \E view \in [answered -> [Kinds -> Version]] :
       /\ \A b \in answered, k \in Kinds :
            call[c].view[b][k] <= view[b][k] /\ view[b][k] <= backend[b][k]
       /\ CallIs(c, "ok", view)
       /\ cache' = IF Caching THEN [cache EXCEPT ![asked] = view] ELSE cache
       /\ spoilt' = [k \in Kinds |-> spoilt[k] \cup Misses(c, view, k)]

\* No backend was asked, none has answered, or the answers cannot be merged.
SweepFails(c) ==
  /\ call[c].pc = "sweep"
  /\ bound.fails \/ DOMAIN call[c].view = {}
  /\ CallIs(c, "error", NoView)
  /\ UNCHANGED <<cache, spoilt>>

AggregateCapabilities(c) ==
  /\ GetHits(c) \/ GetMisses(c) \/ SweepReturns(c) \/ SweepFails(c)
  /\ UNCHANGED <<bound, backend, notified, running, dirty, routine, register,
                 overlay, alive, owed, begun>>

InvalidateAll == cache' = ColdCache

\* Mutant of EntryExpires: the age of an entry is not looked at.
EntryNeverExpires(asked) == asked = {} /\ cached(asked) /\ UNCHANGED vars

\* The ttl of the entry has passed, or the LRU has evicted it.
EntryExpires(asked) ==
  /\ cached(asked)
  /\ cache' = [cache EXCEPT ![asked] = NoView]
  /\ UNCHANGED <<bound, backend, notified, running, dirty, routine, call, register,
                 overlay, alive, owed, begun, spoilt>>
-----------------------------------------------------------------------------
(* The backend, the sink and the workers                                   *)

BackendChanges(b, k) ==
  /\ backend[b][k] <= bound.changes[b]
  /\ backend' = [backend EXCEPT ![b][k] = @ + 1]
  /\ notified' = IF b \in bound.connected THEN [notified EXCEPT ![k] = @ + 1] ELSE notified
  /\ UNCHANGED <<bound, running, dirty, routine, cache, call, register, overlay,
                 alive, owed, begun, spoilt>>

RoutineIs(g, pc, kind, todo) ==
  routine' = [routine EXCEPT ![g] = [pc |-> pc, kind |-> kind, todo |-> todo]]

\* Any goroutine that does not work yet will do: their names mean nothing.
Starts(k) ==
  LET g == CHOOSE g \in Goroutines : routine[g].pc = "idle" IN
    /\ \E h \in Goroutines : routine[h].pc = "idle"
    /\ RoutineIs(g, "run", k, << >>)
    /\ running' = [running EXCEPT ![k] = TRUE]
    /\ UNCHANGED dirty

Delivered(k) ==
  /\ notified[k] > 0
  /\ bound.early \/ register.pc \in {"done", "failed"}
  /\ notified' = [notified EXCEPT ![k] = @ - 1]
  /\ owed' = [owed EXCEPT ![k] = TRUE]
  /\ UNCHANGED <<bound, backend, cache, call, register, overlay, alive, begun, spoilt>>

\* Mutant of trigger: a notification that arrives during a run is dropped.
triggerDrops(k) ==
  /\ Delivered(k)
  /\ IF running[k] THEN UNCHANGED <<running, dirty, routine>> ELSE Starts(k)

\* The sink hands the notification to the worker of its kind.
trigger(k) ==
  /\ Delivered(k)
  /\ IF running[k]
     THEN dirty' = [dirty EXCEPT ![k] = TRUE] /\ UNCHANGED <<running, routine>>
     ELSE Starts(k)

\* Mutant of runListChangedResync: the cache is not purged.
runListChangedResyncKeeps(g) ==
  LET k == routine[g].kind IN
  /\ routine[g].pc = "run"
  /\ owed' = [owed EXCEPT ![k] = FALSE]
  /\ begun' = [begun EXCEPT ![k] = [b \in Registry |-> backend[b][k]]]
  /\ spoilt' = [spoilt EXCEPT ![k] = {}]
  /\ IF alive
     THEN RoutineIs(g, "list", k, ListsOf[k]) /\ CallIs(g, "get", NoView) /\ UNCHANGED cache
     ELSE RoutineIs(g, "ran", k, << >>) /\ UNCHANGED <<cache, call>>
  /\ UNCHANGED <<bound, backend, notified, running, dirty, register, overlay, alive>>

\* The liveness guard, then the purge, then the first list is asked for.
runListChangedResync(g) ==
  LET k == routine[g].kind IN
  /\ routine[g].pc = "run"
  /\ owed' = [owed EXCEPT ![k] = FALSE]
  /\ begun' = [begun EXCEPT ![k] = [b \in Registry |-> backend[b][k]]]
  /\ spoilt' = [spoilt EXCEPT ![k] = {}]
  /\ IF alive
     THEN RoutineIs(g, "list", k, ListsOf[k]) /\ CallIs(g, "get", NoView) /\ InvalidateAll
     ELSE RoutineIs(g, "ran", k, << >>) /\ UNCHANGED <<cache, call>>
  /\ UNCHANGED <<bound, backend, notified, running, dirty, register, overlay, alive>>

\* Mutant of Replace: only the first list of the kind is derived again.
ReplaceFirst(g) ==
  LET l == Head(routine[g].todo)
      k == routine[g].kind IN
  /\ overlay' = [overlay EXCEPT ![l] = Items(call[g].view, k)]
  /\ RoutineIs(g, "ran", k, << >>)
  /\ CallIs(g, "none", NoView)

\* A list has been derived: it replaces the session's store of that list, and
\* the next list of the kind is asked for.
Replace(g) ==
  LET l == Head(routine[g].todo)
      rest == Tail(routine[g].todo)
      k == routine[g].kind IN
  /\ overlay' = [overlay EXCEPT ![l] = Items(call[g].view, k)]
  /\ IF rest = << >>
     THEN RoutineIs(g, "ran", k, << >>) /\ CallIs(g, "none", NoView)
     ELSE RoutineIs(g, "list", k, rest) /\ CallIs(g, "get", NoView)

\* resyncSessionTools, resyncSessionResources, resyncSessionPrompts: an error
\* ends the run, with a warning in the log and no retry.
resyncSession(g) ==
  /\ routine[g].pc = "list"
  /\ \/ call[g].pc = "ok" /\ Replace(g) /\ UNCHANGED spoilt
     \/ /\ call[g].pc = "error"
        /\ RoutineIs(g, "ran", routine[g].kind, << >>)
        /\ CallIs(g, "none", NoView)
        /\ spoilt' = [spoilt EXCEPT ![routine[g].kind] = Registry]
        /\ UNCHANGED overlay
  /\ UNCHANGED <<bound, backend, notified, running, dirty, cache, register, alive, owed, begun>>

\* The end of a run: the goroutine exits, unless a notification has arrived.
loop(g) ==
  LET k == routine[g].kind IN
  /\ routine[g].pc = "ran"
  /\ IF dirty[k]
     THEN /\ dirty' = [dirty EXCEPT ![k] = FALSE]
          /\ RoutineIs(g, "run", k, << >>)
          /\ UNCHANGED running
     ELSE /\ running' = [running EXCEPT ![k] = FALSE]
          /\ routine' = [routine EXCEPT ![g] = Idle]
          /\ UNCHANGED dirty
  /\ UNCHANGED <<bound, backend, notified, cache, call, register, overlay, alive,
                 owed, begun, spoilt>>

-----------------------------------------------------------------------------
(* injectCoreSessionCapabilities                                           *)

\* The list at the head of todo has been derived; after the last one the
\* installation begins.
ListDerived ==
  LET rest == Tail(register.todo)
      got == Append(register.got, call[Registration].view) IN
  /\ register.pc = "list"
  /\ call[Registration].pc = "ok"
  /\ IF rest = << >>
     THEN /\ register' = [register EXCEPT !.pc = "existing", !.todo = Installed, !.got = got]
          /\ CallIs(Registration, "none", NoView)
     ELSE /\ register' = [register EXCEPT !.todo = rest, !.got = got]
          /\ CallIs(Registration, "get", NoView)
  /\ UNCHANGED <<bound, backend, notified, running, dirty, routine, cache,
                 overlay, alive, owed, begun, spoilt>>

\* An error makes handleSessionRegistrationImpl terminate the session.
ListNotDerived ==
  /\ register.pc = "list"
  /\ call[Registration].pc = "error"
  /\ register' = [register EXCEPT !.pc = "failed", !.todo = << >>]
  /\ CallIs(Registration, "none", NoView)
  /\ alive' = FALSE
  /\ UNCHANGED <<bound, backend, notified, running, dirty, routine, cache,
                 overlay, owed, begun, spoilt>>

\* setSessionToolsDirect and its siblings read the store ...
ExistingRead ==
  /\ register.pc = "existing"
  /\ register' = [register EXCEPT !.pc = "set", !.existing = overlay[Head(register.todo)]]
  /\ UNCHANGED <<bound, backend, notified, running, dirty, routine, cache, call,
                 overlay, alive, owed, begun, spoilt>>

GotOf(l) ==
  Items(register.got[CHOOSE i \in DOMAIN Derived : Derived[i] = l], KindOf(l))

\* The items of b are of one version, no older than the last run of k.
Settled(items, b, k) == \E v \in Version : items[b] = {v} /\ begun[k][b] <= v

\* ... and write it back merged with the derived list.
MergedSet ==
  LET l == Head(register.todo)
      rest == Tail(register.todo)
      k == KindOf(l)
      merged == [b \in Registry |-> register.existing[b] \cup GotOf(l)[b]] IN
  /\ register.pc = "set"
  /\ overlay' = [overlay EXCEPT ![l] = merged]
  /\ spoilt' = [spoilt EXCEPT ![k] = @ \cup {b \in Registry : ~Settled(merged, b, k)}]
  /\ register' = [register EXCEPT !.pc = IF rest = << >> THEN "done" ELSE "existing",
                                  !.todo = rest, !.existing = NoItems,
                                  !.got = IF rest = << >> THEN << >> ELSE @]
  /\ UNCHANGED <<bound, backend, notified, running, dirty, routine, cache, call,
                 alive, owed, begun>>

injectCoreSessionCapabilities == ListDerived \/ ListNotDerived \/ ExistingRead \/ MergedSet

-----------------------------------------------------------------------------
(* Live requests, and the end of the session                               *)

RequestStarts(r) ==
  /\ r \in bound.requests
  /\ call[r].pc = "none"
  /\ CallIs(r, "get", NoView)
  /\ UNCHANGED <<bound, backend, notified, running, dirty, routine, cache, register,
                 overlay, alive, owed, begun, spoilt>>

RequestEnds(r) ==
  /\ call[r].pc \in {"ok", "error"}
  /\ CallIs(r, "none", NoView)
  /\ UNCHANGED <<bound, backend, notified, running, dirty, routine, cache, register,
                 overlay, alive, owed, begun, spoilt>>

Terminate ==
  /\ alive /\ bound.ends
  /\ alive' = FALSE
  /\ UNCHANGED <<bound, backend, notified, running, dirty, routine, cache, call, register,
                 overlay, owed, begun, spoilt>>

-----------------------------------------------------------------------------

Worker(g) == runListChangedResync(g) \/ resyncSession(g) \/ loop(g)

Next ==
  \/ \E c \in Callers : AggregateCapabilities(c)
  \/ \E asked \in SUBSET Registry : EntryExpires(asked)
  \/ \E b \in Registry, k \in Kinds : BackendChanges(b, k)
  \/ \E k \in Kinds : trigger(k)
  \/ \E g \in Goroutines : Worker(g)
  \/ injectCoreSessionCapabilities
  \/ \E r \in Requests : RequestStarts(r) \/ RequestEnds(r)
  \/ Terminate

Spec == Init /\ [][Next]_vars

\* Goroutines are scheduled, calls of the backends return or time out,
\* notifications of a live connection arrive, and a ttl passes. Nothing obliges
\* the backend to change, a client to call, or the session to end.
Fairness ==
  /\ \A c \in Callers : WF_vars(AggregateCapabilities(c))
  /\ \A k \in Kinds : WF_vars(trigger(k))
  /\ \A g \in Goroutines : WF_vars(Worker(g))
  /\ WF_vars(injectCoreSessionCapabilities)
  /\ \A r \in Requests : WF_vars(RequestEnds(r))
  /\ \A asked \in SUBSET Registry : WF_vars(EntryExpires(asked))

FairSpec == Spec /\ Fairness

-----------------------------------------------------------------------------
(* Properties                                                              *)

\* What the variables hold. In particular a call that has returned a view, like
\* the cache, has it from at least one backend: AggregateCapabilities makes an
\* error, not an empty view, of a sweep that nobody answered.
TypeOK ==
  /\ bound \in Bounds
  /\ backend \in [Registry -> [Kinds -> Version]]
  /\ notified \in [Kinds -> Nat]
  /\ running \in [Kinds -> BOOLEAN]
  /\ dirty \in [Kinds -> BOOLEAN]
  /\ \A g \in Goroutines :
       /\ routine[g].pc \in {"idle", "run", "list", "ran"}
       /\ routine[g].pc # "idle" => routine[g].kind \in Kinds
  /\ cache \in [SUBSET Registry -> View]
  /\ \A c \in Callers :
       /\ call[c].pc \in {"none", "get", "sweep", "ok", "error"}
       /\ call[c].view \in View
       /\ call[c].pc = "ok" => DOMAIN call[c].view # {}
  /\ register.pc \in {"list", "existing", "set", "done", "failed"}
  /\ overlay \in [Lists -> [Registry -> SUBSET Version]]
  /\ alive \in BOOLEAN
  /\ owed \in [Kinds -> BOOLEAN]
  /\ begun \in [Kinds -> [Registry -> Version]]
  /\ spoilt \in [Kinds -> SUBSET Registry]

\* serve_list_changed.go promises at most one resync in flight per (session,
\* kind), however notifications, the end of a run and the restart of the loop
\* interleave: two goroutines never work for the same kind.
AtMostOneRun ==
  \A g, h \in Goroutines :
    (routine[g].pc # "idle" /\ routine[h].pc # "idle" /\ routine[g].kind = routine[h].kind)
      => g = h

\* A notification is never lost between the dirty flag and the exit of the
\* loop: as long as no run has begun since trigger took it, a goroutine of its
\* kind is about to begin one, or works and will find dirty set.
NoLostNotification ==
  \A k \in Kinds : owed[k] =>
    \E g \in Goroutines :
      routine[g].kind = k /\ (routine[g].pc = "run" \/ (routine[g].pc # "idle" /\ dirty[k]))

Quiet(k) == notified[k] = 0 /\ ~running[k]

\* What the last run of kind k may have missed of b since it began (or the
\* registration, before the first run):
\*  - one of its sweeps failed, and runListChangedResync only logs that;
\*  - one of its sweeps came back without b, which failed to answer or was left
\*    out by the health filter, and that is a success;
\*  - another caller's sweep, without b or begun before the run, was cached;
\*  - the registration wrote a list without b, or of items older than the run or
\*    than the session's connections.
\* No later event of the session repairs any of these, only the next
\* notification of the kind.
Missed(l, b) == b \in spoilt[KindOf(l)]

\* Once the registration has installed the lists, and no notification of a kind
\* is on its way or being worked on, the session's store of every list of the
\* kind has exactly what a backend it is connected to offers, nothing of an
\* older version besides, unless the last run has missed that backend. So no
\* notification that comes during a run, no coalescing and no order of the lists
\* leaves a store stale or half replaced, and a backend that fails costs no
\* other backend's items. The stores are those of SetSessionTools and its
\* siblings: what the SDK lists from them is not modelled, and of resources,
\* templates and prompts it goes on listing removed ones
\* (serve_list_changed.go:28).
QuietMeansCurrent ==
  \A l \in Lists, b \in bound.connected :
    (alive /\ register.pc = "done" /\ Quiet(KindOf(l)) /\ ~Missed(l, b))
      => overlay[l][b] = {backend[b][KindOf(l)]}

\* In a session that lives on, the store of every list comes to hold the last
\* version of every backend it is connected to, and of no older one, unless the
\* last run of the kind has missed the backend (runListChangedResync and its
\* coalescing worker).
UnmissedChangesArrive ==
  \A l \in Lists, b \in Registry :
    <>[](alive /\ b \in bound.connected
           => Missed(l, b) \/ overlay[l][b] = {backend[b][KindOf(l)]})

\* The promise of serve_list_changed.go, that a client that already initialized
\* eventually sees the backend's change reflected: in a session that lives on,
\* the store of every list comes to hold the last version of every backend.
ChangesReachTheClient ==
  \A l \in Lists, b \in Registry :
    <>[](alive => backend[b][KindOf(l)] \in overlay[l][b])

\* Whatever sweeps race with a purge, a stale answer of a backend does not stay
\* in the cache for good: once the backends have stopped changing, live requests
\* come to be answered from the last version of each backend in the view. (A
\* view may go without a backend for as long as it fails.)
CacheCatchesUp ==
  <>[](\A asked \in SUBSET Registry : cached(asked) =>
         \A b \in DOMAIN cache[asked] : cache[asked][b] = backend[b])
=============================================================================
