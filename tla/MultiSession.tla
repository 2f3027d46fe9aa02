---------------------------- MODULE MultiSession ----------------------------
(***************************************************************************)
(* The backend connections of one live session: requests enter through the *)
(* admission queue (pkg/vmcp/session/admission.go), are routed to a        *)
(* backend and call it; Close drains the queue and closes the connections  *)
(* (pkg/vmcp/session/default_session.go).                                  *)
(*                                                                         *)
(* The wait group is the set of requests that have called Add and not yet  *)
(* Done. A reader of the RWMutex is a request in "locked" or "checked"; a  *)
(* closer that waits for the write lock keeps new readers out, as in Go.   *)
(***************************************************************************)
EXTENDS Naturals

CONSTANTS Calls,     \* concurrent calls of CallTool, ReadResource, GetPrompt
          Closers,   \* concurrent calls of Close
          Backends   \* the connections of the session

ASSUME NoBackendAssumption == "none" \notin Backends

VARIABLES request,  \* the state of each call
          closer,   \* the state of each Close
          closed,   \* admissionQueue.closed
          wg,       \* admissionQueue.wg
          open      \* the connections not yet closed

queueVars == <<request, closer, closed, wg, open>>

NoRequest == [pc |-> "idle", conn |-> "none"]

QueueInit ==
  /\ request = [r \in Calls |-> NoRequest]
  /\ closer = [c \in Closers |-> [pc |-> "idle", todo |-> {}]]
  /\ closed = FALSE
  /\ wg = {}
  /\ open = Backends

-----------------------------------------------------------------------------
(* TryAdmit                                                                *)

RequestIs(r, pc, conn) == request' = [request EXCEPT ![r] = [pc |-> pc, conn |-> conn]]
CloserIs(c, pc, todo) == closer' = [closer EXCEPT ![c] = [pc |-> pc, todo |-> todo]]

Reading(r) == request[r].pc \in {"locked", "checked"}

Arrive(r) ==
  /\ request[r].pc = "idle"
  /\ RequestIs(r, "rlock", "none")
  /\ UNCHANGED <<closer, closed, wg, open>>

RLock(r) ==
  /\ request[r].pc = "rlock"
  /\ \A c \in Closers : closer[c].pc # "lock"
  /\ RequestIs(r, "locked", "none")
  /\ UNCHANGED <<closer, closed, wg, open>>

\* A closed queue rejects the call with ErrSessionClosed.
CheckClosed(r) ==
  /\ request[r].pc = "locked"
  /\ IF closed THEN RequestIs(r, "idle", "none") ELSE RequestIs(r, "checked", "none")
  /\ UNCHANGED <<closer, closed, wg, open>>

\* wg.Add(1), then the read lock is released.
Admit(r) ==
  /\ request[r].pc = "checked"
  /\ wg' = wg \cup {r}
  /\ RequestIs(r, "admitted", "none")
  /\ UNCHANGED <<closer, closed, open>>

-----------------------------------------------------------------------------
(* lookupBackend and the call                                              *)

\* Mutant of Done: a call that fails does not leave the wait group.
DoneOnSuccess(r) ==
  /\ wg' \in {wg, wg \ {r}}
  /\ RequestIs(r, "idle", "none")

Done(r) ==
  /\ wg' = wg \ {r}
  /\ RequestIs(r, "idle", "none")

\* The name is not in the routing table, or its backend has no connection.
lookupBackend(r) ==
  /\ request[r].pc = "admitted"
  /\ \/ Done(r)
     \/ \E b \in Backends : RequestIs(r, "calling", b) /\ UNCHANGED wg
  /\ UNCHANGED <<closer, closed, open>>

CallReturns(r) ==
  /\ request[r].pc = "calling"
  /\ Done(r)
  /\ UNCHANGED <<closer, closed, open>>

-----------------------------------------------------------------------------
(* Close                                                                   *)

BeginClose(c) ==
  /\ closer[c].pc = "idle"
  /\ CloserIs(c, "lock", {})
  /\ UNCHANGED <<request, closed, wg, open>>

\* Mutant of Lock: the flag is set without excluding the readers.
LockShared(c) ==
  /\ closer[c].pc = "lock"
  /\ closed' = TRUE
  /\ IF closed THEN CloserIs(c, "closing", Backends) ELSE CloserIs(c, "drain", {})
  /\ UNCHANGED <<request, wg, open>>

\* The critical section of CloseAndDrain: a queue that is already closed makes
\* it return at once.
Lock(c) ==
  /\ closer[c].pc = "lock"
  /\ \A r \in Calls : ~Reading(r)
  /\ closed' = TRUE
  /\ IF closed THEN CloserIs(c, "closing", Backends) ELSE CloserIs(c, "drain", {})
  /\ UNCHANGED <<request, wg, open>>

\* wg.Wait returns.
Drained(c) ==
  /\ closer[c].pc = "drain"
  /\ wg = {}
  /\ CloserIs(c, "closing", Backends)
  /\ UNCHANGED <<request, closed, wg, open>>

\* The connections are closed one by one, in the order of the map.
CloseConnection(c) ==
  /\ closer[c].pc = "closing"
  /\ \/ \E b \in closer[c].todo :
          /\ open' = open \ {b}
          /\ CloserIs(c, "closing", closer[c].todo \ {b})
     \/ /\ closer[c].todo = {}
        /\ CloserIs(c, "closed", {})
        /\ UNCHANGED open
  /\ UNCHANGED <<request, closed, wg>>

-----------------------------------------------------------------------------

TryAdmit(r) == RLock(r) \/ CheckClosed(r) \/ Admit(r)
Call(r) == lookupBackend(r) \/ CallReturns(r)
Close(c) == Lock(c) \/ Drained(c) \/ CloseConnection(c)

QueueNext ==
  \/ \E r \in Calls : Arrive(r) \/ TryAdmit(r) \/ Call(r)
  \/ \E c \in Closers : BeginClose(c) \/ Close(c)

QueueSpec == QueueInit /\ [][QueueNext]_queueVars

\* Goroutines are scheduled, and a call of a backend returns: its context or
\* the HTTP client's timeout ends it.
QueueFairness ==
  /\ \A r \in Calls : WF_queueVars(TryAdmit(r)) /\ WF_queueVars(Call(r))
  /\ \A c \in Closers : WF_queueVars(Close(c))

FairQueueSpec == QueueSpec /\ QueueFairness

-----------------------------------------------------------------------------
(* Properties                                                              *)

\* The types; the wait group counts exactly the requests between Add and Done.
QueueTypeOK ==
  /\ request \in [Calls -> [pc : {"idle", "rlock", "locked", "checked", "admitted", "calling"},
                               conn : Backends \cup {"none"}]]
  /\ closer \in [Closers -> [pc : {"idle", "lock", "drain", "closing", "closed"},
                             todo : SUBSET Backends]]
  /\ closed \in BOOLEAN
  /\ wg = {r \in Calls : request[r].pc \in {"admitted", "calling"}}
  /\ open \in SUBSET Backends

\* Close waits for the calls in flight: no call is ever made, or still under
\* way, on a connection that has been closed.
NoCallOnClosed ==
  \A r \in Calls : request[r].pc = "calling" => request[r].conn \in open

\* A Close that has begun ends: the requests it waits for finish, and those that
\* keep arriving are turned away rather than admitted.
CloseEnds == \A c \in Closers : closer[c].pc = "lock" ~> closer[c].pc = "closed"
=============================================================================
