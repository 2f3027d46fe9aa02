--------------------------- MODULE SessionManager ---------------------------
(***************************************************************************)
(* The vMCP session manager (pkg/vmcp/server/sessionmanager) of several    *)
(* pods over one storage: the two-phase creation of a session, GetMulti-   *)
(* Session with its liveness check and its restore, Terminate, and         *)
(* NotifyBackendExpired.  Every call of the storage is a step of its own,  *)
(* so the calls of all pods interleave between any two of them.            *)
(***************************************************************************)
EXTENDS ValidatingCache, FiniteSets

CONSTANTS Clients,    \* concurrent callers of Terminate for one session
          PodsCrash,  \* whether a pod may be restarted
          BackendsExpire  \* whether NotifyBackendExpired is called

ASSUME SessionAssumption ==
  /\ "none" \notin Pods /\ "none" \notin SessionIDs
  /\ NoObject \notin Objects /\ "hook" \notin Clients

VARIABLES creator,    \* the registration of each session, from Generate on
          flight,     \* the singleflight of Get, per pod and session
          terminator, \* the calls of Terminate, per session and caller
          notifier    \* the calls of NotifyBackendExpired, per session

callVars == <<creator, flight, terminator, notifier>>
vars == <<storage, cacheVars, callVars>>

Ref == Objects \cup {NoObject}

Creator == [pc : {"unused", "registered", "making", "recheck", "store",
                  "caching", "cleanup", "failed", "done"},
            pod : Holder, obj : Ref]

\* late: the key was already gone when this Get began.  unsure: the check
\* returned a transient error, so the cached value is kept.
Flight == [pc : {"idle", "check", "evict", "load", "restore", "writeback",
                 "add", "winner", "served"},
           obj : Ref, loaded : SUBSET Backends, late : BOOLEAN, unsure : BOOLEAN]

noFlight == [pc |-> "idle", obj |-> NoObject, loaded |-> {},
             late |-> FALSE, unsure |-> FALSE]

\* The callers of Terminate: clients, and the registration hook when it fails.
Callers == Clients \cup {"hook"}

Notifier == [pc : {"idle", "update"}, backends : SUBSET Backends, holder : Holder]

noNotifier == [pc |-> "idle", backends |-> {}, holder |-> "none"]

Init ==
  /\ StorageInit
  /\ CacheInit
  /\ creator = [id \in SessionIDs |->
                  [pc |-> "unused", pod |-> "none", obj |-> NoObject]]
  /\ flight = [p \in Pods |-> [id \in SessionIDs |-> noFlight]]
  /\ terminator = [id \in SessionIDs |-> [c \in Callers |-> "idle"]]
  /\ notifier = [id \in SessionIDs |-> noNotifier]

\* The metadata of a live session: bound to an identity, never terminated.
GetMetadata(o) == [kind |-> "bound", backends |-> objects[o].backends,
                   holder |-> objects[o].pod]

Referenced(o) ==
  \/ \E id \in SessionIDs : creator[id].obj = o
  \/ \E p \in Pods, id \in SessionIDs : flight[p][id].obj = o

Free(o) ==
  \/ objects[o].state = "free"
  \/ objects[o].state = "closed" /\ ~Referenced(o)

HasFree == \E o \in Objects : Free(o)
FreshObject == CHOOSE o \in Objects : Free(o)

-----------------------------------------------------------------------------
(* Generate and CreateSession                                              *)

CreatorGoes(id, pc, o) ==
  creator' = [creator EXCEPT ![id] = [pc |-> pc, pod |-> @.pod, obj |-> o]]

\* One attempt of Generate: uuid.New returns an ID never used before.  An
\* attempt whose Create fails gives up this ID.
Generate(id) ==
  /\ creator[id].pc = "unused"
  /\ \E p \in Pods, r \in Outcomes :
       /\ Create(id, Unbound("placeholder"), r)
       /\ creator' = [creator EXCEPT ![id] =
                        [pc |-> IF r = "ok" THEN "registered" ELSE "done",
                         pod |-> p, obj |-> NoObject]]
  /\ UNCHANGED <<cacheVars, flight, terminator, notifier>>

\* The fast-fail check before backend connections are opened.
LoadPlaceholder(id) ==
  /\ creator[id].pc = "registered"
  /\ \E r \in Outcomes :
       /\ Load(id, r)
       /\ IF r = "ok" /\ storage[id].kind # "terminated"
          THEN CreatorGoes(id, "making", NoObject)
          ELSE CreatorGoes(id, "failed", NoObject)
  /\ UNCHANGED <<cacheVars, flight, terminator, notifier>>

\* MakeSessionWithID connects to the backends that are healthy and reachable.
MakeSession(id) ==
  /\ creator[id].pc = "making"
  /\ \/ /\ CreatorGoes(id, "cleanup", NoObject)
        /\ UNCHANGED cacheVars
     \/ \E bs \in SUBSET Backends :
          /\ HasFree
          /\ Open(FreshObject, creator[id].pod, id, bs)
          /\ CreatorGoes(id, "recheck", FreshObject)
          /\ UNCHANGED <<cache, lru>>
  /\ UNCHANGED <<storage, flight, terminator, notifier>>

\* The second check of the placeholder, after the slow MakeSessionWithID.
Recheck(id) ==
  /\ creator[id].pc = "recheck"
  /\ \E r \in Outcomes :
       /\ Load(id, r)
       /\ IF r = "ok" /\ storage[id].kind # "terminated"
          THEN /\ CreatorGoes(id, "store", creator[id].obj)
               /\ UNCHANGED objects
          ELSE /\ CreatorGoes(id, IF r = "error" THEN "cleanup" ELSE "failed", NoObject)
               /\ Close({creator[id].obj})
  /\ UNCHANGED <<cache, lru, flight, terminator, notifier>>

\* A mutant: the session is closed on success as well.
StoreMetadataCloses(id) ==
  /\ creator[id].pc = "store"
  /\ \E r \in Outcomes :
       /\ Update(id, GetMetadata(creator[id].obj), r)
       /\ IF r = "ok" THEN CreatorGoes(id, "caching", creator[id].obj)
          ELSE CreatorGoes(id, IF r = "error" THEN "cleanup" ELSE "failed", NoObject)
       /\ Close({creator[id].obj})
  /\ UNCHANGED <<cache, lru, flight, terminator, notifier>>

\* The metadata replaces the placeholder, if there still is a key.
StoreMetadata(id) ==
  /\ creator[id].pc = "store"
  /\ \E r \in Outcomes :
       /\ Update(id, GetMetadata(creator[id].obj), r)
       /\ IF r = "ok"
          THEN /\ CreatorGoes(id, "caching", creator[id].obj)
               /\ UNCHANGED objects
          ELSE /\ CreatorGoes(id, IF r = "error" THEN "cleanup" ELSE "failed", NoObject)
               /\ Close({creator[id].obj})
  /\ UNCHANGED <<cache, lru, flight, terminator, notifier>>

\* Set; then the hook injects the capabilities, which may fail.
CacheSession(id) ==
  /\ creator[id].pc = "caching"
  /\ Add(creator[id].pod, id, creator[id].obj)
  /\ \E pc \in {"done", "failed"} : CreatorGoes(id, pc, NoObject)
  /\ UNCHANGED <<storage, flight, terminator, notifier>>

cleanupFailedPlaceholder(id) ==
  /\ creator[id].pc = "cleanup"
  /\ \E r \in Outcomes : Update(id, Unbound("terminated"), r)
  /\ CreatorGoes(id, "failed", NoObject)
  /\ UNCHANGED <<cacheVars, flight, terminator, notifier>>

-----------------------------------------------------------------------------
(* GetMultiSession: ValidatingCache.Get with checkSession and loadSession   *)

FlightGoes(p, id, f) == flight' = [flight EXCEPT ![p][id] = f]

\* Get of a session whose ID a client knows; concurrent callers of the pod
\* share the flight.
BeginGet(p, id) ==
  /\ flight[p][id].pc = "idle"
  /\ creator[id].pc # "unused"
  /\ LET began == [noFlight EXCEPT !.late = ~Present(id)] IN
     IF Cached(p, id)
     THEN /\ FlightGoes(p, id, [began EXCEPT !.pc = "check", !.obj = cache[p][id]])
          /\ Touch(p, id)
     ELSE /\ FlightGoes(p, id, [began EXCEPT !.pc = "load"])
          /\ UNCHANGED lru
  /\ UNCHANGED <<storage, objects, cache, creator, terminator, notifier>>

\* A mutant: the whole metadata is compared, not only the backend IDs.
ExpiredOnAnyDrift(id, o) ==
  \/ storage[id].kind = "terminated"
  \/ storage[id].backends # objects[o].backends
  \/ storage[id].holder # objects[o].pod

\* What checkSession finds in the metadata of a cached session.
Expired(id, o) ==
  \/ storage[id].kind = "terminated"
  \/ storage[id].backends # objects[o].backends

\* A mutant: a key that is gone counts as a transient error.
checkSessionKeepsMissing(p, id) ==
  /\ flight[p][id].pc = "check"
  /\ \E r \in Outcomes :
       /\ Load(id, r)
       /\ FlightGoes(p, id,
            IF r = "ok" /\ Expired(id, flight[p][id].obj)
            THEN [flight[p][id] EXCEPT !.pc = "evict"]
            ELSE [flight[p][id] EXCEPT !.pc = "served", !.unsure = (r = "error")])
  /\ UNCHANGED <<cacheVars, creator, terminator, notifier>>

checkSession(p, id) ==
  /\ flight[p][id].pc = "check"
  /\ \E r \in Outcomes :
       /\ Load(id, r)
       /\ FlightGoes(p, id,
            IF r = "missing" \/ (r = "ok" /\ Expired(id, flight[p][id].obj))
            THEN [flight[p][id] EXCEPT !.pc = "evict"]
            ELSE [flight[p][id] EXCEPT !.pc = "served", !.unsure = (r = "error")])
  /\ UNCHANGED <<cacheVars, creator, terminator, notifier>>

getHitEvicts(p, id) ==
  /\ flight[p][id].pc = "evict"
  /\ EvictEntry(p, id, flight[p][id].obj)
  /\ FlightGoes(p, id, [flight[p][id] EXCEPT !.pc = "load", !.obj = NoObject])
  /\ UNCHANGED <<storage, creator, terminator, notifier>>

\* loadSession restores only sessions whose second phase has run.
loadSession(p, id) ==
  /\ flight[p][id].pc = "load"
  /\ \E r \in Outcomes :
       /\ Load(id, r)
       /\ FlightGoes(p, id,
            IF r = "ok" /\ storage[id].kind = "bound"
            THEN [flight[p][id] EXCEPT !.pc = "restore", !.loaded = storage[id].backends]
            ELSE noFlight)
  /\ UNCHANGED <<cacheVars, creator, terminator, notifier>>

\* RestoreSession reconnects to those stored backends that are registered and
\* reachable, or fails.
RestoreSession(p, id) ==
  /\ flight[p][id].pc = "restore"
  /\ \/ FlightGoes(p, id, noFlight) /\ UNCHANGED cacheVars
     \/ \E bs \in SUBSET flight[p][id].loaded :
          /\ HasFree
          /\ Open(FreshObject, p, id, bs)
          /\ FlightGoes(p, id, [flight[p][id] EXCEPT !.pc = "writeback",
                                                     !.obj = FreshObject, !.loaded = {}])
          /\ UNCHANGED <<cache, lru>>
  /\ UNCHANGED <<storage, creator, terminator, notifier>>

\* A mutant: a restored session whose key is gone is dropped, not closed.
WriteBackDrops(p, id) ==
  /\ flight[p][id].pc = "writeback"
  /\ \E r \in Outcomes :
       /\ Update(id, GetMetadata(flight[p][id].obj), r)
       /\ FlightGoes(p, id, IF r = "missing" THEN noFlight
                            ELSE [flight[p][id] EXCEPT !.pc = "add"])
  /\ UNCHANGED <<cacheVars, creator, terminator, notifier>>

\* The write-back of the restored metadata; a failed write is not fatal.
WriteBack(p, id) ==
  /\ flight[p][id].pc = "writeback"
  /\ \E r \in Outcomes :
       /\ Update(id, GetMetadata(flight[p][id].obj), r)
       /\ IF r = "missing"
          THEN Close({flight[p][id].obj}) /\ FlightGoes(p, id, noFlight)
          ELSE /\ FlightGoes(p, id, [flight[p][id] EXCEPT !.pc = "add"])
               /\ UNCHANGED objects
  /\ UNCHANGED <<cache, lru, creator, terminator, notifier>>

\* ContainsOrAdd: a Set during the load wins.
AddLoaded(p, id) ==
  /\ flight[p][id].pc = "add"
  /\ IF Cached(p, id)
     THEN /\ FlightGoes(p, id, [flight[p][id] EXCEPT !.pc = "winner"])
          /\ UNCHANGED cacheVars
     ELSE /\ Add(p, id, flight[p][id].obj)
          /\ FlightGoes(p, id, [flight[p][id] EXCEPT !.pc = "served"])
  /\ UNCHANGED <<storage, creator, terminator, notifier>>

\* The winner is returned and the loaded session closed, unless the winner
\* has been evicted in between.
TakeWinner(p, id) ==
  /\ flight[p][id].pc = "winner"
  /\ IF Cached(p, id)
     THEN /\ Close({flight[p][id].obj})
          /\ Touch(p, id)
          /\ FlightGoes(p, id, [flight[p][id] EXCEPT !.pc = "served",
                                                     !.obj = cache[p][id]])
          /\ UNCHANGED cache
     ELSE /\ Add(p, id, flight[p][id].obj)
          /\ FlightGoes(p, id, [flight[p][id] EXCEPT !.pc = "served"])
  /\ UNCHANGED <<storage, creator, terminator, notifier>>

\* The callers have used the session they were given.
EndGet(p, id) ==
  /\ flight[p][id].pc = "served"
  /\ FlightGoes(p, id, noFlight)
  /\ UNCHANGED <<storage, cacheVars, creator, terminator, notifier>>

Get(p, id) ==
  \/ BeginGet(p, id) \/ checkSession(p, id) \/ getHitEvicts(p, id)
  \/ loadSession(p, id) \/ RestoreSession(p, id) \/ WriteBack(p, id)
  \/ AddLoaded(p, id) \/ TakeWinner(p, id) \/ EndGet(p, id)

-----------------------------------------------------------------------------
(* Terminate, NotifyBackendExpired, expiry and restarts                     *)

TerminatorGoes(id, c, pc) == terminator' = [terminator EXCEPT ![id][c] = pc]

\* Terminate reads the metadata to tell a full session from a placeholder.
BeginTerminate(id, c) ==
  /\ terminator[id][c] = "idle"
  /\ IF c = "hook"
     THEN creator[id].pc = "failed" /\ CreatorGoes(id, "done", NoObject)
     ELSE creator[id].pc # "unused" /\ UNCHANGED creator
  /\ \E r \in Outcomes :
       /\ Load(id, r)
       /\ TerminatorGoes(id, c, CASE r # "ok" -> "idle"
                                  [] storage[id].kind = "bound" -> "delete"
                                  [] OTHER -> "mark")
  /\ UNCHANGED <<cacheVars, flight, notifier>>

\* A mutant: the deletion is left to the TTL.
TerminateDeletesNothing(id, c) ==
  /\ terminator[id][c] = "delete"
  /\ TerminatorGoes(id, c, "idle")
  /\ UNCHANGED <<storage, cacheVars, creator, flight, notifier>>

\* A full session is deleted; so is a placeholder that could not be marked.
TerminateDeletes(id, c) ==
  /\ terminator[id][c] = "delete"
  /\ \E r \in Outcomes : Delete(id, r)
  /\ TerminatorGoes(id, c, "idle")
  /\ UNCHANGED <<cacheVars, creator, flight, notifier>>

\* A placeholder is marked.
TerminateMarks(id, c) ==
  /\ terminator[id][c] = "mark"
  /\ \E r \in Outcomes :
       /\ Update(id, Unbound("terminated"), r)
       /\ TerminatorGoes(id, c, IF r = "error" THEN "delete" ELSE "idle")
  /\ UNCHANGED <<cacheVars, creator, flight, notifier>>

Terminate(id, c) ==
  BeginTerminate(id, c) \/ TerminateDeletes(id, c) \/ TerminateMarks(id, c)

\* NotifyBackendExpired is handed the metadata of the live session ...
BeginNotify(id) ==
  /\ BackendsExpire
  /\ notifier[id].pc = "idle"
  /\ \E p \in Pods :
       /\ Cached(p, id)
       /\ \E b \in objects[cache[p][id]].backends :
            notifier' = [notifier EXCEPT ![id] =
                           [pc |-> "update",
                            backends |-> objects[cache[p][id]].backends \ {b},
                            holder |-> p]]
  /\ UNCHANGED <<storage, cacheVars, creator, flight, terminator>>

\* ... and writes it back without the backend.
NotifyBackendExpired(id) ==
  /\ notifier[id].pc = "update"
  /\ \E r \in Outcomes :
       Update(id, [kind |-> "bound", backends |-> notifier[id].backends,
                   holder |-> notifier[id].holder], r)
  /\ notifier' = [notifier EXCEPT ![id] = noNotifier]
  /\ UNCHANGED <<cacheVars, creator, flight, terminator>>

KeyExpires(id) == Expire(id) /\ UNCHANGED <<cacheVars, callVars>>

\* A pod is restarted: its cache, its live sessions and its calls are lost.
Restart(p) ==
  /\ PodsCrash
  /\ objects' = [o \in Objects |-> IF objects[o].pod = p THEN freeObject ELSE objects[o]]
  /\ cache' = [cache EXCEPT ![p] = [id \in SessionIDs |-> NoObject]]
  /\ lru' = [lru EXCEPT ![p] = << >>]
  /\ creator' = [id \in SessionIDs |->
                   IF creator[id].pod = p
                   THEN [pc |-> "done", pod |-> p, obj |-> NoObject]
                   ELSE creator[id]]
  /\ flight' = [flight EXCEPT ![p] = [id \in SessionIDs |-> noFlight]]
  /\ UNCHANGED <<storage, terminator, notifier>>

CreateSession(id) ==
  \/ LoadPlaceholder(id) \/ MakeSession(id) \/ Recheck(id)
  \/ StoreMetadata(id) \/ CacheSession(id) \/ cleanupFailedPlaceholder(id)

Next ==
  \/ \E id \in SessionIDs :
       \/ Generate(id) \/ CreateSession(id)
       \/ \E c \in Callers : Terminate(id, c)
       \/ BeginNotify(id) \/ NotifyBackendExpired(id) \/ KeyExpires(id)
  \/ \E p \in Pods, id \in SessionIDs : Get(p, id)
  \/ \E p \in Pods : Restart(p)

Spec == Init /\ [][Next]_vars

\* Goroutines of a pod that runs are scheduled: a call that has begun goes on.
Fairness ==
  /\ \A id \in SessionIDs :
       /\ WF_vars(CreateSession(id))
       /\ \A c \in Callers :
            WF_vars((c = "hook" \/ terminator[id][c] # "idle") /\ Terminate(id, c))
       /\ WF_vars(NotifyBackendExpired(id))
  /\ \A p \in Pods, id \in SessionIDs :
       WF_vars(flight[p][id].pc # "idle" /\ Get(p, id))

FairSpec == Spec /\ Fairness

-----------------------------------------------------------------------------
(* Properties                                                               *)

\* Validate: a session is over when its key is gone or marked.
IsTerminated(id) == storage[id].kind \in {"absent", "terminated"}

\* The state of the storage, the caches and every call is well typed.
TypeOK ==
  /\ storage \in [SessionIDs -> Metadata]
  /\ objects \in [Objects -> Object]
  /\ cache \in [Pods -> [SessionIDs -> Ref]]
  /\ \A p \in Pods :
       /\ Len(lru[p]) <= Capacity
       /\ {lru[p][i] : i \in 1 .. Len(lru[p])} = {id \in SessionIDs : Cached(p, id)}
  /\ creator \in [SessionIDs -> Creator]
  /\ flight \in [Pods -> [SessionIDs -> Flight]]
  /\ terminator \in [SessionIDs -> [Callers -> {"idle", "delete", "mark"}]]
  /\ notifier \in [SessionIDs -> Notifier]

\* Every write after Generate is conditional on the key, so a session that was
\* deleted or has expired is gone for good: no late CreateSession, write-back
\* of a restore, mark or backend expiry, on any pod, brings its key back.
GoneStaysGone ==
  [][\A id \in SessionIDs :
       creator[id].pc # "unused" /\ ~Present(id) => ~Present(id)']_vars

\* Every entry of a cache is an open session of that pod and that ID: no path
\* closes a session that the cache still serves (getHit, the loser of
\* ContainsOrAdd, LRU pressure, the error paths of CreateSession).
CachedIsOpen ==
  \A p \in Pods, id \in SessionIDs :
    Cached(p, id) => /\ IsOpen(cache[p][id])
                     /\ objects[cache[p][id]].pod = p
                     /\ objects[cache[p][id]].id = id

\* A Get that began when the key was already gone returns no session, unless
\* the liveness check met a storage error: termination on one pod reaches the
\* caches of all others at their next Get.
ServedWasAlive ==
  \A p \in Pods, id \in SessionIDs :
    flight[p][id].pc = "served" /\ flight[p][id].late => flight[p][id].unsure

\* A live session is held by the cache or by the call that made it.
Held(o) ==
  \/ cache[objects[o].pod][objects[o].id] = o
  \/ creator[objects[o].id].obj = o
  \/ flight[objects[o].pod][objects[o].id].obj = o

\* Connections leak only where Set replaces an entry that a concurrent Get has
\* restored between the store and the Set of CreateSession: at most one
\* session object per session ID, on the pod that created it, stays open with
\* nobody left to close it.
LeakIsBounded ==
  \A id \in SessionIDs :
    LET leaked == {o \in Objects : IsOpen(o) /\ objects[o].id = id /\ ~Held(o)}
    IN  /\ Cardinality(leaked) <= 1
        /\ \A o \in leaked : objects[o].pod = creator[id].pod

\* While the cache has room, no caller of Get is given a closed session.
ServedIsOpen ==
  \A p \in Pods, id \in SessionIDs :
    flight[p][id].pc = "served" => IsOpen(flight[p][id].obj)

\* Terminate marks a placeholder "to prevent a race condition where client
\* termination during the Phase 1 -> Phase 2 window could resurrect sessions":
\* a session that is marked terminated is never bound afterwards.
TerminatedIsFinal ==
  [][\A id \in SessionIDs :
       storage[id].kind = "terminated" => IsTerminated(id)']_vars

\* "a cross-pod RestoreSession call does not attempt to reconnect to the
\* expired backend session": the stored backends of a bound session never grow.
ExpiredBackendStaysOut ==
  [][\A id \in SessionIDs :
       storage[id].kind = "bound" => storage'[id].backends \subseteq storage[id].backends]_vars

\* A registration that failed ends in a session that Validate rejects.
FailedSessionEnds ==
  \A id \in SessionIDs : creator[id].pc = "failed" ~> IsTerminated(id)

\* The write-backs of several pods do not evict each other's cached sessions
\* for ever, since only the list of backend IDs is compared.
EvictionsEnd ==
  <>[][\A p \in Pods, id \in SessionIDs :
         flight[p][id].pc = "evict" => flight'[p][id].pc # "load"]_vars
=============================================================================
