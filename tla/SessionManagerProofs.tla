------------------------ MODULE SessionManagerProofs ------------------------
(***************************************************************************)
(* The session manager for any number of pods, sessions, backends, cache   *)
(* entries and calls. SInv is the inductive invariant; the steps of        *)
(* CreateSession, Terminate and NotifyBackendExpired preserve it, then     *)
(* those of Get and of a pod that restarts; the theorems follow. LeakInv,  *)
(* LruInv and FlightsOpen build on it, for what is left without an owner,  *)
(* for the order of each cache and for the sessions that callers use.      *)
(***************************************************************************)
EXTENDS SessionManager, TLAPS

Types ==
  /\ storage \in [SessionIDs -> Metadata]
  /\ objects \in [Objects -> Object]
  /\ cache \in [Pods -> [SessionIDs -> Ref]]
  /\ creator \in [SessionIDs -> Creator]
  /\ flight \in [Pods -> [SessionIDs -> Flight]]
  /\ notifier \in [SessionIDs -> Notifier]

\* Object o belongs to session id on pod p and its connections are open.
OpenFor(o, p, id) ==
  /\ o \in Objects
  /\ objects[o].state = "open" /\ objects[o].pod = p /\ objects[o].id = id

\* The object of a registration is open and its own until Set.
CreatorOwns ==
  \A id \in SessionIDs : creator[id].obj # NoObject =>
    /\ creator[id].pod \in Pods
    /\ OpenFor(creator[id].obj, creator[id].pod, id)
    /\ \A p \in Pods : cache[p][id] # creator[id].obj
    /\ \A p \in Pods : flight[p][id].obj # creator[id].obj

\* So is the object of a restore until ContainsOrAdd; a value that a flight
\* has read from the cache may have been closed under it, but not freed.
FlightOwns ==
  \A p \in Pods, id \in SessionIDs :
    LET f == flight[p][id] IN
    /\ f.pc \in {"idle", "load", "restore"} <=> f.obj = NoObject
    /\ f.obj # NoObject =>
         \/ OpenFor(f.obj, p, id)
         \/ f.obj \in Objects /\ objects[f.obj].state = "closed" /\ objects[f.obj].pod = "none"
    /\ f.pc \in {"writeback", "add", "winner"} =>
         OpenFor(f.obj, p, id) /\ cache[p][id] # f.obj

\* A flight that began after the key was gone never gets past the load.
LateFlights ==
  \A p \in Pods, id \in SessionIDs :
    flight[p][id].late =>
      /\ creator[id].pc # "unused" /\ ~Present(id)
      /\ flight[p][id].pc \in {"check", "evict", "load", "served"}
      /\ flight[p][id].pc = "served" => flight[p][id].unsure

CreatorHolds ==
  \A id \in SessionIDs :
    /\ creator[id].pc \in {"recheck", "store", "caching"} => creator[id].obj # NoObject
    /\ creator[id].pc # "unused" => creator[id].pod \in Pods

SInv == Types /\ CachedIsOpen /\ CreatorOwns /\ CreatorHolds /\ FlightOwns /\ LateFlights

-----------------------------------------------------------------------------
(* The storage.                                                             *)

LEMMA UnboundType ==
  ASSUME NEW k \in Kinds
  PROVE  Unbound(k) \in Metadata
  BY Zenon DEF Unbound, Metadata, Holder

\* What an Update does to every key: nothing to the ones that are gone.
LEMMA UpdateEffect ==
  ASSUME storage \in [SessionIDs -> Metadata], NEW id \in SessionIDs,
         NEW m \in Metadata, NEW r, Update(id, m, r)
  PROVE  /\ storage' \in [SessionIDs -> Metadata]
         /\ \A k \in SessionIDs : ~Present(k) => ~Present(k)'
         /\ r = "missing" => ~Present(id)
  BY Zenon DEF Update, Write, Present, Metadata

LEMMA DeleteEffect ==
  ASSUME storage \in [SessionIDs -> Metadata], NEW id \in SessionIDs,
         NEW r, Delete(id, r)
  PROVE  /\ storage' \in [SessionIDs -> Metadata]
         /\ \A k \in SessionIDs : ~Present(k) => ~Present(k)'
  <1>1. Unbound("absent") \in Metadata
    BY Zenon, UnboundType DEF Kinds
  <1> QED
    BY <1>1 DEF Delete, Write, Present, Unbound

LEMMA LoadEffect ==
  ASSUME NEW id \in SessionIDs, NEW r, Load(id, r)
  PROVE  storage' = storage /\ (r = "ok" => Present(id))
  BY Zenon DEF Load

LEMMA GenerateEffect ==
  ASSUME storage \in [SessionIDs -> Metadata], NEW id \in SessionIDs,
         NEW r, Create(id, Unbound("placeholder"), r)
  PROVE  /\ storage' \in [SessionIDs -> Metadata]
         /\ \A k \in SessionIDs : k # id => storage'[k] = storage[k]
  <1>1. Unbound("placeholder") \in Metadata
    BY Zenon, UnboundType DEF Kinds
  <1> QED
    BY Zenon, <1>1 DEF Create, Write, Present

LEMMA MetadataType ==
  ASSUME objects \in [Objects -> Object], NEW o \in Objects
  PROVE  GetMetadata(o) \in Metadata
  BY Zenon DEF GetMetadata, Metadata, Object, Kinds

-----------------------------------------------------------------------------
(* Steps that leave the caches and the flights alone.                       *)

\* What such a step may do: change the storage without bringing a key back,
\* and move a registration that ends up without an object.
LEMMA StorageStep ==
  ASSUME SInv, storage' \in [SessionIDs -> Metadata],
         creator' \in [SessionIDs -> Creator],
         notifier' \in [SessionIDs -> Notifier],
         UNCHANGED <<objects, cache, flight>>,
         \A k \in SessionIDs : creator[k].pc # "unused" /\ ~Present(k) => ~Present(k)',
         \A k \in SessionIDs : creator[k].pc # "unused" => creator'[k].pc # "unused",
         \A k \in SessionIDs : creator'[k].pc # "unused" => creator'[k].pod \in Pods,
         \A k \in SessionIDs :
           \/ /\ creator'[k].obj = creator[k].obj /\ creator'[k].pod = creator[k].pod
              /\ creator[k].obj # NoObject
           \/ /\ creator'[k].obj = NoObject
              /\ creator'[k].pc \notin {"recheck", "store", "caching"}
  PROVE  SInv'
  <1>1. Types'
    BY Zenon DEF SInv, Types
  <1>2. CachedIsOpen'
    BY DEF SInv, CachedIsOpen, Cached, IsOpen
  <1>3. CreatorOwns'
    <2> SUFFICES ASSUME NEW id \in SessionIDs, creator'[id].obj # NoObject
                 PROVE  CreatorOwns!(id)'
      BY Zenon DEF CreatorOwns
    <2> QED
      BY DEF SInv, CreatorOwns, OpenFor
  <1>4. CreatorHolds'
    BY Zenon DEF SInv, CreatorHolds
  <1>5. FlightOwns'
    <2> SUFFICES ASSUME NEW p \in Pods, NEW id \in SessionIDs
                 PROVE  FlightOwns!(p, id)'
      BY Zenon DEF FlightOwns
    <2> QED
      BY DEF SInv, FlightOwns, OpenFor
  <1>6. LateFlights'
    BY Zenon DEF SInv, LateFlights
  <1> QED
    BY Zenon, <1>1, <1>2, <1>3, <1>4, <1>5, <1>6 DEF SInv

LEMMA GeneratePreserves ==
  ASSUME SInv, NEW id \in SessionIDs, Generate(id)
  PROVE  SInv'
  <1>1. PICK p \in Pods, r \in Outcomes :
          /\ Create(id, Unbound("placeholder"), r)
          /\ creator' = [creator EXCEPT ![id] =
                           [pc |-> IF r = "ok" THEN "registered" ELSE "done",
                            pod |-> p, obj |-> NoObject]]
    BY Zenon DEF Generate
  <1>2. /\ storage' \in [SessionIDs -> Metadata]
        /\ \A k \in SessionIDs : k # id => storage'[k] = storage[k]
    BY Zenon, <1>1, GenerateEffect DEF SInv, Types
  <1>3. creator' \in [SessionIDs -> Creator]
    BY Zenon, <1>1 DEF SInv, Types, Creator, Ref, Holder
  <1>4. creator[id].pc = "unused" /\ UNCHANGED <<objects, cache, flight, notifier>>
    BY Zenon DEF Generate, cacheVars
  <1>5. \A k \in SessionIDs : creator[k].pc # "unused" /\ ~Present(k) => ~Present(k)'
    BY Zenon, <1>2, <1>4 DEF Present
  <1>6. /\ \A k \in SessionIDs : creator[k].pc # "unused" => creator'[k].pc # "unused"
        /\ \A k \in SessionIDs : creator'[k].pc # "unused" => creator'[k].pod \in Pods
    BY Zenon, <1>1, <1>4 DEF SInv, Types, CreatorHolds
  <1>7. \A k \in SessionIDs :
           \/ /\ creator'[k].obj = creator[k].obj /\ creator'[k].pod = creator[k].pod
              /\ creator[k].obj # NoObject
           \/ /\ creator'[k].obj = NoObject
              /\ creator'[k].pc \notin {"recheck", "store", "caching"}
    BY Zenon, <1>1 DEF SInv, Types, CreatorHolds
  <1> QED
    BY Zenon, <1>2, <1>3, <1>4, <1>5, <1>6, <1>7, StorageStep DEF SInv, Types

\* A registration that moves on without an object, over any storage step.
LEMMA CreatorGoesOn ==
  ASSUME SInv, NEW id \in SessionIDs,
         NEW pc \in {"making", "cleanup", "failed", "done"},
         creator[id].pc # "unused",
         CreatorGoes(id, pc, NoObject),
         storage' \in [SessionIDs -> Metadata],
         \A k \in SessionIDs : ~Present(k) => ~Present(k)',
         UNCHANGED <<objects, cache, flight, notifier>>
  PROVE  SInv'
  <1>1. creator' \in [SessionIDs -> Creator]
    BY Zenon DEF SInv, Types, Creator, Ref, CreatorGoes
  <1>2. /\ \A k \in SessionIDs : creator[k].pc # "unused" => creator'[k].pc # "unused"
        /\ \A k \in SessionIDs : creator'[k].pc # "unused" => creator'[k].pod \in Pods
    BY Zenon DEF SInv, Types, CreatorGoes, CreatorHolds
  <1>3. \A k \in SessionIDs :
           \/ /\ creator'[k].obj = creator[k].obj /\ creator'[k].pod = creator[k].pod
              /\ creator[k].obj # NoObject
           \/ /\ creator'[k].obj = NoObject
              /\ creator'[k].pc \notin {"recheck", "store", "caching"}
    BY Zenon DEF SInv, Types, CreatorHolds, CreatorGoes
  <1> QED
    BY Zenon, <1>1, <1>2, <1>3, StorageStep DEF SInv, Types

\* A step of the storage alone.
LEMMA StorageAlone ==
  ASSUME SInv, storage' \in [SessionIDs -> Metadata],
         notifier' \in [SessionIDs -> Notifier],
         \A k \in SessionIDs : ~Present(k) => ~Present(k)',
         UNCHANGED <<objects, cache, flight, creator>>
  PROVE  SInv'
  <1>1. \A k \in SessionIDs :
           \/ /\ creator'[k].obj = creator[k].obj /\ creator'[k].pod = creator[k].pod
              /\ creator[k].obj # NoObject
           \/ /\ creator'[k].obj = NoObject
              /\ creator'[k].pc \notin {"recheck", "store", "caching"}
    BY Zenon DEF SInv, Types, CreatorHolds
  <1> QED
    BY Zenon, <1>1, StorageStep DEF SInv, Types, CreatorHolds

LEMMA LoadPlaceholderPreserves ==
  ASSUME SInv, NEW id \in SessionIDs, LoadPlaceholder(id)
  PROVE  SInv'
  <1>1. /\ storage' = storage /\ UNCHANGED <<objects, cache, flight, notifier>>
        /\ creator[id].pc # "unused"
    BY Zenon, LoadEffect DEF LoadPlaceholder, cacheVars
  <1>2. PICK pc \in {"making", "failed"} : CreatorGoes(id, pc, NoObject)
    BY Zenon DEF LoadPlaceholder
  <1>3. storage' \in [SessionIDs -> Metadata]
        /\ \A k \in SessionIDs : ~Present(k) => ~Present(k)'
    BY Zenon, <1>1 DEF SInv, Types, Present
  <1> QED
    BY Zenon, <1>1, <1>2, <1>3, CreatorGoesOn

LEMMA CleanupPreserves ==
  ASSUME SInv, NEW id \in SessionIDs, cleanupFailedPlaceholder(id)
  PROVE  SInv'
  <1>1. Unbound("terminated") \in Metadata
    BY Zenon, UnboundType DEF Kinds
  <1>2. PICK r \in Outcomes : Update(id, Unbound("terminated"), r)
    BY Zenon DEF cleanupFailedPlaceholder
  <1>3. /\ storage' \in [SessionIDs -> Metadata]
        /\ \A k \in SessionIDs : ~Present(k) => ~Present(k)'
    BY Zenon, <1>1, <1>2, UpdateEffect DEF SInv, Types
  <1>4. /\ CreatorGoes(id, "failed", NoObject) /\ creator[id].pc # "unused"
        /\ UNCHANGED <<objects, cache, flight, notifier>>
    BY Zenon DEF cleanupFailedPlaceholder, cacheVars
  <1> QED
    BY Zenon, <1>3, <1>4, CreatorGoesOn

LEMMA TerminatePreserves ==
  ASSUME SInv, NEW id \in SessionIDs, NEW c \in Callers, Terminate(id, c)
  PROVE  SInv'
  <1>1. CASE BeginTerminate(id, c)
    <2>1. storage' = storage /\ UNCHANGED <<objects, cache, flight, notifier>>
      BY Zenon, <1>1, LoadEffect DEF BeginTerminate, cacheVars
    <2>2. storage' \in [SessionIDs -> Metadata] /\ notifier' \in [SessionIDs -> Notifier]
          /\ \A k \in SessionIDs : ~Present(k) => ~Present(k)'
      BY Zenon, <2>1 DEF SInv, Types, Present
    <2>3. CASE c = "hook"
      <3>1. CreatorGoes(id, "done", NoObject) /\ creator[id].pc # "unused"
        BY Zenon, <1>1, <2>3 DEF BeginTerminate
      <3> QED
        BY Zenon, <2>1, <2>2, <3>1, CreatorGoesOn
    <2>4. CASE c # "hook"
      <3>1. UNCHANGED creator
        BY Zenon, <1>1, <2>4 DEF BeginTerminate
      <3> QED
        BY Zenon, <2>1, <2>2, <3>1, StorageAlone
    <2> QED
      BY Zenon, <2>3, <2>4
  <1>2. CASE TerminateDeletes(id, c)
    <2>1. PICK r \in Outcomes : Delete(id, r)
      BY Zenon, <1>2 DEF TerminateDeletes
    <2>2. UNCHANGED <<objects, cache, flight, creator, notifier>>
      BY Zenon, <1>2 DEF TerminateDeletes, cacheVars
    <2> QED
      BY Zenon, <2>1, <2>2, DeleteEffect, StorageAlone DEF SInv, Types
  <1>3. CASE TerminateMarks(id, c)
    <2>1. PICK r \in Outcomes : Update(id, Unbound("terminated"), r)
      BY Zenon, <1>3 DEF TerminateMarks
    <2>2. UNCHANGED <<objects, cache, flight, creator, notifier>>
      BY Zenon, <1>3 DEF TerminateMarks, cacheVars
    <2>3. Unbound("terminated") \in Metadata
      BY Zenon, UnboundType DEF Kinds
    <2> QED
      BY Zenon, <2>1, <2>2, <2>3, UpdateEffect, StorageAlone DEF SInv, Types
  <1> QED
    BY Zenon, <1>1, <1>2, <1>3 DEF Terminate

LEMMA NotifyPreserves ==
  ASSUME SInv, NEW id \in SessionIDs, BeginNotify(id) \/ NotifyBackendExpired(id)
  PROVE  SInv'
  <1>1. CASE BeginNotify(id)
    <2>1. UNCHANGED <<storage, objects, cache, flight, creator>>
      BY Zenon, <1>1 DEF BeginNotify, cacheVars
    <2>2. PICK p \in Pods :
            /\ Cached(p, id)
            /\ \E b \in objects[cache[p][id]].backends :
                 notifier' = [notifier EXCEPT ![id] =
                                [pc |-> "update",
                                 backends |-> objects[cache[p][id]].backends \ {b},
                                 holder |-> p]]
      BY Zenon, <1>1 DEF BeginNotify
    <2>3. cache[p][id] \in Objects /\ objects[cache[p][id]].backends \in SUBSET Backends
      BY <2>2 DEF SInv, Types, Cached, Ref, Object
    <2>4. notifier' \in [SessionIDs -> Notifier]
      BY <2>2, <2>3 DEF SInv, Types, Notifier, Holder
    <2>5. storage' \in [SessionIDs -> Metadata]
          /\ \A k \in SessionIDs : ~Present(k) => ~Present(k)'
      BY Zenon, <2>1 DEF SInv, Types, Present
    <2> QED
      BY Zenon, <2>1, <2>4, <2>5, StorageAlone
  <1>2. CASE NotifyBackendExpired(id)
    <2> DEFINE m == [kind |-> "bound", backends |-> notifier[id].backends,
                     holder |-> notifier[id].holder]
    <2>1. m \in Metadata /\ noNotifier \in Notifier
      BY Zenon DEF SInv, Types, Notifier, Metadata, Kinds, noNotifier, Holder
    <2>2. PICK r \in Outcomes : Update(id, m, r)
      BY Zenon, <1>2 DEF NotifyBackendExpired
    <2>3. /\ UNCHANGED <<objects, cache, flight, creator>>
          /\ notifier' = [notifier EXCEPT ![id] = noNotifier]
      BY Zenon, <1>2 DEF NotifyBackendExpired, cacheVars
    <2>4. notifier' \in [SessionIDs -> Notifier]
      BY Zenon, <2>1, <2>3 DEF SInv, Types
    <2> QED
      BY Zenon, <2>1, <2>2, <2>3, <2>4, UpdateEffect, StorageAlone DEF SInv, Types
  <1> QED
    BY Zenon, <1>1, <1>2

LEMMA KeyExpiresPreserves ==
  ASSUME SInv, NEW id \in SessionIDs, KeyExpires(id)
  PROVE  SInv'
  <1>1. Unbound("absent") \in Metadata
    BY Zenon, UnboundType DEF Kinds
  <1>2. storage' \in [SessionIDs -> Metadata]
        /\ \A k \in SessionIDs : ~Present(k) => ~Present(k)'
    BY Zenon, <1>1 DEF KeyExpires, Expire, Write, SInv, Types, Present, Unbound
  <1>3. UNCHANGED <<objects, cache, flight, creator, notifier>>
    BY Zenon DEF KeyExpires, cacheVars, callVars
  <1> QED
    BY Zenon, <1>2, <1>3, StorageAlone DEF SInv, Types

-----------------------------------------------------------------------------
(* Live sessions are opened and closed.                                     *)

LEMMA CloseEffect ==
  ASSUME objects \in [Objects -> Object], NEW os, Close(os)
  PROVE  /\ objects' \in [Objects -> Object]
         /\ \A o \in Objects : o \notin os => objects'[o] = objects[o]
         /\ \A o \in Objects : o \in os => /\ objects'[o].state = "closed"
                                           /\ objects'[o].pod = "none"
  BY Zenon DEF Close, Object, freeObject, Holder

LEMMA OpenEffect ==
  ASSUME objects \in [Objects -> Object], NEW o \in Objects, NEW p \in Pods,
         NEW id \in SessionIDs, NEW bs \in SUBSET Backends, Open(o, p, id, bs)
  PROVE  /\ objects' \in [Objects -> Object]
         /\ \A x \in Objects : x # o => objects'[x] = objects[x]
         /\ OpenFor(o, p, id)'
  BY Zenon DEF Open, Object, Holder, OpenFor

\* A slot that is taken for a new session is not referred to from anywhere.
LEMMA FreshIsUnused ==
  ASSUME SInv, HasFree
  PROVE  /\ FreshObject \in Objects
         /\ \A id \in SessionIDs : creator[id].obj # FreshObject
         /\ \A p \in Pods, id \in SessionIDs :
              cache[p][id] # FreshObject /\ flight[p][id].obj # FreshObject
  <1>1. FreshObject \in Objects /\ Free(FreshObject)
    BY Zenon DEF HasFree, FreshObject
  <1>2. FreshObject # NoObject
    BY Zenon, <1>1, SessionAssumption
  <1>3. objects[FreshObject].state # "open"
    BY Zenon, <1>1 DEF Free
  <1>4. ASSUME NEW id \in SessionIDs, creator[id].obj = FreshObject
        PROVE  FALSE
    <2>1. OpenFor(creator[id].obj, creator[id].pod, id)
      BY Zenon, <1>2, <1>4 DEF SInv, CreatorOwns
    <2> QED
      BY Zenon, <1>3, <1>4, <2>1 DEF OpenFor
  <1>5. ASSUME NEW p \in Pods, NEW id \in SessionIDs, cache[p][id] = FreshObject
        PROVE  FALSE
    <2>1. Cached(p, id)
      BY Zenon, <1>2, <1>5 DEF Cached
    <2>2. objects[cache[p][id]].state = "open"
      BY <2>1 DEF SInv, CachedIsOpen, IsOpen
    <2> QED
      BY Zenon, <1>3, <1>5, <2>2
  <1>6. ASSUME NEW p \in Pods, NEW id \in SessionIDs, flight[p][id].obj = FreshObject
        PROVE  FALSE
    <2>1. Referenced(FreshObject)
      BY Zenon, <1>6 DEF Referenced
    <2>2. objects[FreshObject].state = "free"
      BY Zenon, <1>1, <2>1 DEF Free
    <2> QED
      BY Zenon, <1>2, <1>3, <1>6, <2>2 DEF SInv, FlightOwns, OpenFor
  <1> QED
    BY Zenon, <1>1, <1>4, <1>5, <1>6

\* A registration or a restore opens a new session.
LEMMA OpenPreserves ==
  ASSUME SInv, NEW o \in Objects, NEW p \in Pods, NEW id \in SessionIDs,
         NEW bs \in SUBSET Backends, Open(o, p, id, bs),
         \A k \in SessionIDs : creator[k].obj # o,
         \A q \in Pods, k \in SessionIDs : cache[q][k] # o /\ flight[q][k].obj # o
  PROVE  /\ objects' \in [Objects -> Object]
         /\ OpenFor(o, p, id)'
         /\ UNCHANGED cache => CachedIsOpen'
         /\ \A q \in Pods, k \in SessionIDs, x \in Objects :
              OpenFor(x, q, k) /\ x # o => OpenFor(x, q, k)'
         /\ \A x \in Objects : objects[x].state = "closed" /\ x # o =>
              objects'[x].state = "closed" /\ objects'[x].pod = objects[x].pod
  <1>1. objects \in [Objects -> Object]
    BY Zenon DEF SInv, Types
  <1>2. /\ objects' \in [Objects -> Object]
        /\ \A x \in Objects : x # o => objects'[x] = objects[x]
        /\ OpenFor(o, p, id)'
    BY Zenon, <1>1, OpenEffect
  <1>3. UNCHANGED cache => CachedIsOpen'
    BY <1>2 DEF SInv, CachedIsOpen, Cached, IsOpen
  <1> QED
    BY Zenon, <1>2, <1>3 DEF OpenFor

LEMMA MakeSessionPreserves ==
  ASSUME SInv, NEW id \in SessionIDs, MakeSession(id)
  PROVE  SInv'
  <1>1. /\ creator[id].pc # "unused" /\ creator[id].pod \in Pods
        /\ UNCHANGED <<storage, flight, notifier>>
    BY Zenon DEF MakeSession, SInv, CreatorHolds
  <1>2. CASE CreatorGoes(id, "cleanup", NoObject) /\ UNCHANGED cacheVars
    <2>1. /\ storage' \in [SessionIDs -> Metadata] /\ UNCHANGED <<objects, cache>>
          /\ \A k \in SessionIDs : ~Present(k) => ~Present(k)'
      BY Zenon, <1>1, <1>2 DEF SInv, Types, Present, cacheVars
    <2> QED
      BY Zenon, <1>1, <1>2, <2>1, CreatorGoesOn
  <1>3. CASE \E bs \in SUBSET Backends :
               /\ HasFree
               /\ Open(FreshObject, creator[id].pod, id, bs)
               /\ CreatorGoes(id, "recheck", FreshObject)
               /\ UNCHANGED <<cache, lru>>
    <2>1. HasFree /\ UNCHANGED cache
      BY Zenon, <1>3
    <2>2. PICK o \in Objects, p \in Pods : o = FreshObject /\ p = creator[id].pod
      BY Zenon, <1>1, <2>1, FreshIsUnused
    <2>3. PICK bs \in SUBSET Backends : Open(o, p, id, bs) /\ CreatorGoes(id, "recheck", o)
      BY Zenon, <1>3, <2>2
    <2>4. /\ o # NoObject
          /\ \A k \in SessionIDs : creator[k].obj # o
          /\ \A q \in Pods, k \in SessionIDs : cache[q][k] # o /\ flight[q][k].obj # o
      BY Zenon, <2>1, <2>2, FreshIsUnused, SessionAssumption
    <2>5. /\ objects' \in [Objects -> Object]
          /\ OpenFor(o, p, id)'
          /\ CachedIsOpen'
          /\ \A q \in Pods, k \in SessionIDs, x \in Objects :
               OpenFor(x, q, k) /\ x # o => OpenFor(x, q, k)'
          /\ \A x \in Objects : objects[x].state = "closed" /\ x # o =>
               objects'[x].state = "closed" /\ objects'[x].pod = objects[x].pod
      BY Zenon, <2>1, <2>3, <2>4, OpenPreserves
    <2>6. /\ creator' \in [SessionIDs -> Creator]
          /\ creator'[id] = [pc |-> "recheck", pod |-> p, obj |-> o]
          /\ \A k \in SessionIDs : k # id => creator'[k] = creator[k]
      BY Zenon, <2>2, <2>3 DEF SInv, Types, Creator, Ref, CreatorGoes
    <2>7. Types'
      BY Zenon, <1>1, <2>1, <2>5, <2>6 DEF SInv, Types
    <2>8. CreatorOwns'
      <3>1. ASSUME NEW k \in SessionIDs, k # id, creator'[k].obj # NoObject
            PROVE  CreatorOwns!(k)'
        <4>1. creator'[k] = creator[k] /\ creator[k].obj # o
          BY Zenon, <2>4, <2>6, <3>1
        <4>2. PICK x \in Objects, q \in Pods : x = creator[k].obj /\ q = creator[k].pod
          BY Zenon, <3>1, <4>1 DEF SInv, CreatorOwns, OpenFor
        <4>3. OpenFor(x, q, k)'
          BY Zenon, <2>5, <3>1, <4>1, <4>2 DEF SInv, CreatorOwns
        <4> QED
          BY <1>1, <2>1, <3>1, <4>1, <4>2, <4>3 DEF SInv, CreatorOwns, OpenFor
      <3>2. CreatorOwns!(id)'
        BY <1>1, <2>1, <2>4, <2>5, <2>6 DEF OpenFor
      <3> QED
        BY Zenon, <3>1, <3>2 DEF CreatorOwns
    <2>9. CreatorHolds'
      <3>1. /\ creator'[id].pc = "recheck" /\ creator'[id].obj = o
            /\ creator'[id].pod = p /\ p \in Pods /\ o # NoObject
        BY SMTT(30), <1>1, <2>4, <2>6
      <3> QED
        BY Zenon, <2>6, <3>1 DEF SInv, CreatorHolds
    <2>10. FlightOwns'
      <3> SUFFICES ASSUME NEW q \in Pods, NEW k \in SessionIDs
                   PROVE  FlightOwns!(q, k)'
        BY Zenon DEF FlightOwns
      <3> QED
        BY <1>1, <2>1, <2>4, <2>5 DEF SInv, FlightOwns, OpenFor
    <2>11. LateFlights'
      BY <1>1, <2>6 DEF SInv, LateFlights, Present
    <2> QED
      BY Zenon, <2>5, <2>7, <2>8, <2>9, <2>10, <2>11 DEF SInv
  <1> QED
    BY Zenon, <1>2, <1>3 DEF MakeSession

-----------------------------------------------------------------------------
(* Steps that close sessions, or none at all.                               *)

\* The restore of a flight that nobody else refers to.
Restored(p, id) == flight[p][id].pc \in {"writeback", "add", "winner"}

\* No two owners share an object.
LEMMA CreatorAlone ==
  ASSUME SInv, NEW k \in SessionIDs, creator[k].obj # NoObject,
         NEW q \in Pods, NEW j \in SessionIDs
  PROVE  cache[q][j] # creator[k].obj /\ flight[q][j].obj # creator[k].obj
  <1>1. /\ OpenFor(creator[k].obj, creator[k].pod, k)
        /\ cache[q][k] # creator[k].obj /\ flight[q][k].obj # creator[k].obj
    BY Zenon DEF SInv, CreatorOwns
  <1>2. ASSUME cache[q][j] = creator[k].obj PROVE FALSE
    <2>1. Cached(q, j)
      BY Zenon, <1>2 DEF Cached
    <2>2. objects[cache[q][j]].id = j
      BY Zenon, <2>1 DEF SInv, CachedIsOpen
    <2> QED
      BY Zenon, <1>1, <1>2, <2>2 DEF OpenFor
  <1>3. ASSUME flight[q][j].obj = creator[k].obj PROVE FALSE
    <2>1. \/ OpenFor(flight[q][j].obj, q, j)
          \/ objects[flight[q][j].obj].state = "closed"
      BY Zenon, <1>3 DEF SInv, FlightOwns
    <2> QED
      BY Zenon, <1>1, <1>3, <2>1 DEF OpenFor
  <1> QED
    BY Zenon, <1>2, <1>3

LEMMA CreatorsDiffer ==
  ASSUME SInv, NEW k \in SessionIDs, NEW j \in SessionIDs, k # j,
         creator[k].obj # NoObject
  PROVE  creator[j].obj # creator[k].obj
  <1>1. OpenFor(creator[k].obj, creator[k].pod, k)
    BY Zenon DEF SInv, CreatorOwns
  <1>2. ASSUME creator[j].obj = creator[k].obj PROVE FALSE
    <2>1. OpenFor(creator[j].obj, creator[j].pod, j)
      BY Zenon, <1>2 DEF SInv, CreatorOwns
    <2> QED
      BY Zenon, <1>1, <1>2, <2>1 DEF OpenFor
  <1> QED
    BY Zenon, <1>2

LEMMA EntriesDiffer ==
  ASSUME SInv, NEW p \in Pods, NEW k \in SessionIDs, Cached(p, k),
         NEW q \in Pods, NEW j \in SessionIDs, cache[q][j] = cache[p][k]
  PROVE  q = p /\ j = k
  <1>1. Cached(q, j)
    BY Zenon DEF Cached
  <1> QED
    BY <1>1 DEF SInv, CachedIsOpen

LEMMA RestoredAlone ==
  ASSUME SInv, NEW p \in Pods, NEW k \in SessionIDs, Restored(p, k),
         NEW q \in Pods, NEW j \in SessionIDs
  PROVE  /\ cache[q][j] # flight[p][k].obj
         /\ q # p \/ j # k => flight[q][j].obj # flight[p][k].obj
  <1>1. /\ OpenFor(flight[p][k].obj, p, k) /\ cache[p][k] # flight[p][k].obj
        /\ flight[p][k].obj # NoObject
    BY Zenon DEF SInv, FlightOwns, Restored
  <1>2. ASSUME cache[q][j] = flight[p][k].obj PROVE FALSE
    <2>1. Cached(q, j)
      BY Zenon, <1>1, <1>2 DEF Cached
    <2>2. objects[cache[q][j]].id = j /\ objects[cache[q][j]].pod = q
      BY Zenon, <2>1 DEF SInv, CachedIsOpen
    <2> QED
      BY Zenon, <1>1, <1>2, <2>2 DEF OpenFor
  <1>3. ASSUME q # p \/ j # k, flight[q][j].obj = flight[p][k].obj PROVE FALSE
    <2>1. \/ OpenFor(flight[q][j].obj, q, j)
          \/ objects[flight[q][j].obj].state = "closed"
      BY Zenon, <1>1, <1>3 DEF SInv, FlightOwns
    <2> QED
      BY Zenon, <1>1, <1>3, <2>1 DEF OpenFor
  <1> QED
    BY Zenon, <1>2, <1>3

\* What closing leaves alone.
LEMMA ClosePreserves ==
  ASSUME SInv, NEW os \in SUBSET Objects, Close(os)
  PROVE  /\ objects' \in [Objects -> Object]
         /\ \A x \in Objects : x \notin os => objects'[x] = objects[x]
         /\ \A x \in os : objects'[x].state = "closed" /\ objects'[x].pod = "none"
  <1>1. objects \in [Objects -> Object]
    BY Zenon DEF SInv, Types
  <1> QED
    BY Zenon, <1>1, CloseEffect

LEMMA EntryStays ==
  ASSUME SInv, NEW os \in SUBSET Objects, Close(os),
         NEW q \in Pods, NEW k \in SessionIDs,
         cache'[q][k] # NoObject => /\ OpenFor(cache'[q][k], q, k)
                                    /\ cache'[q][k] \notin os
  PROVE  CachedIsOpen!(q, k)'
  BY Zenon, ClosePreserves DEF OpenFor, Cached, IsOpen

LEMMA CreatorStays ==
  ASSUME SInv, NEW os \in SUBSET Objects, Close(os), NEW k \in SessionIDs,
         creator'[k].obj # NoObject =>
           /\ creator'[k].obj = creator[k].obj /\ creator'[k].pod = creator[k].pod
           /\ creator[k].obj \notin os
           /\ \A q \in Pods : cache'[q][k] # creator[k].obj
                              /\ flight'[q][k].obj # creator[k].obj
  PROVE  CreatorOwns!(k)'
  <1>1. ASSUME creator'[k].obj # NoObject
        PROVE  /\ creator[k].pod \in Pods /\ OpenFor(creator[k].obj, creator[k].pod, k)
               /\ creator'[k].obj = creator[k].obj /\ creator'[k].pod = creator[k].pod
               /\ creator[k].obj \notin os
    BY Zenon, <1>1 DEF SInv, CreatorOwns
  <1> QED
    BY <1>1, ClosePreserves DEF OpenFor

\* A flight that did not move, and whose restored object is left alone.
LEMMA FlightStays ==
  ASSUME SInv, NEW os \in SUBSET Objects, Close(os),
         NEW q \in Pods, NEW k \in SessionIDs, flight'[q][k] = flight[q][k],
         Restored(q, k) => /\ flight[q][k].obj \notin os
                           /\ cache'[q][k] # flight[q][k].obj
  PROVE  FlightOwns!(q, k)'
  <1>1. FlightOwns!(q, k)
    BY Zenon DEF SInv, FlightOwns
  <1>2. /\ \A x \in Objects : x \notin os => objects'[x] = objects[x]
        /\ \A x \in os : objects'[x].state = "closed" /\ objects'[x].pod = "none"
    BY Zenon, ClosePreserves
  <1> QED
    BY Zenon, <1>1, <1>2 DEF OpenFor, Restored

\* A step that closes nothing closes the empty set.
LEMMA ClosesNothing ==
  ASSUME SInv, UNCHANGED objects
  PROVE  Close({})
  BY Zenon DEF SInv, Types, Close

LEMMA CreatorDrops ==
  ASSUME SInv, NEW id \in SessionIDs, NEW pc \in {"cleanup", "failed"},
         creator[id].pc # "unused", creator[id].obj # NoObject,
         CreatorGoes(id, pc, NoObject), Close({creator[id].obj}),
         storage' \in [SessionIDs -> Metadata],
         \A k \in SessionIDs : ~Present(k) => ~Present(k)',
         UNCHANGED <<cache, flight, notifier>>
  PROVE  SInv'
  <1>1. PICK o \in Objects : o = creator[id].obj
    BY Zenon DEF SInv, CreatorOwns, OpenFor
  <1>2. Close({o}) /\ {o} \in SUBSET Objects
    BY Zenon, <1>1
  <1>3. /\ creator' \in [SessionIDs -> Creator]
        /\ creator'[id] = [pc |-> pc, pod |-> creator[id].pod, obj |-> NoObject]
        /\ \A k \in SessionIDs : k # id => creator'[k] = creator[k]
    BY Zenon DEF SInv, Types, Creator, Ref, CreatorGoes
  <1>4. Types'
    BY Zenon, <1>2, <1>3, ClosePreserves DEF SInv, Types
  <1>5. CachedIsOpen'
    <2> SUFFICES ASSUME NEW q \in Pods, NEW k \in SessionIDs
                 PROVE  CachedIsOpen!(q, k)'
      BY Zenon DEF CachedIsOpen
    <2>1. cache[q][k] # o
      BY Zenon, <1>1, CreatorAlone
    <2>2. cache'[q][k] # NoObject => OpenFor(cache'[q][k], q, k) /\ cache'[q][k] \notin {o}
      BY <2>1 DEF SInv, CachedIsOpen, Cached, IsOpen, OpenFor
    <2> QED
      BY <1>2, <2>2, EntryStays
  <1>6. CreatorOwns'
    <2> SUFFICES ASSUME NEW k \in SessionIDs
                 PROVE  CreatorOwns!(k)'
      BY Zenon DEF CreatorOwns
    <2>1. k # id => creator[k].obj \notin {o}
      BY Zenon, <1>1, CreatorsDiffer
    <2>2. creator'[k].obj # NoObject =>
           /\ creator'[k].obj = creator[k].obj /\ creator'[k].pod = creator[k].pod
           /\ creator[k].obj \notin {o}
           /\ \A q \in Pods : cache'[q][k] # creator[k].obj
                              /\ flight'[q][k].obj # creator[k].obj
      BY <1>3, <2>1, CreatorAlone
    <2> QED
      BY Zenon, <1>2, <2>2, CreatorStays
  <1>7. CreatorHolds'
    BY <1>3 DEF SInv, CreatorHolds
  <1>8. FlightOwns'
    <2> SUFFICES ASSUME NEW q \in Pods, NEW k \in SessionIDs
                 PROVE  FlightOwns!(q, k)'
      BY Zenon DEF FlightOwns
    <2>1. flight[q][k].obj # o
      BY Zenon, <1>1, CreatorAlone
    <2>2. Restored(q, k) => flight[q][k].obj \notin {o} /\ cache'[q][k] # flight[q][k].obj
      BY Zenon, <2>1, RestoredAlone
    <2> QED
      BY Zenon, <1>2, <2>2, FlightStays
  <1>9. LateFlights'
    BY <1>3 DEF SInv, LateFlights
  <1> QED
    BY Zenon, <1>4, <1>5, <1>6, <1>7, <1>8, <1>9 DEF SInv

\* A registration that goes on with its object.
LEMMA CreatorKeeps ==
  ASSUME SInv, NEW id \in SessionIDs, NEW pc \in {"store", "caching"},
         creator[id].pc # "unused", creator[id].obj # NoObject,
         CreatorGoes(id, pc, creator[id].obj),
         storage' \in [SessionIDs -> Metadata],
         \A k \in SessionIDs : ~Present(k) => ~Present(k)',
         UNCHANGED <<objects, cache, flight, notifier>>
  PROVE  SInv'
  <1>1. creator' \in [SessionIDs -> Creator]
    BY Zenon DEF SInv, Types, Creator, Ref, CreatorGoes
  <1>2. /\ \A k \in SessionIDs : creator[k].pc # "unused" => creator'[k].pc # "unused"
        /\ \A k \in SessionIDs : creator'[k].pc # "unused" => creator'[k].pod \in Pods
    BY Zenon DEF SInv, Types, CreatorGoes, CreatorHolds
  <1>3. \A k \in SessionIDs :
           \/ /\ creator'[k].obj = creator[k].obj /\ creator'[k].pod = creator[k].pod
              /\ creator[k].obj # NoObject
           \/ /\ creator'[k].obj = NoObject
              /\ creator'[k].pc \notin {"recheck", "store", "caching"}
    BY Zenon DEF SInv, Types, CreatorHolds, CreatorGoes
  <1> QED
    BY Zenon, <1>1, <1>2, <1>3, StorageStep DEF SInv, Types

LEMMA RecheckPreserves ==
  ASSUME SInv, NEW id \in SessionIDs, Recheck(id)
  PROVE  SInv'
  <1>1. /\ creator[id].pc = "recheck" /\ creator[id].obj # NoObject
        /\ UNCHANGED <<cache, flight, notifier>>
    BY Zenon DEF Recheck, SInv, CreatorHolds
  <1>2. storage' = storage
    BY Zenon, LoadEffect DEF Recheck
  <1>3. /\ storage' \in [SessionIDs -> Metadata]
        /\ \A k \in SessionIDs : ~Present(k) => ~Present(k)'
    BY Zenon, <1>2 DEF SInv, Types, Present
  <1>4. CASE CreatorGoes(id, "store", creator[id].obj) /\ UNCHANGED objects
    BY Zenon, <1>1, <1>3, <1>4, CreatorKeeps
  <1>5. CASE \E pc \in {"cleanup", "failed"} :
               CreatorGoes(id, pc, NoObject) /\ Close({creator[id].obj})
    BY Zenon, <1>1, <1>3, <1>5, CreatorDrops
  <1> QED
    BY Zenon, <1>4, <1>5 DEF Recheck

LEMMA StoreMetadataPreserves ==
  ASSUME SInv, NEW id \in SessionIDs, StoreMetadata(id)
  PROVE  SInv'
  <1>1. /\ creator[id].pc = "store" /\ creator[id].obj # NoObject
        /\ UNCHANGED <<cache, flight, notifier>>
    BY Zenon DEF StoreMetadata, SInv, CreatorHolds
  <1>2. creator[id].obj \in Objects
    BY Zenon, <1>1 DEF SInv, CreatorOwns, OpenFor
  <1>3. GetMetadata(creator[id].obj) \in Metadata
    BY Zenon, <1>2, MetadataType DEF SInv, Types
  <1>4. /\ storage' \in [SessionIDs -> Metadata]
        /\ \A k \in SessionIDs : ~Present(k) => ~Present(k)'
    BY Zenon, <1>3, UpdateEffect DEF StoreMetadata, SInv, Types
  <1>5. CASE CreatorGoes(id, "caching", creator[id].obj) /\ UNCHANGED objects
    BY Zenon, <1>1, <1>4, <1>5, CreatorKeeps
  <1>6. CASE \E pc \in {"cleanup", "failed"} :
               CreatorGoes(id, pc, NoObject) /\ Close({creator[id].obj})
    BY Zenon, <1>1, <1>4, <1>6, CreatorDrops
  <1> QED
    BY Zenon, <1>5, <1>6 DEF StoreMetadata

\* Add(p, id, o) closes the sessions os, entries that it removes.
AddCloses(p, id, o, os) ==
  /\ Close(os)
  /\ \A x \in os : \E k \in SessionIDs : cache[p][k] = x
  /\ cache' \in [Pods -> [SessionIDs -> Ref]] /\ cache'[p][id] = o
  /\ \A q \in Pods, k \in SessionIDs : q # p \/ k # id =>
       \/ cache'[q][k] = NoObject /\ (Cached(q, k) => cache[q][k] \in os)
       \/ cache'[q][k] = cache[q][k] /\ cache[q][k] \notin os
  /\ Victims(p, id) = {} => os = {}

LEMMA AddEffect ==
  ASSUME SInv, NEW p \in Pods, NEW id \in SessionIDs, NEW o \in Objects, Add(p, id, o)
  PROVE  \E os \in SUBSET Objects : AddCloses(p, id, o, os)
  <1> DEFINE gone == Victims(p, id)
             os == {cache[p][k] : k \in gone} \cap Objects
  <1>1. gone \in SUBSET SessionIDs
    BY Zenon DEF Victims
  <1>2. cache \in [Pods -> [SessionIDs -> Ref]]
    BY Zenon DEF SInv, Types
  <1>3. cache' = [cache EXCEPT ![p] =
                    [k \in SessionIDs |-> IF k = id THEN o
                                          ELSE IF k \in gone THEN NoObject
                                          ELSE cache[p][k]]]
    BY Zenon DEF Add
  <1>4. Close(os)
    BY Zenon DEF Add, Close
  <1> HIDE DEF gone
  <1>5. cache' \in [Pods -> [SessionIDs -> Ref]] /\ cache'[p][id] = o
    BY Zenon, <1>2, <1>3 DEF Ref
  <1>6. ASSUME NEW q \in Pods, NEW k \in SessionIDs, q # p \/ k # id, cache'[q][k] # NoObject
        PROVE  cache'[q][k] = cache[q][k] /\ cache[q][k] \notin os
    <2>1. cache'[q][k] = cache[q][k] /\ (q = p => k \notin gone)
      BY Zenon, <1>2, <1>3, <1>6
    <2>2. Cached(q, k)
      BY Zenon, <1>6, <2>1 DEF Cached
    <2>3. ASSUME NEW j \in gone, cache[p][j] = cache[q][k] PROVE FALSE
      BY <1>1, <2>1, <2>2, <2>3, EntriesDiffer
    <2> QED
      BY Zenon, <2>1, <2>3
  <1>7. ASSUME NEW q \in Pods, NEW k \in SessionIDs, q # p \/ k # id, cache'[q][k] = NoObject,
               Cached(q, k)
        PROVE  cache[q][k] \in os
    <2>1. q = p /\ k \in gone /\ cache[q][k] \in Ref
      BY Zenon, <1>2, <1>3, <1>7 DEF Cached
    <2> QED
      BY Zenon, <1>7, <2>1 DEF Cached, Ref
  <1>8. /\ \A x \in os : \E k \in SessionIDs : cache[p][k] = x
        /\ gone = {} => os = {}
    BY Zenon, <1>1
  <1>9. AddCloses(p, id, o, os)
    <2> HIDE DEF os
    <2> QED
      BY Zenon, <1>4, <1>5, <1>6, <1>7, <1>8 DEF AddCloses, gone
  <1>10. os \in SUBSET Objects
    OBVIOUS
  <1> HIDE DEF os
  <1> QED
    BY Zenon, <1>9, <1>10

LEMMA EntryOpen ==
  ASSUME SInv, NEW q \in Pods, NEW k \in SessionIDs, cache[q][k] # NoObject
  PROVE  OpenFor(cache[q][k], q, k)
  BY DEF SInv, CachedIsOpen, Cached, IsOpen, OpenFor

LEMMA CacheSessionPreserves ==
  ASSUME SInv, NEW id \in SessionIDs, CacheSession(id)
  PROVE  SInv'
  <1>1. /\ creator[id].pc = "caching" /\ creator[id].obj # NoObject
        /\ UNCHANGED <<storage, flight, notifier>>
    BY Zenon DEF CacheSession, SInv, CreatorHolds
  <1>2. PICK o \in Objects, p \in Pods : /\ o = creator[id].obj /\ p = creator[id].pod
                                         /\ OpenFor(o, p, id)
    BY Zenon, <1>1 DEF SInv, CreatorOwns, OpenFor
  <1>3. PICK os \in SUBSET Objects : AddCloses(p, id, o, os)
    <2>1. Add(p, id, o)
      BY Zenon, <1>2 DEF CacheSession
    <2> QED
      BY Zenon, <2>1, AddEffect
  <1>4. PICK pc \in {"done", "failed"} : CreatorGoes(id, pc, NoObject)
    BY Zenon DEF CacheSession
  <1>5. /\ creator' \in [SessionIDs -> Creator]
        /\ creator'[id] = [pc |-> pc, pod |-> p, obj |-> NoObject]
        /\ \A k \in SessionIDs : k # id => creator'[k] = creator[k]
    BY Zenon, <1>2, <1>4 DEF SInv, Types, Creator, Ref, CreatorGoes
  <1>6. Types'
    BY Zenon, <1>1, <1>3, <1>5, ClosePreserves DEF AddCloses, SInv, Types
  <1>7. ASSUME NEW k \in SessionIDs, creator[k].obj # NoObject
        PROVE  /\ creator[k].obj \notin os
               /\ k # id => \A q \in Pods : cache'[q][k] # creator[k].obj
    BY <1>3, <1>7, CreatorAlone DEF AddCloses
  <1>8. CachedIsOpen'
    <2> SUFFICES ASSUME NEW q \in Pods, NEW k \in SessionIDs
                 PROVE  CachedIsOpen!(q, k)'
      BY Zenon DEF CachedIsOpen
    <2>1. CASE q = p /\ k = id
      BY <1>1, <1>2, <1>3, <1>7, <2>1, EntryStays DEF AddCloses
    <2>2. CASE q # p \/ k # id
      <3>1. cache'[q][k] # NoObject => OpenFor(cache'[q][k], q, k) /\ cache'[q][k] \notin os
        BY Zenon, <1>3, <2>2, EntryOpen DEF AddCloses
      <3> QED
        BY <1>3, <3>1, EntryStays DEF AddCloses
    <2> QED
      BY Zenon, <2>1, <2>2
  <1>9. CreatorOwns'
    <2> SUFFICES ASSUME NEW k \in SessionIDs
                 PROVE  CreatorOwns!(k)'
      BY Zenon DEF CreatorOwns
    <2>1. creator'[k].obj # NoObject =>
           /\ creator'[k].obj = creator[k].obj /\ creator'[k].pod = creator[k].pod
           /\ creator[k].obj \notin os
           /\ \A q \in Pods : cache'[q][k] # creator[k].obj
                              /\ flight'[q][k].obj # creator[k].obj
      BY <1>1, <1>5, <1>7, CreatorAlone
    <2> QED
      BY Zenon, <1>3, <2>1, CreatorStays DEF AddCloses
  <1>10. CreatorHolds'
    BY <1>5 DEF SInv, CreatorHolds
  <1>11. FlightOwns'
    <2> SUFFICES ASSUME NEW q \in Pods, NEW k \in SessionIDs
                 PROVE  FlightOwns!(q, k)'
      BY Zenon DEF FlightOwns
    <2>1. flight[q][k].obj # o
      BY Zenon, <1>1, <1>2, CreatorAlone
    <2>2. ASSUME Restored(q, k) PROVE flight[q][k].obj \notin os
      BY <1>3, <2>2, RestoredAlone DEF AddCloses
    <2>3. ASSUME Restored(q, k) PROVE cache'[q][k] # flight[q][k].obj
      <3>1. flight[q][k].obj # NoObject /\ cache[q][k] # flight[q][k].obj
        BY Zenon, <2>3, RestoredAlone DEF SInv, FlightOwns, Restored
      <3> QED
        BY Zenon, <1>3, <2>1, <3>1 DEF AddCloses
    <2> QED
      BY Zenon, <1>1, <1>3, <2>2, <2>3, FlightStays DEF AddCloses
  <1>12. LateFlights'
    BY <1>1, <1>5 DEF SInv, LateFlights, Present
  <1> QED
    BY Zenon, <1>6, <1>8, <1>9, <1>10, <1>11, <1>12 DEF SInv

LEMMA CreateSessionPreserves ==
  ASSUME SInv, NEW id \in SessionIDs, CreateSession(id)
  PROVE  SInv'
  BY Zenon, LoadPlaceholderPreserves, MakeSessionPreserves, RecheckPreserves,
     StoreMetadataPreserves, CacheSessionPreserves, CleanupPreserves DEF CreateSession

-----------------------------------------------------------------------------
(* The steps of Get.                                                        *)

\* What the new state f of a flight has to satisfy.
FlightFits(p, id, f) ==
  /\ f \in Flight
  /\ f.pc \in {"idle", "load", "restore"} <=> f.obj = NoObject
  /\ f.obj # NoObject =>
       \/ OpenFor(f.obj, p, id)
       \/ f.obj \in Objects /\ objects[f.obj].state = "closed" /\ objects[f.obj].pod = "none"
  /\ f.late => /\ creator[id].pc # "unused" /\ ~Present(id)
               /\ f.pc \in {"check", "evict", "load", "served"}
               /\ f.pc = "served" => f.unsure

\* The sessions os may be closed and the entries changed without an owner
\* losing its object.
OwnersKeep(p, id, f, os) ==
  /\ cache' \in [Pods -> [SessionIDs -> Ref]]
  /\ \A q \in Pods, k \in SessionIDs : cache'[q][k] # NoObject =>
       OpenFor(cache'[q][k], q, k) /\ cache'[q][k] \notin os
  /\ \A k \in SessionIDs : creator[k].obj # NoObject =>
       /\ creator[k].obj \notin os /\ creator[k].obj # f.obj
       /\ \A q \in Pods : cache'[q][k] # creator[k].obj
  /\ \A q \in Pods, k \in SessionIDs : (q # p \/ k # id) /\ Restored(q, k) =>
       flight[q][k].obj \notin os /\ cache'[q][k] # flight[q][k].obj
  /\ f.pc \in {"writeback", "add", "winner"} =>
       OpenFor(f.obj, p, id) /\ f.obj \notin os /\ cache'[p][id] # f.obj

LEMMA FlightMoves ==
  ASSUME SInv, NEW p \in Pods, NEW id \in SessionIDs, NEW f, NEW os \in SUBSET Objects,
         Close(os), FlightGoes(p, id, f), FlightFits(p, id, f), OwnersKeep(p, id, f, os),
         storage' \in [SessionIDs -> Metadata],
         \A k \in SessionIDs : ~Present(k) => ~Present(k)',
         UNCHANGED <<creator, notifier>>
  PROVE  SInv'
  <1>1. /\ flight' \in [Pods -> [SessionIDs -> Flight]]
        /\ flight'[p][id] = f
        /\ \A q \in Pods, k \in SessionIDs : q # p \/ k # id => flight'[q][k] = flight[q][k]
    BY Zenon DEF SInv, Types, FlightGoes, FlightFits
  <1>2. Types'
    BY Zenon, <1>1, ClosePreserves DEF SInv, Types, OwnersKeep
  <1>3. CachedIsOpen'
    <2> SUFFICES ASSUME NEW q \in Pods, NEW k \in SessionIDs
                 PROVE  CachedIsOpen!(q, k)'
      BY Zenon DEF CachedIsOpen
    <2> QED
      BY EntryStays DEF OwnersKeep
  <1>4. CreatorOwns'
    <2> SUFFICES ASSUME NEW k \in SessionIDs
                 PROVE  CreatorOwns!(k)'
      BY Zenon DEF CreatorOwns
    <2>1. ASSUME creator[k].obj # NoObject, NEW q \in Pods
          PROVE  flight'[q][k].obj # creator[k].obj
      BY <1>1, <2>1, CreatorAlone DEF OwnersKeep
    <2>2. creator'[k].obj # NoObject =>
           /\ creator'[k].obj = creator[k].obj /\ creator'[k].pod = creator[k].pod
           /\ creator[k].obj \notin os
           /\ \A q \in Pods : cache'[q][k] # creator[k].obj
                              /\ flight'[q][k].obj # creator[k].obj
      BY Zenon, <2>1 DEF OwnersKeep
    <2> QED
      BY Zenon, <2>2, CreatorStays
  <1>5. CreatorHolds'
    BY Zenon DEF SInv, CreatorHolds
  <1>6. FlightOwns'
    <2> SUFFICES ASSUME NEW q \in Pods, NEW k \in SessionIDs
                 PROVE  FlightOwns!(q, k)'
      BY Zenon DEF FlightOwns
    <2>1. CASE q # p \/ k # id
      BY <1>1, <2>1, FlightStays DEF OwnersKeep
    <2>2. CASE q = p /\ k = id
      <3>1. /\ \A x \in Objects : x \notin os => objects'[x] = objects[x]
            /\ \A x \in os : objects'[x].state = "closed" /\ objects'[x].pod = "none"
        BY Zenon, ClosePreserves
      <3>2. f.obj # NoObject =>
              \/ f.obj \in Objects /\ objects'[f.obj].state = "open"
                 /\ objects'[f.obj].pod = p /\ objects'[f.obj].id = id
              \/ f.obj \in Objects /\ objects'[f.obj].state = "closed"
                 /\ objects'[f.obj].pod = "none"
        BY Zenon, <3>1 DEF FlightFits, OpenFor
      <3>3. f.pc \in {"writeback", "add", "winner"} =>
              /\ f.obj \in Objects /\ objects'[f.obj].state = "open"
              /\ objects'[f.obj].pod = p /\ objects'[f.obj].id = id
              /\ cache'[p][id] # f.obj
        BY Zenon, <3>1 DEF OwnersKeep, OpenFor
      <3>4. f.pc \in {"idle", "load", "restore"} <=> f.obj = NoObject
        BY Zenon DEF FlightFits
      <3> QED
        BY Zenon, <1>1, <2>2, <3>2, <3>3, <3>4 DEF OpenFor
    <2> QED
      BY Zenon, <2>1, <2>2
  <1>7. LateFlights'
    <2> SUFFICES ASSUME NEW q \in Pods, NEW k \in SessionIDs
                 PROVE  LateFlights!(q, k)'
      BY Zenon DEF LateFlights
    <2>1. CASE q # p \/ k # id
      BY <1>1, <2>1 DEF SInv, LateFlights
    <2>2. CASE q = p /\ k = id
      BY Zenon, <1>1, <2>2 DEF FlightFits
    <2> QED
      BY Zenon, <2>1, <2>2
  <1> QED
    BY Zenon, <1>2, <1>3, <1>4, <1>5, <1>6, <1>7 DEF SInv

\* A step of a flight alone, over any step of the storage.
LEMMA FlightMovesAlone ==
  ASSUME SInv, NEW p \in Pods, NEW id \in SessionIDs, NEW f,
         FlightGoes(p, id, f), FlightFits(p, id, f),
         f.obj \in {NoObject, cache[p][id], flight[p][id].obj},
         f.pc \in {"writeback", "add", "winner"} =>
           Restored(p, id) /\ f.obj = flight[p][id].obj,
         storage' \in [SessionIDs -> Metadata],
         \A k \in SessionIDs : ~Present(k) => ~Present(k)',
         UNCHANGED <<objects, cache, creator, notifier>>
  PROVE  SInv'
  <1>1. Close({})
    BY Zenon, ClosesNothing
  <1>2. f.pc \in {"writeback", "add", "winner"} =>
          OpenFor(f.obj, p, id) /\ cache'[p][id] # f.obj
    BY Zenon, RestoredAlone DEF SInv, FlightOwns, Restored
  <1>3. \A k \in SessionIDs : creator[k].obj # NoObject => creator[k].obj # f.obj
    BY Zenon, CreatorAlone
  <1>4. \A q \in Pods, k \in SessionIDs : cache'[q][k] # NoObject => OpenFor(cache'[q][k], q, k)
    BY Zenon, EntryOpen
  <1>5. \A q \in Pods, k \in SessionIDs : Restored(q, k) => cache'[q][k] # flight[q][k].obj
    BY Zenon, RestoredAlone
  <1>6. \A k \in SessionIDs : creator[k].obj # NoObject =>
          \A q \in Pods : cache'[q][k] # creator[k].obj
    BY Zenon, CreatorAlone
  <1>7. OwnersKeep(p, id, f, {})
    BY Zenon, <1>2, <1>3, <1>4, <1>5, <1>6 DEF OwnersKeep, SInv, Types
  <1> QED
    BY Zenon, <1>1, <1>7, FlightMoves

LEMMA NoFlightFits ==
  ASSUME NEW p \in Pods, NEW id \in SessionIDs
  PROVE  FlightFits(p, id, noFlight)
  BY Zenon DEF FlightFits, Flight, noFlight, Ref

\* The state of a flight, as SInv gives it.
LEMMA FlightType ==
  ASSUME SInv, NEW p \in Pods, NEW id \in SessionIDs
  PROVE  /\ flight[p][id] \in Flight
         /\ FlightOwns!(p, id)
         /\ LateFlights!(p, id)
  BY DEF SInv, Types, FlightOwns, LateFlights

\* What a step that writes nothing leaves of the storage.
LEMMA ReadOnly ==
  ASSUME SInv, storage' = storage
  PROVE  /\ storage' \in [SessionIDs -> Metadata]
         /\ \A k \in SessionIDs : ~Present(k) => ~Present(k)'
  BY Zenon DEF SInv, Types, Present

LEMMA BeginGetPreserves ==
  ASSUME SInv, NEW p \in Pods, NEW id \in SessionIDs, BeginGet(p, id)
  PROVE  SInv'
  <1> DEFINE began == [noFlight EXCEPT !.late = ~Present(id)]
             hit == [began EXCEPT !.pc = "check", !.obj = cache[p][id]]
             miss == [began EXCEPT !.pc = "load"]
  <1>1. /\ creator[id].pc # "unused"
        /\ UNCHANGED <<storage, objects, cache, creator, notifier>>
    BY Zenon DEF BeginGet
  <1>2. CASE Cached(p, id) /\ FlightGoes(p, id, hit)
    <2>1. OpenFor(cache[p][id], p, id) /\ cache[p][id] # NoObject
      BY Zenon, <1>2, EntryOpen DEF Cached
    <2>2. cache[p][id] \in Ref
      BY Zenon DEF SInv, Types
    <2>3. hit \in Flight
      BY Zenon, <2>2 DEF Flight, noFlight, Present
    <2>4. hit.pc = "check" /\ hit.obj = cache[p][id] /\ hit.late = ~Present(id)
      BY Zenon DEF noFlight
    <2> HIDE DEF hit
    <2>5. FlightFits(p, id, hit)
      BY Zenon, <1>1, <2>1, <2>3, <2>4 DEF FlightFits
    <2> QED
      BY Zenon, <1>1, <1>2, <2>4, <2>5, ReadOnly, FlightMovesAlone
  <1>3. CASE FlightGoes(p, id, miss)
    <2>1. miss \in Flight
      BY Zenon DEF Flight, noFlight, Present, Ref
    <2>2. miss.pc = "load" /\ miss.obj = NoObject /\ miss.late = ~Present(id)
      BY Zenon DEF noFlight
    <2> HIDE DEF miss
    <2>3. FlightFits(p, id, miss)
      BY Zenon, <1>1, <2>1, <2>2 DEF FlightFits
    <2> QED
      BY Zenon, <1>1, <1>3, <2>2, <2>3, ReadOnly, FlightMovesAlone
  <1> QED
    BY Zenon, <1>2, <1>3 DEF BeginGet

\* The states that the steps of a flight lead to.
Evicting(f) == [f EXCEPT !.pc = "evict"]
ServedWith(f, b) == [f EXCEPT !.pc = "served", !.unsure = b]
Restoring(f, bs) == [f EXCEPT !.pc = "restore", !.loaded = bs]

LEMMA EvictingState ==
  ASSUME NEW f \in Flight
  PROVE  /\ Evicting(f) \in Flight /\ Evicting(f).pc = "evict"
         /\ Evicting(f).obj = f.obj /\ Evicting(f).late = f.late
  BY Zenon DEF Evicting, Flight

LEMMA ServedState ==
  ASSUME NEW f \in Flight, NEW b \in BOOLEAN
  PROVE  /\ ServedWith(f, b) \in Flight /\ ServedWith(f, b).pc = "served"
         /\ ServedWith(f, b).obj = f.obj /\ ServedWith(f, b).late = f.late
         /\ ServedWith(f, b).unsure = b
  BY Zenon DEF ServedWith, Flight

LEMMA RestoringState ==
  ASSUME NEW f \in Flight, NEW bs \in SUBSET Backends
  PROVE  /\ Restoring(f, bs) \in Flight /\ Restoring(f, bs).pc = "restore"
         /\ Restoring(f, bs).obj = f.obj /\ Restoring(f, bs).late = f.late
  BY Zenon DEF Restoring, Flight

LEMMA checkSessionPreserves ==
  ASSUME SInv, NEW p \in Pods, NEW id \in SessionIDs, checkSession(p, id)
  PROVE  SInv'
  <1>1. PICK f \in Flight : f = flight[p][id]
    BY Zenon, FlightType
  <1>2. /\ f.pc = "check" /\ UNCHANGED <<objects, cache, creator, notifier>>
        /\ f.obj # NoObject
        /\ f.late => ~Present(id) /\ creator[id].pc # "unused"
    BY Zenon, <1>1, FlightType DEF checkSession, cacheVars
  <1>3. PICK r \in Outcomes :
          /\ Load(id, r)
          /\ FlightGoes(p, id, IF r = "missing" \/ (r = "ok" /\ Expired(id, f.obj))
                               THEN Evicting(f) ELSE ServedWith(f, r = "error"))
    BY Zenon, <1>1 DEF checkSession, Evicting, ServedWith
  <1>4. storage' = storage
    BY Zenon, <1>3, LoadEffect
  <1>5. CASE FlightGoes(p, id, Evicting(f))
    <2>1. FlightFits(p, id, Evicting(f))
      BY <1>1, <1>2, EvictingState, FlightType DEF FlightFits
    <2>2. Evicting(f).obj = flight[p][id].obj /\ Evicting(f).pc = "evict"
      BY Zenon, <1>1, EvictingState
    <2> QED
      BY Zenon, <1>2, <1>4, <1>5, <2>1, <2>2, ReadOnly, FlightMovesAlone
  <1>6. ASSUME NEW b \in BOOLEAN, FlightGoes(p, id, ServedWith(f, b)), b \/ Present(id)
        PROVE  SInv'
    <2>1. FlightFits(p, id, ServedWith(f, b))
      BY <1>1, <1>2, <1>6, ServedState, FlightType DEF FlightFits
    <2>2. ServedWith(f, b).obj = flight[p][id].obj /\ ServedWith(f, b).pc = "served"
      BY Zenon, <1>1, ServedState
    <2> QED
      BY Zenon, <1>2, <1>4, <1>6, <2>1, <2>2, ReadOnly, FlightMovesAlone
  <1>7. r # "missing" => (r = "error") \/ Present(id)
    BY Zenon, <1>3, LoadEffect DEF Outcomes
  <1>8. (r = "error") \in BOOLEAN
    OBVIOUS
  <1>9. \/ FlightGoes(p, id, Evicting(f))
        \/ r # "missing" /\ FlightGoes(p, id, ServedWith(f, r = "error"))
    BY <1>3, Zenon
  <1> QED
    BY <1>5, <1>6, <1>7, <1>8, <1>9, Zenon

LEMMA loadSessionPreserves ==
  ASSUME SInv, NEW p \in Pods, NEW id \in SessionIDs, loadSession(p, id)
  PROVE  SInv'
  <1>1. PICK f \in Flight, bs \in SUBSET Backends :
          f = flight[p][id] /\ bs = storage[id].backends
    BY Zenon, FlightType DEF SInv, Types, Metadata
  <1>2. /\ f.pc = "load" /\ f.obj = NoObject
        /\ UNCHANGED <<objects, cache, creator, notifier>>
        /\ f.late => ~Present(id)
    BY Zenon, <1>1, FlightType DEF loadSession, cacheVars
  <1>3. PICK r \in Outcomes :
          /\ Load(id, r)
          /\ FlightGoes(p, id, IF r = "ok" /\ storage[id].kind = "bound"
                               THEN Restoring(f, bs) ELSE noFlight)
    BY Zenon, <1>1 DEF loadSession, Restoring
  <1>4. storage' = storage /\ (r = "ok" => Present(id))
    BY Zenon, <1>3, LoadEffect
  <1>5. CASE FlightGoes(p, id, Restoring(f, bs)) /\ r = "ok"
    <2>1. FlightFits(p, id, Restoring(f, bs))
      BY <1>2, <1>4, <1>5, RestoringState DEF FlightFits
    <2>2. Restoring(f, bs).obj = NoObject /\ Restoring(f, bs).pc = "restore"
      BY Zenon, <1>2, RestoringState
    <2> QED
      BY Zenon, <1>2, <1>4, <1>5, <2>1, <2>2, ReadOnly, FlightMovesAlone
  <1>6. CASE FlightGoes(p, id, noFlight)
    BY Zenon, <1>2, <1>4, <1>6, NoFlightFits, ReadOnly, FlightMovesAlone DEF noFlight
  <1> QED
    BY <1>3, <1>5, <1>6, Zenon

LEMMA EndGetPreserves ==
  ASSUME SInv, NEW p \in Pods, NEW id \in SessionIDs, EndGet(p, id)
  PROVE  SInv'
  <1>1. /\ FlightGoes(p, id, noFlight)
        /\ UNCHANGED <<storage, objects, cache, creator, notifier>>
    BY Zenon DEF EndGet, cacheVars
  <1> QED
    BY Zenon, <1>1, NoFlightFits, ReadOnly, FlightMovesAlone DEF noFlight

LEMMA getHitEvictsPreserves ==
  ASSUME SInv, NEW p \in Pods, NEW id \in SessionIDs, getHitEvicts(p, id)
  PROVE  SInv'
  <1>1. PICK f \in Flight : f = flight[p][id]
    BY Zenon, FlightType
  <1>2. PICK o \in Objects : o = f.obj /\ o # NoObject
    <2>1. f.pc = "evict"
      BY Zenon, <1>1 DEF getHitEvicts
    <2>2. f.obj # NoObject
      BY Zenon, <1>1, <2>1, FlightType
    <2>3. f.obj \in Objects
      BY Zenon, <1>1, <2>2, FlightType DEF OpenFor
    <2> QED
      BY Zenon, <2>2, <2>3
  <1> DEFINE g == [f EXCEPT !.pc = "load", !.obj = NoObject]
  <1>3. /\ f.pc = "evict" /\ UNCHANGED <<storage, creator, notifier>>
        /\ EvictEntry(p, id, o) /\ FlightGoes(p, id, g)
    BY Zenon, <1>1, <1>2 DEF getHitEvicts
  <1>4. g \in Flight /\ g.pc = "load" /\ g.obj = NoObject /\ g.late = f.late
    BY Zenon DEF Flight, Ref
  <1> HIDE DEF g
  <1>5. FlightFits(p, id, g)
    BY Zenon, <1>1, <1>3, <1>4, FlightType DEF FlightFits
  <1>6. CASE cache[p][id] # o
    <2>1. UNCHANGED <<objects, cache>>
      BY Zenon, <1>3, <1>6 DEF EvictEntry, cacheVars
    <2> QED
      BY Zenon, <1>3, <1>4, <1>5, <2>1, ReadOnly, FlightMovesAlone
  <1>7. CASE cache[p][id] = o
    <2>1. /\ cache' = [cache EXCEPT ![p][id] = NoObject]
          /\ Close({o}) /\ {o} \in SUBSET Objects
      BY Zenon, <1>3, <1>7 DEF EvictEntry
    <2>2. cache \in [Pods -> [SessionIDs -> Ref]]
      BY Zenon DEF SInv, Types
    <2>3. /\ cache' \in [Pods -> [SessionIDs -> Ref]] /\ cache'[p][id] = NoObject
          /\ \A q \in Pods, k \in SessionIDs : q # p \/ k # id => cache'[q][k] = cache[q][k]
      BY Zenon, <2>1, <2>2 DEF Ref
    <2>4. ASSUME NEW q \in Pods, NEW k \in SessionIDs, cache'[q][k] # NoObject
          PROVE  OpenFor(cache'[q][k], q, k) /\ cache'[q][k] \notin {o}
      <3>1. (q # p \/ k # id) /\ cache'[q][k] = cache[q][k]
        BY Zenon, <2>3, <2>4
      <3>2. Cached(p, id)
        BY Zenon, <1>2, <1>7 DEF Cached
      <3>3. cache[q][k] # o
        BY <1>7, <3>1, <3>2, EntriesDiffer
      <3> QED
        BY Zenon, <2>4, <3>1, <3>3, EntryOpen
    <2>5. ASSUME NEW k \in SessionIDs, creator[k].obj # NoObject
          PROVE  /\ creator[k].obj \notin {o} /\ creator[k].obj # g.obj
                 /\ \A q \in Pods : cache'[q][k] # creator[k].obj
      BY <1>4, <1>7, <2>3, <2>5, CreatorAlone
    <2>6. ASSUME NEW q \in Pods, NEW k \in SessionIDs, q # p \/ k # id, Restored(q, k)
          PROVE  flight[q][k].obj \notin {o} /\ cache'[q][k] # flight[q][k].obj
      BY <1>7, <2>3, <2>6, RestoredAlone
    <2>7. OwnersKeep(p, id, g, {o})
      BY Zenon, <1>4, <2>3, <2>4, <2>5, <2>6 DEF OwnersKeep
    <2> QED
      BY Zenon, <1>3, <1>5, <2>1, <2>7, ReadOnly, FlightMoves
  <1> QED
    BY Zenon, <1>6, <1>7

LEMMA WriteBackPreserves ==
  ASSUME SInv, NEW p \in Pods, NEW id \in SessionIDs, WriteBack(p, id)
  PROVE  SInv'
  <1>1. PICK f \in Flight : f = flight[p][id]
    BY Zenon, FlightType
  <1>2. PICK o \in Objects : o = f.obj /\ OpenFor(o, p, id) /\ o # NoObject
    BY <1>1, FlightType DEF WriteBack, OpenFor
  <1>3. /\ f.pc = "writeback" /\ ~f.late /\ UNCHANGED <<cache, creator, notifier>>
        /\ Restored(p, id)
    BY Zenon, <1>1, FlightType DEF WriteBack, Restored
  <1> DEFINE g == [f EXCEPT !.pc = "add"]
  <1>4. PICK r \in Outcomes :
          /\ Update(id, GetMetadata(o), r)
          /\ IF r = "missing"
             THEN Close({o}) /\ FlightGoes(p, id, noFlight)
             ELSE FlightGoes(p, id, g) /\ UNCHANGED objects
    BY Zenon, <1>1, <1>2 DEF WriteBack
  <1>5. g \in Flight /\ g.pc = "add" /\ g.obj = o /\ ~g.late
    BY Zenon, <1>2, <1>3 DEF Flight
  <1> HIDE DEF g
  <1>6. GetMetadata(o) \in Metadata
    BY Zenon, MetadataType DEF SInv, Types
  <1>7. /\ storage' \in [SessionIDs -> Metadata]
        /\ \A k \in SessionIDs : ~Present(k) => ~Present(k)'
    BY Zenon, <1>4, <1>6, UpdateEffect DEF SInv, Types
  <1>8. CASE FlightGoes(p, id, g) /\ UNCHANGED objects
    <2>1. FlightFits(p, id, g)
      BY Zenon, <1>2, <1>5 DEF FlightFits
    <2> QED
      BY Zenon, <1>1, <1>2, <1>3, <1>5, <1>7, <1>8, <2>1, FlightMovesAlone
  <1>9. CASE Close({o}) /\ FlightGoes(p, id, noFlight)
    <2>1. \A q \in Pods, k \in SessionIDs : cache'[q][k] # NoObject =>
            OpenFor(cache'[q][k], q, k) /\ cache'[q][k] \notin {o}
      BY <1>1, <1>2, <1>3, RestoredAlone, EntryOpen
    <2>2. \A k \in SessionIDs : creator[k].obj # NoObject =>
            /\ creator[k].obj \notin {o} /\ creator[k].obj # noFlight.obj
            /\ \A q \in Pods : cache'[q][k] # creator[k].obj
      BY Zenon, <1>1, <1>2, <1>3, CreatorAlone DEF noFlight
    <2>3. \A q \in Pods, k \in SessionIDs : (q # p \/ k # id) /\ Restored(q, k) =>
            flight[q][k].obj \notin {o} /\ cache'[q][k] # flight[q][k].obj
      BY <1>1, <1>2, <1>3, RestoredAlone
    <2>4. OwnersKeep(p, id, noFlight, {o})
      BY Zenon, <1>3, <2>1, <2>2, <2>3 DEF OwnersKeep, SInv, Types, noFlight
    <2> QED
      BY Zenon, <1>3, <1>7, <1>9, <2>4, NoFlightFits, FlightMoves
  <1> QED
    BY <1>4, <1>8, <1>9, Zenon

\* The restored session becomes the entry of the cache.
LEMMA AddRestored ==
  ASSUME SInv, NEW p \in Pods, NEW id \in SessionIDs, Restored(p, id),
         Add(p, id, flight[p][id].obj),
         FlightGoes(p, id, [flight[p][id] EXCEPT !.pc = "served"]),
         UNCHANGED <<storage, creator, notifier>>
  PROVE  SInv'
  <1>1. PICK f \in Flight : f = flight[p][id]
    BY Zenon, FlightType
  <1>2. PICK o \in Objects : o = f.obj /\ OpenFor(o, p, id) /\ o # NoObject
    BY <1>1, FlightType DEF Restored, OpenFor
  <1>3. ~f.late
    BY Zenon, <1>1, FlightType DEF Restored
  <1> DEFINE g == [f EXCEPT !.pc = "served"]
  <1>4. g \in Flight /\ g.pc = "served" /\ g.obj = o /\ ~g.late
    BY Zenon, <1>2, <1>3 DEF Flight
  <1>5. FlightGoes(p, id, g) /\ Add(p, id, o)
    BY Zenon, <1>1, <1>2
  <1> HIDE DEF g
  <1>6. PICK os \in SUBSET Objects : AddCloses(p, id, o, os)
    BY Zenon, <1>5, AddEffect
  <1>7. FlightFits(p, id, g)
    BY Zenon, <1>2, <1>4 DEF FlightFits
  <1>8. o \notin os
    BY <1>1, <1>2, <1>6, RestoredAlone DEF AddCloses
  <1>9. ASSUME NEW q \in Pods, NEW k \in SessionIDs, cache'[q][k] # NoObject
        PROVE  OpenFor(cache'[q][k], q, k) /\ cache'[q][k] \notin os
    <2>1. CASE q = p /\ k = id
      BY Zenon, <1>2, <1>6, <1>8, <2>1 DEF AddCloses
    <2>2. CASE q # p \/ k # id
      BY Zenon, <1>6, <1>9, <2>2, EntryOpen DEF AddCloses
    <2> QED
      BY Zenon, <2>1, <2>2
  <1>10. ASSUME NEW k \in SessionIDs, creator[k].obj # NoObject
         PROVE  /\ creator[k].obj \notin os /\ creator[k].obj # g.obj
                /\ \A q \in Pods : cache'[q][k] # creator[k].obj
    <2>1. creator[k].obj \notin os /\ creator[k].obj # o
      BY <1>1, <1>2, <1>6, <1>10, CreatorAlone DEF AddCloses
    <2>2. ASSUME NEW q \in Pods PROVE cache'[q][k] # creator[k].obj
      BY <1>6, <1>10, <2>1, CreatorAlone DEF AddCloses
    <2> QED
      BY Zenon, <1>4, <2>1, <2>2
  <1>11. ASSUME NEW q \in Pods, NEW k \in SessionIDs, q # p \/ k # id, Restored(q, k)
         PROVE  flight[q][k].obj \notin os /\ cache'[q][k] # flight[q][k].obj
    <2>1. flight[q][k].obj # NoObject /\ cache[q][k] # flight[q][k].obj
      BY <1>11, FlightType, RestoredAlone DEF Restored
    <2> QED
      BY <1>6, <1>11, <2>1, RestoredAlone DEF AddCloses
  <1>12. OwnersKeep(p, id, g, os) /\ Close(os)
    BY <1>4, <1>6, <1>9, <1>10, <1>11 DEF OwnersKeep, AddCloses
  <1> QED
    BY Zenon, <1>5, <1>7, <1>12, ReadOnly, FlightMoves

LEMMA AddLoadedPreserves ==
  ASSUME SInv, NEW p \in Pods, NEW id \in SessionIDs, AddLoaded(p, id)
  PROVE  SInv'
  <1>1. PICK f \in Flight : f = flight[p][id]
    BY Zenon, FlightType
  <1>2. /\ f.pc = "add" /\ Restored(p, id) /\ ~f.late /\ OpenFor(f.obj, p, id)
        /\ f.obj # NoObject
        /\ UNCHANGED <<storage, creator, notifier>>
    BY Zenon, <1>1, FlightType DEF AddLoaded, Restored
  <1>3. CASE Cached(p, id)
    <2> DEFINE g == [f EXCEPT !.pc = "winner"]
    <2>1. FlightGoes(p, id, g) /\ UNCHANGED <<objects, cache>>
      BY Zenon, <1>1, <1>3 DEF AddLoaded, cacheVars
    <2>2. g \in Flight /\ g.pc = "winner" /\ g.obj = f.obj /\ ~g.late
      BY Zenon, <1>2 DEF Flight
    <2> HIDE DEF g
    <2>3. FlightFits(p, id, g)
      BY Zenon, <1>2, <2>2 DEF FlightFits
    <2> QED
      BY Zenon, <1>1, <1>2, <2>1, <2>2, <2>3, ReadOnly, FlightMovesAlone
  <1>4. CASE ~Cached(p, id)
    <2>1. /\ Add(p, id, flight[p][id].obj)
          /\ FlightGoes(p, id, [flight[p][id] EXCEPT !.pc = "served"])
      BY Zenon, <1>4 DEF AddLoaded
    <2> QED
      BY Zenon, <1>2, <2>1, AddRestored
  <1> QED
    BY Zenon, <1>3, <1>4

LEMMA TakeWinnerPreserves ==
  ASSUME SInv, NEW p \in Pods, NEW id \in SessionIDs, TakeWinner(p, id)
  PROVE  SInv'
  <1>1. PICK f \in Flight : f = flight[p][id]
    BY Zenon, FlightType
  <1>2. PICK o \in Objects : o = f.obj /\ OpenFor(o, p, id) /\ o # NoObject
    BY <1>1, FlightType DEF TakeWinner, OpenFor
  <1>3. /\ Restored(p, id) /\ ~f.late /\ UNCHANGED <<storage, creator, notifier>>
    BY Zenon, <1>1, FlightType DEF TakeWinner, Restored
  <1>4. CASE Cached(p, id)
    <2>1. PICK w \in Objects : w = cache[p][id] /\ OpenFor(w, p, id) /\ w # NoObject
      BY <1>4, EntryOpen DEF Cached, OpenFor
    <2> DEFINE g == [f EXCEPT !.pc = "served", !.obj = w]
    <2>2. FlightGoes(p, id, g) /\ Close({o}) /\ UNCHANGED cache
      BY Zenon, <1>1, <1>2, <1>4, <2>1 DEF TakeWinner
    <2>3. g \in Flight /\ g.pc = "served" /\ g.obj = w /\ ~g.late
      BY Zenon, <1>3 DEF Flight, Ref
    <2> HIDE DEF g
    <2>4. FlightFits(p, id, g)
      BY Zenon, <2>1, <2>3 DEF FlightFits
    <2>5. \A q \in Pods, k \in SessionIDs : cache'[q][k] # NoObject =>
            OpenFor(cache'[q][k], q, k) /\ cache'[q][k] \notin {o}
      BY <1>1, <1>2, <1>3, <2>2, RestoredAlone, EntryOpen
    <2>6. \A k \in SessionIDs : creator[k].obj # NoObject =>
            /\ creator[k].obj \notin {o} /\ creator[k].obj # g.obj
            /\ \A q \in Pods : cache'[q][k] # creator[k].obj
      BY Zenon, <1>1, <1>2, <2>1, <2>2, <2>3, CreatorAlone
    <2>7. \A q \in Pods, k \in SessionIDs : (q # p \/ k # id) /\ Restored(q, k) =>
            flight[q][k].obj \notin {o} /\ cache'[q][k] # flight[q][k].obj
      BY <1>1, <1>2, <2>2, RestoredAlone
    <2>8. OwnersKeep(p, id, g, {o})
      BY Zenon, <2>2, <2>3, <2>5, <2>6, <2>7 DEF OwnersKeep, SInv, Types
    <2> QED
      BY Zenon, <1>3, <2>2, <2>4, <2>8, ReadOnly, FlightMoves
  <1>5. CASE ~Cached(p, id)
    <2>1. /\ Add(p, id, flight[p][id].obj)
          /\ FlightGoes(p, id, [flight[p][id] EXCEPT !.pc = "served"])
      BY Zenon, <1>5 DEF TakeWinner
    <2> QED
      BY Zenon, <1>3, <2>1, AddRestored
  <1> QED
    BY Zenon, <1>4, <1>5

LEMMA RestoreSessionPreserves ==
  ASSUME SInv, NEW p \in Pods, NEW id \in SessionIDs, RestoreSession(p, id)
  PROVE  SInv'
  <1>1. PICK f \in Flight : f = flight[p][id]
    BY Zenon, FlightType
  <1>2. /\ f.pc = "restore" /\ ~f.late /\ UNCHANGED <<storage, creator, notifier>>
    BY Zenon, <1>1, FlightType DEF RestoreSession
  <1>3. CASE FlightGoes(p, id, noFlight) /\ UNCHANGED cacheVars
    <2>1. UNCHANGED <<objects, cache>>
      BY Zenon, <1>3 DEF cacheVars
    <2>2. noFlight.obj = NoObject /\ noFlight.pc = "idle"
      BY Zenon DEF noFlight
    <2> QED
      BY Zenon, <1>2, <1>3, <2>1, <2>2, NoFlightFits, ReadOnly, FlightMovesAlone
  <1>4. CASE \E bs \in SUBSET f.loaded :
               /\ HasFree
               /\ Open(FreshObject, p, id, bs)
               /\ FlightGoes(p, id, [f EXCEPT !.pc = "writeback",
                                              !.obj = FreshObject, !.loaded = {}])
               /\ UNCHANGED <<cache, lru>>
    <2>1. HasFree /\ UNCHANGED cache /\ SUBSET f.loaded \subseteq SUBSET Backends
      BY Zenon, <1>4 DEF Flight
    <2>2. PICK o \in Objects : o = FreshObject
      BY Zenon, <2>1, FreshIsUnused
    <2> DEFINE g == [f EXCEPT !.pc = "writeback", !.obj = o, !.loaded = {}]
    <2>3. PICK bs \in SUBSET Backends : Open(o, p, id, bs) /\ FlightGoes(p, id, g)
      BY Zenon, <1>4, <2>1, <2>2
    <2>4. g \in Flight /\ g.pc = "writeback" /\ g.obj = o /\ ~g.late
      BY Zenon, <1>2 DEF Flight, Ref
    <2>5. /\ flight' \in [Pods -> [SessionIDs -> Flight]]
          /\ flight'[p][id] = g
          /\ \A q \in Pods, k \in SessionIDs : q # p \/ k # id => flight'[q][k] = flight[q][k]
      <3> HIDE DEF g
      <3> QED
        BY Zenon, <2>3, <2>4 DEF SInv, Types, FlightGoes
    <2> HIDE DEF g
    <2>6. /\ o # NoObject
          /\ \A k \in SessionIDs : creator[k].obj # o
          /\ \A q \in Pods, k \in SessionIDs : cache[q][k] # o /\ flight[q][k].obj # o
      BY Zenon, <2>1, <2>2, FreshIsUnused, SessionAssumption
    <2>7. /\ objects' \in [Objects -> Object]
          /\ OpenFor(o, p, id)'
          /\ CachedIsOpen'
          /\ \A q \in Pods, k \in SessionIDs, x \in Objects :
               OpenFor(x, q, k) /\ x # o => OpenFor(x, q, k)'
          /\ \A x \in Objects : objects[x].state = "closed" /\ x # o =>
               objects'[x].state = "closed" /\ objects'[x].pod = objects[x].pod
      BY Zenon, <2>1, <2>3, <2>6, OpenPreserves
    <2>8. Types'
      BY Zenon, <1>2, <2>1, <2>5, <2>7 DEF SInv, Types
    <2>9. CreatorOwns'
      <3> SUFFICES ASSUME NEW k \in SessionIDs, creator'[k].obj # NoObject
                   PROVE  CreatorOwns!(k)'
        BY Zenon DEF CreatorOwns
      <3>1. PICK x \in Objects, q \in Pods : /\ x = creator[k].obj /\ q = creator[k].pod
                                             /\ OpenFor(x, q, k) /\ x # o
        BY <1>2, <2>6 DEF SInv, CreatorOwns, OpenFor
      <3>2. OpenFor(x, q, k)'
        BY Zenon, <2>7, <3>1
      <3>3. \A q2 \in Pods : cache'[q2][k] # x /\ flight'[q2][k].obj # x
        BY <1>2, <2>1, <2>4, <2>5, <3>1, CreatorAlone
      <3> QED
        BY Zenon, <1>2, <3>1, <3>2, <3>3 DEF OpenFor
    <2>10. CreatorHolds'
      BY Zenon, <1>2 DEF SInv, CreatorHolds
    <2>11. FlightOwns'
      <3> SUFFICES ASSUME NEW q \in Pods, NEW k \in SessionIDs
                   PROVE  FlightOwns!(q, k)'
        BY Zenon DEF FlightOwns
      <3>1. CASE q # p \/ k # id
        <4>1. FlightOwns!(q, k) /\ flight'[q][k] = flight[q][k]
          BY Zenon, <2>5, <3>1, FlightType
        <4>2. CASE flight[q][k].obj = NoObject
          BY Zenon, <4>1, <4>2, SessionAssumption DEF OpenFor
        <4>3. CASE flight[q][k].obj # NoObject
          <5>1. PICK x \in Objects : x = flight[q][k].obj
            BY Zenon, <4>1, <4>3 DEF OpenFor
          <5>2. x # o /\ cache'[q][k] = cache[q][k]
            BY Zenon, <2>1, <2>6, <5>1
          <5> QED
            BY Zenon, <2>7, <4>1, <4>3, <5>1, <5>2
        <4> QED
          BY Zenon, <4>2, <4>3
      <3>2. CASE q = p /\ k = id
        BY Zenon, <2>1, <2>4, <2>5, <2>6, <2>7, <3>2 DEF OpenFor
      <3> QED
        BY Zenon, <3>1, <3>2
    <2>12. LateFlights'
      <3> SUFFICES ASSUME NEW q \in Pods, NEW k \in SessionIDs
                   PROVE  LateFlights!(q, k)'
        BY Zenon DEF LateFlights
      <3>1. CASE q # p \/ k # id
        <4>1. LateFlights!(q, k) /\ flight'[q][k] = flight[q][k]
          BY Zenon, <2>5, <3>1, FlightType
        <4> QED
          BY Zenon, <1>2, <4>1 DEF Present
      <3>2. CASE q = p /\ k = id
        BY Zenon, <2>4, <2>5, <3>2
      <3> QED
        BY Zenon, <3>1, <3>2
    <2> QED
      BY Zenon, <2>7, <2>8, <2>9, <2>10, <2>11, <2>12 DEF SInv
  <1> QED
    BY Zenon, <1>1, <1>3, <1>4 DEF RestoreSession

LEMMA GetPreserves ==
  ASSUME SInv, NEW p \in Pods, NEW id \in SessionIDs, Get(p, id)
  PROVE  SInv'
  BY Zenon, BeginGetPreserves, checkSessionPreserves, getHitEvictsPreserves, loadSessionPreserves,
     RestoreSessionPreserves, WriteBackPreserves, AddLoadedPreserves, TakeWinnerPreserves,
     EndGetPreserves DEF Get

\* Restart drops exactly what belongs to the pod.
LEMMA RestartPreserves ==
  ASSUME SInv, NEW p \in Pods, Restart(p)
  PROVE  SInv'
  <1>1. /\ objects' = [o \in Objects |-> IF objects[o].pod = p THEN freeObject ELSE objects[o]]
        /\ cache' = [cache EXCEPT ![p] = [id \in SessionIDs |-> NoObject]]
        /\ creator' = [id \in SessionIDs |->
                         IF creator[id].pod = p
                         THEN [pc |-> "done", pod |-> p, obj |-> NoObject]
                         ELSE creator[id]]
        /\ flight' = [flight EXCEPT ![p] = [id \in SessionIDs |-> noFlight]]
        /\ UNCHANGED <<storage, notifier>>
    BY Zenon DEF Restart
  <1>2. Types
    BY Zenon DEF SInv
  <1>3. freeObject \in Object /\ noFlight \in Flight /\ NoObject \in Ref
    BY Zenon DEF freeObject, Object, noFlight, Flight, Ref, Holder
  <1>4. Types'
    <2>1. objects' \in [Objects -> Object]
      BY Zenon, <1>1, <1>2, <1>3 DEF Types
    <2>2. cache' \in [Pods -> [SessionIDs -> Ref]]
      BY Zenon, <1>1, <1>2, <1>3 DEF Types
    <2>3. creator' \in [SessionIDs -> Creator]
      BY Zenon, <1>1, <1>2 DEF Types, Creator, Ref, Holder
    <2>4. flight' \in [Pods -> [SessionIDs -> Flight]]
      BY Zenon, <1>1, <1>2, <1>3 DEF Types
    <2> QED
      BY Zenon, <1>1, <1>2, <2>1, <2>2, <2>3, <2>4 DEF Types
  <1>5. /\ \A id \in SessionIDs : cache'[p][id] = NoObject /\ flight'[p][id] = noFlight
        /\ \A q \in Pods, id \in SessionIDs : q # p =>
             cache'[q][id] = cache[q][id] /\ flight'[q][id] = flight[q][id]
        /\ \A o \in Objects : objects[o].pod # p => objects'[o] = objects[o]
        /\ \A id \in SessionIDs : creator[id].pod # p => creator'[id] = creator[id]
        /\ \A id \in SessionIDs : creator[id].pod = p =>
             /\ creator'[id].pc = "done" /\ creator'[id].obj = NoObject
             /\ creator'[id].pod = p
    BY Zenon, <1>1, <1>2 DEF Types
  <1>6. CachedIsOpen'
    BY <1>5 DEF SInv, CachedIsOpen, Cached, IsOpen
  <1>7. CreatorOwns'
    <2> SUFFICES ASSUME NEW id \in SessionIDs, creator'[id].obj # NoObject
                 PROVE  CreatorOwns!(id)'
      BY Zenon DEF CreatorOwns
    <2>1. creator[id].pod # p /\ creator'[id] = creator[id]
      BY Zenon, <1>5
    <2>2. OpenFor(creator[id].obj, creator[id].pod, id)
      BY Zenon, <2>1 DEF SInv, CreatorOwns
    <2>3. objects'[creator[id].obj] = objects[creator[id].obj]
      BY Zenon, <1>5, <2>1, <2>2 DEF OpenFor
    <2>4. \A q \in Pods : cache'[q][id] # creator[id].obj /\ flight'[q][id].obj # creator[id].obj
      BY <1>5, <2>1, CreatorAlone DEF noFlight
    <2> QED
      BY <2>1, <2>2, <2>3, <2>4 DEF SInv, CreatorOwns, OpenFor
  <1>8. CreatorHolds'
    BY <1>5 DEF SInv, CreatorHolds
  <1>9. FlightOwns'
    <2> SUFFICES ASSUME NEW q \in Pods, NEW k \in SessionIDs
                 PROVE  FlightOwns!(q, k)'
      BY Zenon DEF FlightOwns
    <2>1. CASE q = p
      <3>1. flight'[q][k] = noFlight
        BY Zenon, <1>5, <2>1
      <3> QED
        BY <3>1 DEF noFlight
    <2>2. CASE q # p
      <3>1. flight'[q][k] = flight[q][k] /\ cache'[q][k] = cache[q][k]
        BY Zenon, <1>5, <2>2
      <3>2. FlightOwns!(q, k)
        BY Zenon, FlightType
      <3>3. CASE flight[q][k].obj = NoObject
        BY Zenon, <3>1, <3>2, <3>3, SessionAssumption DEF OpenFor
      <3>4. CASE flight[q][k].obj # NoObject
        <4>1. flight[q][k].obj \in Objects /\ objects[flight[q][k].obj].pod # p
          BY Zenon, <2>2, <3>2, <3>4, SessionAssumption DEF OpenFor
        <4>2. objects'[flight[q][k].obj] = objects[flight[q][k].obj]
          BY Zenon, <1>5, <4>1
        <4> QED
          BY Zenon, <3>1, <3>2, <3>4, <4>2 DEF OpenFor
      <3> QED
        BY Zenon, <3>3, <3>4
    <2> QED
      BY Zenon, <2>1, <2>2
  <1>10. LateFlights'
    <2> SUFFICES ASSUME NEW q \in Pods, NEW k \in SessionIDs
                 PROVE  LateFlights!(q, k)'
      BY Zenon DEF LateFlights
    <2>1. CASE q = p
      <3>1. flight'[q][k] = noFlight
        BY Zenon, <1>5, <2>1
      <3> QED
        BY <3>1 DEF noFlight
    <2>2. CASE q # p
      <3>1. creator[k].pc # "unused" => creator'[k].pc # "unused"
        BY Zenon, <1>5
      <3>2. LateFlights!(q, k)
        BY Zenon, FlightType
      <3>3. flight'[q][k] = flight[q][k]
        BY Zenon, <1>5, <2>2
      <3>4. storage' = storage
        BY Zenon, <1>1
      <3> QED
        BY Zenon, <3>1, <3>2, <3>3, <3>4 DEF Present
    <2> QED
      BY Zenon, <2>1, <2>2
  <1> QED
    BY Zenon, <1>4, <1>6, <1>7, <1>8, <1>9, <1>10 DEF SInv

-----------------------------------------------------------------------------
(* The theorems.                                                            *)

LEMMA InitSInv ==
  ASSUME Init
  PROVE  SInv
  <1>1. /\ storage = [id \in SessionIDs |-> Unbound("absent")]
        /\ objects = [o \in Objects |-> freeObject]
        /\ cache = [p \in Pods |-> [id \in SessionIDs |-> NoObject]]
        /\ creator = [id \in SessionIDs |->
                        [pc |-> "unused", pod |-> "none", obj |-> NoObject]]
        /\ flight = [p \in Pods |-> [id \in SessionIDs |-> noFlight]]
        /\ notifier = [id \in SessionIDs |-> noNotifier]
    BY Zenon DEF Init, StorageInit, CacheInit
  <1>2. Unbound("absent") \in Metadata
    BY Zenon, UnboundType DEF Kinds
  <1>3. freeObject \in Object /\ noFlight \in Flight /\ noNotifier \in Notifier
    BY Zenon DEF freeObject, Object, noFlight, Flight, Ref, Holder, noNotifier, Notifier
  <1>4. Types
    <2>1. creator \in [SessionIDs -> Creator]
      BY Zenon, <1>1 DEF Creator, Ref, Holder
    <2>2. cache \in [Pods -> [SessionIDs -> Ref]]
      BY Zenon, <1>1 DEF Ref
    <2> QED
      BY Zenon, <1>1, <1>2, <1>3, <2>1, <2>2 DEF Types
  <1>5. CachedIsOpen
    BY Zenon, <1>1 DEF CachedIsOpen, Cached
  <1>6. CreatorOwns /\ CreatorHolds
    BY Zenon, <1>1 DEF CreatorOwns, CreatorHolds
  <1>7. FlightOwns
    BY Zenon, <1>1 DEF FlightOwns, noFlight
  <1>8. LateFlights
    BY Zenon, <1>1 DEF LateFlights, noFlight
  <1> QED
    BY Zenon, <1>4, <1>5, <1>6, <1>7, <1>8 DEF SInv

LEMMA NextSInv ==
  ASSUME SInv, [Next]_vars
  PROVE  SInv'
  <1>1. CASE UNCHANGED vars
    <2>1. UNCHANGED <<storage, objects, cache, creator, flight, notifier>>
      BY Zenon, <1>1 DEF vars, cacheVars, callVars
    <2>2. notifier' \in [SessionIDs -> Notifier]
      BY Zenon, <2>1 DEF SInv, Types
    <2> QED
      BY Zenon, <2>1, <2>2, ReadOnly, StorageAlone
  <1>2. ASSUME NEW id \in SessionIDs,
               Generate(id) \/ CreateSession(id) \/ (\E c \in Callers : Terminate(id, c))
               \/ BeginNotify(id) \/ NotifyBackendExpired(id) \/ KeyExpires(id)
        PROVE  SInv'
    BY Zenon, <1>2, GeneratePreserves, CreateSessionPreserves, TerminatePreserves,
       NotifyPreserves, KeyExpiresPreserves
  <1>3. ASSUME NEW p \in Pods, NEW id \in SessionIDs, Get(p, id)
        PROVE  SInv'
    BY Zenon, <1>3, GetPreserves
  <1>4. ASSUME NEW p \in Pods, Restart(p)
        PROVE  SInv'
    BY Zenon, <1>4, RestartPreserves
  <1> QED
    BY Zenon, <1>1, <1>2, <1>3, <1>4 DEF Next

\* The inductive invariant: sessions in a cache, and sessions that a call has
\* made and not yet handed over, are open, and no two owners share one.
THEOREM SessionInvariant == Spec => []SInv
  <1>1. Init => SInv
    BY Zenon, InitSInv
  <1>2. SInv /\ [Next]_vars => SInv'
    BY Zenon, NextSInv
  <1> QED
    BY <1>1, <1>2, PTL DEF Spec

\* Every cache entry of every pod is an open session of that pod and ID.
THEOREM CachedSessionsAreOpen == Spec => []CachedIsOpen
  <1>1. SInv => CachedIsOpen
    BY Zenon DEF SInv
  <1> QED
    BY <1>1, SessionInvariant, PTL

\* A Get that starts after the key is gone serves nothing, unless the check of
\* the cached session met a storage error.
THEOREM TerminationReachesEveryPod == Spec => []ServedWasAlive
  <1>1. SInv => ServedWasAlive
    BY Zenon DEF SInv, LateFlights, ServedWasAlive
  <1> QED
    BY <1>1, SessionInvariant, PTL

\* Only Generate creates a key.
LEMMA OnlyGenerateCreates ==
  ASSUME SInv, NEW id \in SessionIDs, ~Present(id), creator[id].pc # "unused", [Next]_vars
  PROVE  ~Present(id)'
  <1>1. ASSUME storage' = storage PROVE ~Present(id)'
    BY Zenon, <1>1 DEF Present
  <1>2. ASSUME NEW k \in SessionIDs, NEW m, NEW r, Update(k, m, r)
        PROVE  ~Present(id)'
    BY Zenon, <1>2 DEF Update, Write, Present, SInv, Types
  <1>3. ASSUME NEW k \in SessionIDs,
               Generate(k) \/ CreateSession(k) \/ (\E c \in Callers : Terminate(k, c))
               \/ BeginNotify(k) \/ NotifyBackendExpired(k) \/ KeyExpires(k)
        PROVE  ~Present(id)'
    <2>1. CASE Generate(k)
      <3>1. k # id
        BY Zenon, <2>1 DEF Generate
      <3>2. storage'[id] = storage[id]
        BY Zenon, <2>1, <3>1, GenerateEffect DEF Generate, SInv, Types
      <3> QED
        BY Zenon, <3>2 DEF Present
    <2>2. CASE CreateSession(k)
      BY Zenon, <1>1, <1>2, <2>2 DEF CreateSession, LoadPlaceholder, MakeSession, Recheck,
         StoreMetadata, CacheSession, cleanupFailedPlaceholder, Load
    <2>3. ASSUME NEW c \in Callers, Terminate(k, c) PROVE ~Present(id)'
      <3>1. CASE BeginTerminate(k, c)
        BY Zenon, <1>1, <3>1 DEF BeginTerminate, Load
      <3>2. CASE TerminateDeletes(k, c)
        BY Zenon, <3>2, DeleteEffect DEF TerminateDeletes, SInv, Types
      <3>3. CASE TerminateMarks(k, c)
        BY Zenon, <1>2, <3>3 DEF TerminateMarks
      <3> QED
        BY Zenon, <2>3, <3>1, <3>2, <3>3 DEF Terminate
    <2>4. CASE BeginNotify(k)
      BY Zenon, <1>1, <2>4 DEF BeginNotify
    <2>5. CASE NotifyBackendExpired(k)
      BY Zenon, <1>2, <2>5 DEF NotifyBackendExpired
    <2>6. CASE KeyExpires(k)
      BY Zenon, <2>6 DEF KeyExpires, Expire, Write, Present, Unbound, SInv, Types
    <2> QED
      BY Zenon, <1>3, <2>1, <2>2, <2>3, <2>4, <2>5, <2>6
  <1>4. ASSUME NEW p \in Pods, NEW k \in SessionIDs, Get(p, k)
        PROVE  ~Present(id)'
    BY Zenon, <1>1, <1>2, <1>4 DEF Get, BeginGet, checkSession, getHitEvicts, loadSession,
       RestoreSession, WriteBack, AddLoaded, TakeWinner, EndGet, Load
  <1>5. ASSUME NEW p \in Pods, Restart(p) PROVE ~Present(id)'
    BY Zenon, <1>1, <1>5 DEF Restart
  <1>6. CASE UNCHANGED vars
    BY Zenon, <1>1, <1>6 DEF vars
  <1> QED
    BY Zenon, <1>3, <1>4, <1>5, <1>6 DEF Next

\* A session whose key is gone never gets one again, whatever late calls of
\* any pod still write.
THEOREM GoneForGood == Spec => GoneStaysGone
  <1>1. SInv /\ [Next]_vars =>
          [\A id \in SessionIDs :
             creator[id].pc # "unused" /\ ~Present(id) => ~Present(id)']_vars
    BY Zenon, OnlyGenerateCreates
  <1> QED
    BY <1>1, SessionInvariant, PTL DEF Spec, GoneStaysGone
-----------------------------------------------------------------------------
(* The sessions that nobody holds any more.                                 *)

\* The cache, the registration or a restore of session k on pod p has object o.
Owned(o, p, k) ==
  \/ cache[p][k] = o \/ creator[k].obj = o
  \/ Restored(p, k) /\ flight[p][k].obj = o

\* It is open and none of them has it: nobody is left to close it.
Stray(o, p, k) == OpenFor(o, p, k) /\ ~Owned(o, p, k)

Settled(k) == creator[k].pc \in {"failed", "done"}

\* A registration has an object from MakeSessionWithID to Set.
WithObject == {"recheck", "store", "caching"}

Placed ==
  /\ \A o \in Objects : objects[o].state = "open" => objects[o].pod \in Pods
  /\ \A k \in SessionIDs : creator[k].pc \notin WithObject => creator[k].obj = NoObject

StraysSettled ==
  \A o \in Objects, p \in Pods, k \in SessionIDs :
    Stray(o, p, k) => p = creator[k].pod /\ Settled(k)

OneStray ==
  \A o, x \in Objects, p \in Pods, k \in SessionIDs :
    Stray(o, p, k) /\ Stray(x, p, k) => o = x

LeakInv == Placed /\ StraysSettled /\ OneStray

NoNewStray ==
  \A o \in Objects, p \in Pods, k \in SessionIDs : Stray(o, p, k)' => Stray(o, p, k)

SettledStays ==
  \A k \in SessionIDs : Settled(k) => Settled(k)' /\ creator'[k].pod = creator[k].pod

LEMMA StraysDwindle ==
  ASSUME LeakInv, Placed', NoNewStray, SettledStays
  PROVE  LeakInv'
  <1>1. StraysSettled'
    BY Zenon DEF LeakInv, StraysSettled, NoNewStray, SettledStays
  <1>2. OneStray'
    BY Zenon DEF LeakInv, OneStray, NoNewStray
  <1> QED
    BY Zenon, <1>1, <1>2 DEF LeakInv

\* Steps that neither open nor close a session nor change an entry.
LEMMA OwnersStay ==
  ASSUME LeakInv, UNCHANGED <<objects, cache>>, SettledStays,
         \A k \in SessionIDs : creator'[k].obj = creator[k].obj,
         \A k \in SessionIDs : creator'[k].pc \notin WithObject => creator'[k].obj = NoObject,
         \A p \in Pods, k \in SessionIDs :
           Restored(p, k) => Restored(p, k)' /\ flight'[p][k].obj = flight[p][k].obj
  PROVE  LeakInv'
  <1>1. Placed'
    BY Zenon DEF LeakInv, Placed
  <1>2. NoNewStray
    BY ZenonT(30) DEF NoNewStray, Stray, Owned, OpenFor
  <1> QED
    BY Zenon, <1>1, <1>2, StraysDwindle

LEMMA NobodyMoves ==
  ASSUME LeakInv, UNCHANGED <<objects, cache, flight, creator>>
  PROVE  LeakInv'
  <1>1. SettledStays
    BY Zenon DEF SettledStays, Settled
  <1> QED
    BY Zenon, <1>1, OwnersStay DEF LeakInv, Placed, Restored

LEMMA CreatorMoves ==
  ASSUME Types, NEW id \in SessionIDs, NEW pc, NEW o, CreatorGoes(id, pc, o)
  PROVE  /\ creator'[id] = [pc |-> pc, pod |-> creator[id].pod, obj |-> o]
         /\ \A k \in SessionIDs : k # id => creator'[k] = creator[k]
  BY Zenon DEF Types, CreatorGoes

\* A registration that goes on with what it has.
LEMMA CreatorAdvances ==
  ASSUME SInv, LeakInv, NEW id \in SessionIDs, NEW pc,
         CreatorGoes(id, pc, creator[id].obj),
         pc \in WithObject \/ creator[id].obj = NoObject,
         Settled(id) => pc = "done",
         UNCHANGED <<objects, cache, flight>>
  PROVE  LeakInv'
  <1>1. /\ creator'[id] = [pc |-> pc, pod |-> creator[id].pod, obj |-> creator[id].obj]
        /\ \A k \in SessionIDs : k # id => creator'[k] = creator[k]
    BY Zenon, CreatorMoves DEF SInv
  <1>2. creator'[id].pc = pc /\ creator'[id].pod = creator[id].pod
        /\ creator'[id].obj = creator[id].obj
    BY <1>1
  <1>3. SettledStays
    BY Zenon, <1>1, <1>2 DEF SettledStays, Settled
  <1>4. \A k \in SessionIDs :
          /\ creator'[k].obj = creator[k].obj
          /\ creator'[k].pc \notin WithObject => creator'[k].obj = NoObject
    BY Zenon, <1>1, <1>2 DEF LeakInv, Placed
  <1> QED
    BY Zenon, <1>3, <1>4, OwnersStay DEF Restored

\* A flight that keeps its restore if it has one.
LEMMA FlightAdvances ==
  ASSUME SInv, LeakInv, NEW p \in Pods, NEW id \in SessionIDs, NEW f, FlightGoes(p, id, f),
         Restored(p, id) => /\ f.pc \in {"writeback", "add", "winner"}
                            /\ f.obj = flight[p][id].obj,
         UNCHANGED <<objects, cache, creator>>
  PROVE  LeakInv'
  <1>1. /\ flight'[p][id] = f
        /\ \A q \in Pods, k \in SessionIDs : q # p \/ k # id => flight'[q][k] = flight[q][k]
    BY Zenon DEF SInv, Types, FlightGoes
  <1>2. \A q \in Pods, k \in SessionIDs :
           Restored(q, k) => Restored(q, k)' /\ flight'[q][k].obj = flight[q][k].obj
    BY Zenon, <1>1 DEF Restored
  <1>3. SettledStays
    BY Zenon DEF SettledStays, Settled
  <1> QED
    BY Zenon, <1>2, <1>3, OwnersStay DEF LeakInv, Placed

\* Steps that close the sessions os and leave every other one its owner.
LEMMA OwnersChange ==
  ASSUME SInv, LeakInv, NEW os \in SUBSET Objects, Close(os), SettledStays,
         \A k \in SessionIDs : creator'[k].pc \notin WithObject => creator'[k].obj = NoObject,
         \A o \in Objects, p \in Pods, k \in SessionIDs :
           o \notin os /\ OpenFor(o, p, k) /\ Owned(o, p, k) => Owned(o, p, k)'
  PROVE  LeakInv'
  <1>1. /\ \A x \in Objects : x \notin os => objects'[x] = objects[x]
        /\ \A x \in os : objects'[x].state = "closed"
    BY Zenon, ClosePreserves
  <1>2. Placed'
    BY <1>1 DEF LeakInv, Placed
  <1>3. NoNewStray
    BY Zenon, <1>1 DEF NoNewStray, Stray, OpenFor
  <1> QED
    BY Zenon, <1>2, <1>3, StraysDwindle

LEMMA GenerateLeaks ==
  ASSUME SInv, LeakInv, NEW id \in SessionIDs, Generate(id)
  PROVE  LeakInv'
  <1>1. PICK p \in Pods, pc \in {"registered", "done"} :
          creator' = [creator EXCEPT ![id] = [pc |-> pc, pod |-> p, obj |-> NoObject]]
    BY Zenon DEF Generate
  <1>2. /\ creator[id].pc = "unused" /\ UNCHANGED <<objects, cache, flight>>
        /\ creator[id].obj = NoObject
    BY Zenon DEF Generate, cacheVars, LeakInv, Placed, WithObject
  <1>3. /\ creator'[id].obj = NoObject
        /\ \A k \in SessionIDs : k # id => creator'[k] = creator[k]
    BY Zenon, <1>1 DEF SInv, Types
  <1>4. SettledStays
    BY Zenon, <1>2, <1>3 DEF SettledStays, Settled
  <1>5. \A k \in SessionIDs :
          /\ creator'[k].obj = creator[k].obj
          /\ creator'[k].pc \notin WithObject => creator'[k].obj = NoObject
    BY Zenon, <1>2, <1>3 DEF LeakInv, Placed
  <1> QED
    BY Zenon, <1>2, <1>4, <1>5, OwnersStay DEF Restored

\* A registration that fails closes its session.
LEMMA CreatorClosesOwn ==
  ASSUME SInv, LeakInv, NEW id \in SessionIDs, NEW pc \in {"cleanup", "failed"},
         creator[id].pc \in WithObject,
         CreatorGoes(id, pc, NoObject), Close({creator[id].obj}), UNCHANGED <<cache, flight>>
  PROVE  LeakInv'
  <1>1. PICK o \in Objects : o = creator[id].obj
    BY Zenon DEF SInv, CreatorOwns, CreatorHolds, OpenFor, WithObject
  <1>2. Close({o}) /\ {o} \in SUBSET Objects
    BY Zenon, <1>1
  <1>3. /\ creator'[id] = [pc |-> pc, pod |-> creator[id].pod, obj |-> NoObject]
        /\ \A k \in SessionIDs : k # id => creator'[k] = creator[k]
    BY Zenon, CreatorMoves DEF SInv
  <1>4. SettledStays
    BY Zenon, <1>3 DEF SettledStays, Settled, WithObject
  <1>5. \A k \in SessionIDs : creator'[k].pc \notin WithObject => creator'[k].obj = NoObject
    BY <1>3 DEF LeakInv, Placed
  <1>6. \A x \in Objects, p \in Pods, k \in SessionIDs :
          x \notin {o} /\ OpenFor(x, p, k) /\ Owned(x, p, k) => Owned(x, p, k)'
    BY Zenon, <1>1, <1>3 DEF Owned, Restored
  <1> QED
    BY Zenon, <1>2, <1>4, <1>5, <1>6, OwnersChange

LEMMA CreateSessionLeaks ==
  ASSUME SInv, LeakInv, NEW id \in SessionIDs,
         \/ LoadPlaceholder(id) \/ Recheck(id) \/ StoreMetadata(id)
         \/ cleanupFailedPlaceholder(id)
  PROVE  LeakInv'
  <1>1. CASE LoadPlaceholder(id) \/ cleanupFailedPlaceholder(id)
    <2>1. /\ UNCHANGED <<objects, cache, flight>> /\ ~Settled(id)
          /\ creator[id].obj = NoObject
      BY <1>1 DEF LoadPlaceholder, cleanupFailedPlaceholder, cacheVars, Settled,
                  LeakInv, Placed, WithObject
    <2>2. PICK pc : CreatorGoes(id, pc, NoObject)
      BY Zenon, <1>1 DEF LoadPlaceholder, cleanupFailedPlaceholder
    <2> QED
      BY Zenon, <2>1, <2>2, CreatorAdvances
  <1>2. CASE Recheck(id) \/ StoreMetadata(id)
    <2>1. /\ UNCHANGED <<cache, flight>> /\ ~Settled(id) /\ creator[id].pc \in WithObject
      BY <1>2 DEF Recheck, StoreMetadata, Settled, WithObject
    <2>2. CASE \E pc \in WithObject : CreatorGoes(id, pc, creator[id].obj) /\ UNCHANGED objects
      BY Zenon, <2>1, <2>2, CreatorAdvances
    <2>3. CASE \E pc \in {"cleanup", "failed"} :
                 CreatorGoes(id, pc, NoObject) /\ Close({creator[id].obj})
      BY Zenon, <2>1, <2>3, CreatorClosesOwn
    <2> QED
      BY Zenon, <1>2, <2>2, <2>3 DEF Recheck, StoreMetadata, WithObject
  <1> QED
    BY Zenon, <1>1, <1>2

\* A flight that ends or is served, after closing os, with the other flights
\* and the registrations left alone.
LEMMA FlightOwnersChange ==
  ASSUME SInv, LeakInv, NEW p \in Pods, NEW id \in SessionIDs, NEW f,
         NEW os \in SUBSET Objects, Close(os), FlightGoes(p, id, f), UNCHANGED creator,
         Restored(p, id) => flight[p][id].obj \in os \/ cache'[p][id] = flight[p][id].obj,
         \A q \in Pods, k \in SessionIDs :
           Cached(q, k) => cache[q][k] \in os \/ cache'[q][k] = cache[q][k]
  PROVE  LeakInv'
  <1>1. \A q \in Pods, k \in SessionIDs : q # p \/ k # id => flight'[q][k] = flight[q][k]
    BY Zenon DEF SInv, Types, FlightGoes
  <1>2. SettledStays
    BY Zenon DEF SettledStays, Settled
  <1>3. ASSUME NEW x \in Objects, NEW q \in Pods, NEW k \in SessionIDs,
               x \notin os, OpenFor(x, q, k), Owned(x, q, k)
        PROVE  Owned(x, q, k)'
    <2>1. CASE cache[q][k] = x
      BY Zenon, <1>3, <2>1, SessionAssumption DEF Owned, Cached
    <2>2. CASE creator[k].obj = x
      BY Zenon, <2>2 DEF Owned
    <2>3. CASE Restored(q, k) /\ flight[q][k].obj = x
      BY <1>1, <1>3, <2>3 DEF Owned, Restored
    <2> QED
      BY Zenon, <1>3, <2>1, <2>2, <2>3 DEF Owned
  <1> QED
    BY Zenon, <1>2, <1>3, OwnersChange DEF LeakInv, Placed

LEMMA AddRestoredLeaks ==
  ASSUME SInv, LeakInv, NEW p \in Pods, NEW id \in SessionIDs, Restored(p, id),
         ~Cached(p, id), Add(p, id, flight[p][id].obj), NEW f, FlightGoes(p, id, f),
         UNCHANGED creator
  PROVE  LeakInv'
  <1>1. PICK o \in Objects : o = flight[p][id].obj
    BY Zenon, FlightType DEF Restored, OpenFor
  <1>2. PICK os \in SUBSET Objects : AddCloses(p, id, o, os)
    BY Zenon, <1>1, AddEffect
  <1>3. ASSUME NEW q \in Pods, NEW k \in SessionIDs, Cached(q, k)
        PROVE  cache[q][k] \in os \/ cache'[q][k] = cache[q][k]
    BY Zenon, <1>2, <1>3 DEF AddCloses
  <1>4. Close(os) /\ cache'[p][id] = flight[p][id].obj
    BY Zenon, <1>1, <1>2 DEF AddCloses
  <1> QED
    BY Zenon, <1>3, <1>4, FlightOwnersChange

LEMMA GetLeaks ==
  ASSUME SInv, LeakInv, NEW p \in Pods, NEW id \in SessionIDs,
         \/ BeginGet(p, id) \/ checkSession(p, id) \/ getHitEvicts(p, id)
         \/ loadSession(p, id) \/ WriteBack(p, id)
         \/ AddLoaded(p, id) \/ TakeWinner(p, id) \/ EndGet(p, id)
  PROVE  LeakInv'
  <1>1. CASE BeginGet(p, id) \/ checkSession(p, id) \/ loadSession(p, id) \/ EndGet(p, id)
    <2>1. UNCHANGED <<objects, cache, creator>> /\ ~Restored(p, id)
      BY Zenon, <1>1 DEF BeginGet, checkSession, loadSession, EndGet, cacheVars, Restored
    <2>2. PICK f : FlightGoes(p, id, f)
      BY Zenon, <1>1 DEF BeginGet, checkSession, loadSession, EndGet
    <2> QED
      BY ZenonT(30), <2>1, <2>2, FlightAdvances
  <1>2. CASE getHitEvicts(p, id)
    <2>1. PICK o \in Objects : o = flight[p][id].obj /\ o # NoObject
      BY <1>2, FlightType DEF getHitEvicts, OpenFor
    <2>2. PICK f : FlightGoes(p, id, f)
      BY Zenon, <1>2 DEF getHitEvicts
    <2>3. /\ ~Restored(p, id) /\ UNCHANGED creator /\ EvictEntry(p, id, o)
      BY <1>2, <2>1 DEF getHitEvicts, Restored
    <2>4. CASE cache[p][id] # o
      BY Zenon, <2>2, <2>3, <2>4, FlightAdvances DEF EvictEntry, cacheVars
    <2>5. CASE cache[p][id] = o
      <3>1. /\ cache' = [cache EXCEPT ![p][id] = NoObject]
            /\ Close({o}) /\ {o} \in SUBSET Objects
        BY Zenon, <2>3, <2>5 DEF EvictEntry
      <3>2. \A q \in Pods, k \in SessionIDs :
              cache[q][k] \in {o} \/ cache'[q][k] = cache[q][k]
        BY <2>5, <3>1 DEF SInv, Types
      <3> QED
        BY Zenon, <2>2, <2>3, <3>1, <3>2, FlightOwnersChange
    <2> QED
      BY Zenon, <2>4, <2>5
  <1>3. CASE WriteBack(p, id)
    <2>1. PICK o \in Objects : o = flight[p][id].obj
      BY <1>3, FlightType DEF WriteBack, OpenFor
    <2>2. UNCHANGED <<cache, creator>> /\ {o} \in SUBSET Objects
      BY Zenon, <1>3 DEF WriteBack
    <2>3. CASE Close({o}) /\ FlightGoes(p, id, noFlight)
      <3>1. flight[p][id].obj \in {o}
        BY Zenon, <2>1
      <3> QED
        BY Zenon, <2>2, <2>3, <3>1, FlightOwnersChange
    <2>4. CASE UNCHANGED objects /\ FlightGoes(p, id, [flight[p][id] EXCEPT !.pc = "add"])
      <3>1. /\ [flight[p][id] EXCEPT !.pc = "add"].pc = "add"
            /\ [flight[p][id] EXCEPT !.pc = "add"].obj = flight[p][id].obj
        BY ZenonT(30), FlightType DEF Flight
      <3> QED
        BY Zenon, <2>2, <2>4, <3>1, FlightAdvances
    <2> QED
      BY ZenonT(30), <1>3, <2>1, <2>3, <2>4 DEF WriteBack
  <1>4. CASE AddLoaded(p, id)
    <2>1. UNCHANGED creator /\ Restored(p, id)
      BY <1>4 DEF AddLoaded, Restored
    <2>2. CASE Cached(p, id)
      <3>1. /\ FlightGoes(p, id, [flight[p][id] EXCEPT !.pc = "winner"])
            /\ UNCHANGED <<objects, cache>>
        BY Zenon, <1>4, <2>2 DEF AddLoaded, cacheVars
      <3>2. /\ [flight[p][id] EXCEPT !.pc = "winner"].pc = "winner"
            /\ [flight[p][id] EXCEPT !.pc = "winner"].obj = flight[p][id].obj
        BY ZenonT(30), FlightType DEF Flight
      <3> QED
        BY Zenon, <2>1, <3>1, <3>2, FlightAdvances
    <2>3. CASE ~Cached(p, id)
      BY Zenon, <1>4, <2>1, <2>3, AddRestoredLeaks DEF AddLoaded
    <2> QED
      BY Zenon, <2>2, <2>3
  <1>5. CASE TakeWinner(p, id)
    <2>1. UNCHANGED creator /\ Restored(p, id)
      BY <1>5 DEF TakeWinner, Restored
    <2>2. CASE Cached(p, id)
      <3>1. PICK o \in Objects : o = flight[p][id].obj
        BY Zenon, <2>1, FlightType DEF Restored, OpenFor
      <3>2. /\ Close({o}) /\ UNCHANGED cache /\ {o} \in SUBSET Objects
            /\ flight[p][id].obj \in {o}
        BY Zenon, <1>5, <2>2, <3>1 DEF TakeWinner
      <3>3. PICK f : FlightGoes(p, id, f)
        BY Zenon, <1>5, <2>2 DEF TakeWinner
      <3> QED
        BY Zenon, <2>1, <3>2, <3>3, FlightOwnersChange
    <2>3. CASE ~Cached(p, id)
      BY Zenon, <1>5, <2>1, <2>3, AddRestoredLeaks DEF TakeWinner
    <2> QED
      BY Zenon, <2>2, <2>3
  <1> QED
    BY Zenon, <1>1, <1>2, <1>3, <1>4, <1>5

\* A new session belongs to the call that opened it.
LEMMA OpenLeaks ==
  ASSUME SInv, LeakInv, HasFree, NEW p \in Pods, NEW id \in SessionIDs,
         NEW bs \in SUBSET Backends, NEW o \in Objects, o = FreshObject,
         Open(o, p, id, bs), UNCHANGED cache, Owned(o, p, id)', SettledStays,
         \A k \in SessionIDs : creator'[k].pc \notin WithObject => creator'[k].obj = NoObject,
         \A k \in SessionIDs : creator[k].obj # NoObject => creator'[k].obj = creator[k].obj,
         \A q \in Pods, k \in SessionIDs :
           Restored(q, k) => Restored(q, k)' /\ flight'[q][k].obj = flight[q][k].obj
  PROVE  LeakInv'
  <1>1. objects \in [Objects -> Object]
    BY Zenon DEF SInv, Types
  <1>2. /\ \A x \in Objects : x # o => objects'[x] = objects[x]
        /\ OpenFor(o, p, id)'
    BY Zenon, <1>1, OpenEffect
  <1>3. Placed'
    BY <1>2 DEF LeakInv, Placed, OpenFor
  <1>4. ASSUME NEW x \in Objects, NEW q \in Pods, NEW k \in SessionIDs, Stray(x, q, k)'
        PROVE  Stray(x, q, k)
    <2>1. ASSUME x = o PROVE FALSE
      <3>1. q = p /\ k = id
        BY Zenon, <1>2, <1>4, <2>1 DEF Stray, OpenFor
      <3> QED
        BY Zenon, <1>4, <2>1, <3>1 DEF Stray
    <2>2. OpenFor(x, q, k) /\ x # NoObject
      BY Zenon, <1>2, <1>4, <2>1, SessionAssumption DEF Stray, OpenFor
    <2> QED
      BY <1>4, <2>2 DEF Stray, Owned
  <1> QED
    BY Zenon, <1>3, <1>4, StraysDwindle DEF NoNewStray

LEMMA MakeSessionLeaks ==
  ASSUME SInv, LeakInv, NEW id \in SessionIDs, MakeSession(id)
  PROVE  LeakInv'
  <1>1. /\ creator[id].pc = "making" /\ creator[id].pod \in Pods /\ UNCHANGED flight
        /\ creator[id].obj = NoObject /\ ~Settled(id)
    BY DEF MakeSession, SInv, CreatorHolds, LeakInv, Placed, WithObject, Settled
  <1>2. CASE CreatorGoes(id, "cleanup", NoObject) /\ UNCHANGED cacheVars
    BY Zenon, <1>1, <1>2, CreatorAdvances DEF cacheVars
  <1>3. CASE \E bs \in SUBSET Backends :
               /\ HasFree
               /\ Open(FreshObject, creator[id].pod, id, bs)
               /\ CreatorGoes(id, "recheck", FreshObject)
               /\ UNCHANGED <<cache, lru>>
    <2>1. PICK bs \in SUBSET Backends : /\ HasFree /\ UNCHANGED cache
                                        /\ Open(FreshObject, creator[id].pod, id, bs)
                                        /\ CreatorGoes(id, "recheck", FreshObject)
      BY Zenon, <1>3
    <2>2. PICK o \in Objects, p \in Pods :
            /\ o = FreshObject /\ p = creator[id].pod
            /\ Open(o, p, id, bs) /\ CreatorGoes(id, "recheck", o)
      BY Zenon, <1>1, <2>1, FreshIsUnused
    <2>3. /\ creator'[id] = [pc |-> "recheck", pod |-> creator[id].pod, obj |-> o]
          /\ \A k \in SessionIDs : k # id => creator'[k] = creator[k]
      <3>1. Types /\ CreatorGoes(id, "recheck", o)
        BY Zenon, <2>2 DEF SInv
      <3> QED
        BY Zenon, <3>1, CreatorMoves
    <2>4. creator'[id].pc = "recheck" /\ creator'[id].obj = o
      BY <2>3
    <2>5. SettledStays
      BY Zenon, <1>1, <2>3 DEF SettledStays, Settled
    <2>6. \A k \in SessionIDs : creator'[k].pc \notin WithObject => creator'[k].obj = NoObject
      BY Zenon, <2>3, <2>4 DEF LeakInv, Placed, WithObject
    <2>7. \A k \in SessionIDs : creator[k].obj # NoObject => creator'[k].obj = creator[k].obj
      BY Zenon, <1>1, <2>3
    <2> QED
      <3>1. Owned(o, p, id)'
        BY Zenon, <2>4 DEF Owned
      <3> QED
        BY Zenon, <1>1, <2>1, <2>2, <2>5, <2>6, <2>7, <3>1, OpenLeaks DEF Restored
  <1> QED
    BY Zenon, <1>2, <1>3 DEF MakeSession

LEMMA RestoreSessionLeaks ==
  ASSUME SInv, LeakInv, NEW p \in Pods, NEW id \in SessionIDs, RestoreSession(p, id)
  PROVE  LeakInv'
  <1>1. PICK f \in Flight : f = flight[p][id]
    BY Zenon, FlightType
  <1>2. f.pc = "restore" /\ ~Restored(p, id) /\ UNCHANGED creator
    BY <1>1 DEF RestoreSession, Restored
  <1>3. CASE FlightGoes(p, id, noFlight) /\ UNCHANGED cacheVars
    BY Zenon, <1>2, <1>3, FlightAdvances DEF cacheVars
  <1>4. CASE \E bs \in SUBSET f.loaded :
               /\ HasFree
               /\ Open(FreshObject, p, id, bs)
               /\ FlightGoes(p, id, [f EXCEPT !.pc = "writeback",
                                              !.obj = FreshObject, !.loaded = {}])
               /\ UNCHANGED <<cache, lru>>
    <2>1. PICK o \in Objects : o = FreshObject
      BY Zenon, <1>4, FreshIsUnused
    <2> DEFINE g == [f EXCEPT !.pc = "writeback", !.obj = o, !.loaded = {}]
    <2>2. SUBSET f.loaded \subseteq SUBSET Backends
      BY Zenon DEF Flight
    <2>3. PICK bs \in SUBSET Backends : /\ HasFree /\ UNCHANGED cache
                                        /\ Open(o, p, id, bs)
                                        /\ FlightGoes(p, id, g)
      BY Zenon, <1>4, <2>1, <2>2
    <2>4. g.pc = "writeback" /\ g.obj = o
      BY Zenon DEF Flight
    <2> HIDE DEF g
    <2>5. /\ flight'[p][id] = g
          /\ \A q \in Pods, k \in SessionIDs : q # p \/ k # id => flight'[q][k] = flight[q][k]
      BY Zenon, <2>3 DEF SInv, Types, FlightGoes
    <2>6. Owned(o, p, id)'
      BY <2>4, <2>5 DEF Owned, Restored
    <2>7. \A q \in Pods, k \in SessionIDs :
            Restored(q, k) => Restored(q, k)' /\ flight'[q][k].obj = flight[q][k].obj
      BY <1>2, <2>5 DEF Restored
    <2>8. SettledStays
      BY Zenon, <1>2 DEF SettledStays, Settled
    <2> QED
      BY Zenon, <1>2, <2>1, <2>3, <2>6, <2>7, <2>8, OpenLeaks DEF LeakInv, Placed
  <1> QED
    BY Zenon, <1>1, <1>3, <1>4 DEF RestoreSession

\* Set replaces the entry of the session without closing it, which a Get may
\* have restored since StoreMetadata: the one step that leaves a stray behind.
LEMMA CacheSessionLeaks ==
  ASSUME SInv, LeakInv, NEW id \in SessionIDs, CacheSession(id)
  PROVE  LeakInv'
  <1>1. /\ creator[id].pc = "caching" /\ creator[id].obj # NoObject /\ UNCHANGED flight
    BY Zenon DEF CacheSession, SInv, CreatorHolds
  <1>2. PICK o \in Objects, p \in Pods : /\ o = creator[id].obj /\ p = creator[id].pod
                                         /\ OpenFor(o, p, id)
    BY Zenon, <1>1 DEF SInv, CreatorOwns, OpenFor
  <1>3. PICK os \in SUBSET Objects : AddCloses(p, id, o, os)
    <2>1. Add(p, id, o)
      BY Zenon, <1>2 DEF CacheSession
    <2> QED
      BY Zenon, <2>1, AddEffect
  <1>4. PICK pc \in {"done", "failed"} : CreatorGoes(id, pc, NoObject)
    BY Zenon DEF CacheSession
  <1>5. /\ creator'[id] = [pc |-> pc, pod |-> creator[id].pod, obj |-> NoObject]
        /\ \A k \in SessionIDs : k # id => creator'[k] = creator[k]
    BY Zenon, <1>4, CreatorMoves DEF SInv
  <1>6. creator'[id].pod = p /\ creator'[id].obj = NoObject /\ Settled(id)'
    BY <1>2, <1>5 DEF Settled
  <1>7. /\ \A x \in Objects : x \notin os => objects'[x] = objects[x]
        /\ \A x \in os : objects'[x].state = "closed"
    BY Zenon, <1>3, ClosePreserves DEF AddCloses
  <1>8. Placed'
    <2>1. \A x \in Objects : objects'[x].state = "open" => objects'[x].pod \in Pods
      BY <1>7 DEF LeakInv, Placed
    <2>2. \A k \in SessionIDs : creator'[k].pc \notin WithObject => creator'[k].obj = NoObject
      BY Zenon, <1>5, <1>6 DEF LeakInv, Placed
    <2> QED
      BY Zenon, <2>1, <2>2 DEF Placed
  <1>9. ASSUME NEW x \in Objects, NEW q \in Pods, NEW k \in SessionIDs, Stray(x, q, k)',
               k # id
        PROVE  Stray(x, q, k)
    <2>1. OpenFor(x, q, k) /\ x \notin os /\ x # NoObject
      BY Zenon, <1>7, <1>9, SessionAssumption DEF Stray, OpenFor
    <2>2. cache'[q][k] # x /\ creator[k].obj # x /\ ~(Restored(q, k) /\ flight[q][k].obj = x)
      BY Zenon, <1>1, <1>5, <1>9 DEF Stray, Owned, Restored
    <2>3. cache[q][k] # x
      BY Zenon, <1>3, <1>9, <2>1, <2>2 DEF AddCloses, Cached
    <2> QED
      BY Zenon, <2>1, <2>2, <2>3 DEF Stray, Owned
  <1>10. ASSUME NEW x \in Objects, NEW q \in Pods, Stray(x, q, id)'
         PROVE  q = p /\ x = cache[p][id]
    <2>1. OpenFor(x, q, id) /\ x \notin os /\ x # NoObject
      BY Zenon, <1>7, <1>10, SessionAssumption DEF Stray, OpenFor
    <2>2. ~Stray(x, q, id)
      BY <1>1, <2>1 DEF LeakInv, StraysSettled, Settled
    <2>3. cache'[q][id] # x /\ ~(Restored(q, id) /\ flight[q][id].obj = x)
      BY Zenon, <1>1, <1>10 DEF Stray, Owned, Restored
    <2>4. cache[q][id] = x \/ x = o
      BY Zenon, <1>2, <2>1, <2>2, <2>3 DEF Stray, Owned
    <2>5. x # o
      BY Zenon, <1>2, <1>3, <2>1, <2>3 DEF AddCloses, OpenFor
    <2>6. q = p
      BY ZenonT(30), <1>3, <2>1, <2>3, <2>4, <2>5 DEF AddCloses, Cached
    <2> QED
      BY Zenon, <2>4, <2>5, <2>6
  <1>11. StraysSettled'
    <2> SUFFICES ASSUME NEW x \in Objects, NEW q \in Pods, NEW k \in SessionIDs,
                        Stray(x, q, k)'
                 PROVE  q = creator'[k].pod /\ Settled(k)'
      BY Zenon DEF StraysSettled
    <2>1. CASE k = id
      BY Zenon, <1>6, <1>10, <2>1
    <2>2. CASE k # id
      BY <1>5, <1>9, <2>2 DEF LeakInv, StraysSettled, Settled
    <2> QED
      BY Zenon, <2>1, <2>2
  <1>12. OneStray'
    <2> SUFFICES ASSUME NEW x \in Objects, NEW y \in Objects, NEW q \in Pods,
                        NEW k \in SessionIDs, Stray(x, q, k)', Stray(y, q, k)'
                 PROVE  x = y
      BY Zenon DEF OneStray
    <2>1. CASE k = id
      BY Zenon, <1>10, <2>1
    <2>2. CASE k # id
      BY Zenon, <1>9, <2>2 DEF LeakInv, OneStray
    <2> QED
      BY Zenon, <2>1, <2>2
  <1> QED
    BY Zenon, <1>8, <1>11, <1>12 DEF LeakInv

LEMMA RestartLeaks ==
  ASSUME SInv, LeakInv, NEW p \in Pods, Restart(p)
  PROVE  LeakInv'
  <1>1. /\ \A q \in Pods, id \in SessionIDs : q # p =>
             cache'[q][id] = cache[q][id] /\ flight'[q][id] = flight[q][id]
        /\ \A o \in Objects : objects[o].pod # p => objects'[o] = objects[o]
        /\ \A o \in Objects : objects[o].pod = p => objects'[o] = freeObject
    BY Zenon DEF Restart, SInv, Types
  <1>2. /\ \A id \in SessionIDs : creator[id].pod # p => creator'[id] = creator[id]
        /\ \A id \in SessionIDs : creator[id].pod = p =>
             /\ creator'[id].pc = "done" /\ creator'[id].obj = NoObject
             /\ creator'[id].pod = p
    BY Zenon DEF Restart
  <1>3. freeObject.state # "open" /\ freeObject.pod = "none"
    BY Zenon DEF freeObject
  <1>4. Placed'
    <2>1. \A o \in Objects : objects'[o].state = "open" => objects'[o].pod \in Pods
      BY <1>1, <1>3 DEF LeakInv, Placed
    <2>2. \A k \in SessionIDs : creator'[k].pc \notin WithObject => creator'[k].obj = NoObject
      BY Zenon, <1>2 DEF LeakInv, Placed
    <2> QED
      BY Zenon, <2>1, <2>2 DEF Placed
  <1>5. SettledStays
    BY <1>2 DEF SettledStays, Settled
  <1>6. ASSUME NEW x \in Objects, NEW q \in Pods, NEW k \in SessionIDs, Stray(x, q, k)'
        PROVE  Stray(x, q, k)
    <2>1. OpenFor(x, q, k) /\ q # p /\ x # NoObject
      BY Zenon, <1>1, <1>3, <1>6, SessionAssumption DEF Stray, OpenFor
    <2>2. cache[q][k] # x /\ ~(Restored(q, k) /\ flight[q][k].obj = x)
      BY Zenon, <1>1, <1>6, <2>1 DEF Stray, Owned, Restored
    <2>3. creator[k].obj # x
      <3>1. CASE creator[k].pod # p
        BY Zenon, <1>2, <1>6, <3>1 DEF Stray, Owned
      <3>2. CASE creator[k].pod = p
        BY ZenonT(30), <2>1, <3>2 DEF SInv, CreatorOwns, OpenFor
      <3> QED
        BY Zenon, <3>1, <3>2
    <2> QED
      BY Zenon, <2>1, <2>2, <2>3 DEF Stray, Owned
  <1> QED
    BY Zenon, <1>4, <1>5, <1>6, StraysDwindle DEF NoNewStray

LEMMA OtherLeaks ==
  ASSUME SInv, LeakInv, NEW id \in SessionIDs,
         \/ \E c \in Callers : Terminate(id, c)
         \/ BeginNotify(id) \/ NotifyBackendExpired(id) \/ KeyExpires(id)
  PROVE  LeakInv'
  <1>1. CASE \E c \in Callers : BeginTerminate(id, c)
    <2>1. UNCHANGED <<objects, cache, flight>>
      BY Zenon, <1>1 DEF BeginTerminate, cacheVars
    <2>2. CASE UNCHANGED creator
      BY Zenon, <2>1, <2>2, NobodyMoves
    <2>3. CASE creator[id].pc = "failed" /\ CreatorGoes(id, "done", NoObject)
      <3>1. creator[id].obj = NoObject
        BY Zenon, <2>3 DEF LeakInv, Placed, WithObject
      <3> QED
        BY Zenon, <2>1, <2>3, <3>1, CreatorAdvances
    <2> QED
      BY Zenon, <1>1, <2>2, <2>3 DEF BeginTerminate
  <1>2. CASE \/ \E c \in Callers : TerminateDeletes(id, c) \/ TerminateMarks(id, c)
             \/ BeginNotify(id) \/ NotifyBackendExpired(id) \/ KeyExpires(id)
    <2>1. UNCHANGED <<objects, cache, flight, creator>>
      BY Zenon, <1>2 DEF TerminateDeletes, TerminateMarks, BeginNotify, NotifyBackendExpired,
                         KeyExpires, cacheVars, callVars
    <2> QED
      BY Zenon, <2>1, NobodyMoves
  <1> QED
    BY Zenon, <1>1, <1>2 DEF Terminate

LEMMA InitLeakInv ==
  ASSUME Init
  PROVE  LeakInv
  <1>1. /\ objects = [o \in Objects |-> freeObject]
        /\ creator = [id \in SessionIDs |->
                        [pc |-> "unused", pod |-> "none", obj |-> NoObject]]
    BY Zenon DEF Init, CacheInit
  <1>2. \A o \in Objects : objects[o].state # "open"
    BY Zenon, <1>1 DEF freeObject
  <1>3. \A o \in Objects, p \in Pods, k \in SessionIDs : ~Stray(o, p, k)
    BY Zenon, <1>2 DEF Stray, OpenFor
  <1> QED
    BY Zenon, <1>1, <1>2, <1>3 DEF LeakInv, Placed, StraysSettled, OneStray

LEMMA NextLeakInv ==
  ASSUME SInv, LeakInv, [Next]_vars
  PROVE  LeakInv'
  <1>1. CASE UNCHANGED vars
    BY Zenon, <1>1, NobodyMoves DEF vars, cacheVars, callVars
  <1>2. ASSUME NEW id \in SessionIDs,
               Generate(id) \/ CreateSession(id) \/ (\E c \in Callers : Terminate(id, c))
               \/ BeginNotify(id) \/ NotifyBackendExpired(id) \/ KeyExpires(id)
        PROVE  LeakInv'
    BY Zenon, <1>2, GenerateLeaks, CreateSessionLeaks, MakeSessionLeaks, CacheSessionLeaks,
       OtherLeaks DEF CreateSession
  <1>3. ASSUME NEW p \in Pods, NEW id \in SessionIDs, Get(p, id)
        PROVE  LeakInv'
    BY Zenon, <1>3, GetLeaks, RestoreSessionLeaks DEF Get
  <1>4. ASSUME NEW p \in Pods, Restart(p)
        PROVE  LeakInv'
    BY Zenon, <1>4, RestartLeaks
  <1> QED
    BY Zenon, <1>1, <1>2, <1>3, <1>4 DEF Next

-----------------------------------------------------------------------------
(* The LRU list of a pod's cache.                                           *)

Has(s, k) == \E i \in 1 .. Len(s) : s[i] = k

Distinct(s) == \A i, j \in 1 .. Len(s) : s[i] = s[j] => i = j

LEMMA WithoutEffect ==
  ASSUME NEW S, NEW s \in Seq(S), Distinct(s), NEW ks,
         \A i, j \in 1 .. Len(s) : s[i] \in ks /\ s[j] \in ks => i = j
  PROVE  /\ Without(s, ks) \in Seq(S) /\ Distinct(Without(s, ks))
         /\ \A k : Has(Without(s, ks), k) <=> Has(s, k) /\ k \notin ks
         /\ Len(Without(s, ks)) \in Nat
         /\ Len(Without(s, ks)) =
              IF \E i \in 1 .. Len(s) : s[i] \in ks THEN Len(s) - 1 ELSE Len(s)
  <1> DEFINE w == Without(s, ks)
  <1>1. CASE ~\E i \in 1 .. Len(s) : s[i] \in ks
    <2>1. w = s
      BY Zenon, <1>1 DEF Without
    <2> HIDE DEF w
    <2>2. \A k : Has(s, k) => k \notin ks
      BY Zenon, <1>1 DEF Has
    <2>3. Len(s) \in Nat
      OBVIOUS
    <2> QED
      BY Zenon, <1>1, <2>1, <2>2, <2>3 DEF w
  <1>2. CASE \E i \in 1 .. Len(s) : s[i] \in ks
    <2>1. PICK at \in 1 .. Len(s) :
            /\ s[at] \in ks
            /\ w = [i \in 1 .. Len(s) - 1 |-> s[IF i < at THEN i ELSE i + 1]]
      <3> DEFINE c == CHOOSE i \in 1 .. Len(s) : s[i] \in ks
      <3>1. c \in 1 .. Len(s) /\ s[c] \in ks
        BY Zenon, <1>2
      <3>2. w = [i \in 1 .. Len(s) - 1 |-> s[IF i < c THEN i ELSE i + 1]]
        BY Zenon, <1>2 DEF Without
      <3> HIDE DEF c, w
      <3> QED
        BY Zenon, <3>1, <3>2
    <2> HIDE DEF w
    <2>2. Len(s) \in Nat \ {0} /\ \A i \in 1 .. Len(s) : s[i] \in S
      OBVIOUS
    <2>3. w \in Seq(S) /\ Len(w) = Len(s) - 1 /\ Len(w) \in Nat
      BY <2>1, <2>2
    <2>4. /\ \A i \in 1 .. Len(w) : i < at => w[i] = s[i]
          /\ \A i \in 1 .. Len(w) : i >= at => w[i] = s[i + 1]
      BY <2>1, <2>2, <2>3
    <2>5. Distinct(w)
      <3> SUFFICES ASSUME NEW i \in 1 .. Len(w), NEW j \in 1 .. Len(w), w[i] = w[j]
                   PROVE  i = j
        BY Zenon DEF Distinct
      <3> QED
        BY <2>2, <2>3, <2>4 DEF Distinct
    <2>6. \A k : Has(w, k) => Has(s, k) /\ k \notin ks
      <3> SUFFICES ASSUME NEW i \in 1 .. Len(w)
                   PROVE  Has(s, w[i]) /\ w[i] \notin ks
        BY Zenon DEF Has
      <3>1. PICK j \in 1 .. Len(s) : w[i] = s[j] /\ j # at
        BY <2>2, <2>3, <2>4
      <3> QED
        BY Zenon, <2>1, <3>1 DEF Has
    <2>7. \A k : Has(s, k) /\ k \notin ks => Has(w, k)
      <3> SUFFICES ASSUME NEW j \in 1 .. Len(s), s[j] \notin ks
                   PROVE  \E i \in 1 .. Len(w) : w[i] = s[j]
        BY Zenon DEF Has
      <3>1. CASE j < at
        <4>1. j \in 1 .. Len(w)
          BY <2>2, <2>3, <3>1
        <4> QED
          BY Zenon, <2>4, <3>1, <4>1
      <3>2. CASE j > at
        <4>1. j - 1 \in 1 .. Len(w) /\ w[j - 1] = s[j]
          BY <2>1, <2>2, <2>3, <2>4, <3>2
        <4> QED
          BY Zenon, <4>1
      <3>3. j # at
        BY Zenon, <2>1
      <3> QED
        BY <3>1, <3>2, <3>3
    <2> QED
      BY <1>2, <2>3, <2>5, <2>6, <2>7 DEF w
  <1> QED
    BY Zenon, <1>1, <1>2

LEMMA PushEffect ==
  ASSUME NEW S, NEW s \in Seq(S), Distinct(s), NEW x \in S, ~Has(s, x)
  PROVE  /\ <<x>> \o s \in Seq(S) /\ Distinct(<<x>> \o s)
         /\ \A k : Has(<<x>> \o s, k) <=> Has(s, k) \/ k = x
         /\ Len(<<x>> \o s) = Len(s) + 1
  <1> DEFINE w == <<x>> \o s
  <1>1. w \in Seq(S) /\ Len(w) = Len(s) + 1 /\ Len(s) \in Nat
    OBVIOUS
  <1>2. w[1] = x /\ \A i \in 2 .. Len(w) : w[i] = s[i - 1] /\ i - 1 \in 1 .. Len(s)
    OBVIOUS
  <1> HIDE DEF w
  <1>3. Distinct(w)
    <2> SUFFICES ASSUME NEW i \in 1 .. Len(w), NEW j \in 1 .. Len(w), w[i] = w[j]
                 PROVE  i = j
      BY Zenon DEF Distinct
    <2>1. CASE i = 1 /\ j = 1
      BY Zenon, <2>1
    <2>2. CASE i = 1 /\ j # 1
      <3>1. w[j] = s[j - 1] /\ j - 1 \in 1 .. Len(s)
        BY <1>1, <1>2, <2>2
      <3> QED
        BY Zenon, <1>2, <2>2, <3>1 DEF Has
    <2>3. CASE i # 1 /\ j = 1
      <3>1. w[i] = s[i - 1] /\ i - 1 \in 1 .. Len(s)
        BY <1>1, <1>2, <2>3
      <3> QED
        BY Zenon, <1>2, <2>3, <3>1 DEF Has
    <2>4. CASE i # 1 /\ j # 1
      <3>1. /\ w[i] = s[i - 1] /\ i - 1 \in 1 .. Len(s)
            /\ w[j] = s[j - 1] /\ j - 1 \in 1 .. Len(s)
        BY <1>1, <1>2, <2>4
      <3>2. i - 1 = j - 1
        BY Zenon, <3>1 DEF Distinct
      <3> QED
        BY <1>1, <3>2
    <2> QED
      BY Zenon, <2>1, <2>2, <2>3, <2>4
  <1>4. ASSUME NEW k PROVE Has(w, k) <=> Has(s, k) \/ k = x
    <2>1. Has(w, k) => Has(s, k) \/ k = x
      BY <1>1, <1>2 DEF Has
    <2>2. ASSUME NEW i \in 1 .. Len(s) PROVE w[i + 1] = s[i] /\ i + 1 \in 1 .. Len(w)
      <3>1. i + 1 \in 2 .. Len(w) /\ i + 1 \in 1 .. Len(w) /\ (i + 1) - 1 = i
        BY <1>1
      <3> QED
        BY Zenon, <1>2, <3>1
    <2>3. 1 \in 1 .. Len(w)
      BY <1>1
    <2> QED
      BY Zenon, <1>2, <2>1, <2>2, <2>3 DEF Has
  <1> QED
    BY Zenon, <1>1, <1>3, <1>4 DEF w

\* The list of pod p names the sessions in its cache, each once.
LruFits(p) ==
  /\ lru[p] \in Seq(SessionIDs) /\ Distinct(lru[p]) /\ Len(lru[p]) <= Capacity
  /\ \A k \in SessionIDs : Cached(p, k) <=> Has(lru[p], k)

LruInv ==
  /\ lru \in [Pods -> Seq(SessionIDs)]
  /\ \A p \in Pods : LruFits(p)

LEMMA LruMoves ==
  ASSUME LruInv, NEW p \in Pods, NEW s \in Seq(SessionIDs), Distinct(s), Len(s) <= Capacity,
         lru' = [lru EXCEPT ![p] = s],
         \A k \in SessionIDs : Cached(p, k)' <=> Has(s, k),
         \A q \in Pods, k \in SessionIDs : q # p => cache'[q][k] = cache[q][k]
  PROVE  LruInv'
  <1>1. /\ lru' \in [Pods -> Seq(SessionIDs)] /\ lru'[p] = s
        /\ \A q \in Pods : q # p => lru'[q] = lru[q]
    BY Zenon DEF LruInv
  <1>2. ASSUME NEW q \in Pods PROVE LruFits(q)'
    <2>1. CASE q = p
      BY Zenon, <1>1, <2>1 DEF LruFits
    <2>2. CASE q # p
      BY ZenonT(30), <1>1, <2>2 DEF LruInv, LruFits, Cached
    <2> QED
      BY Zenon, <2>1, <2>2
  <1> QED
    BY Zenon, <1>1, <1>2 DEF LruInv

LEMMA LruStays ==
  ASSUME LruInv, UNCHANGED <<cache, lru>>
  PROVE  LruInv'
  <1>1. \A p \in Pods : LruFits(p)'
    BY Zenon DEF LruInv, LruFits, Cached
  <1> QED
    BY Zenon, <1>1 DEF LruInv

LEMMA TouchLru ==
  ASSUME LruInv, NEW p \in Pods, NEW id \in SessionIDs, Cached(p, id), Touch(p, id),
         UNCHANGED cache
  PROVE  LruInv'
  <1> DEFINE s == lru[p]
             w == Without(s, {id})
  <1>1. /\ s \in Seq(SessionIDs) /\ Distinct(s) /\ Len(s) <= Capacity
        /\ \A k \in SessionIDs : Cached(p, k) <=> Has(s, k)
        /\ lru' = [lru EXCEPT ![p] = <<id>> \o w]
    BY Zenon DEF LruInv, LruFits, Touch
  <1>2. /\ \A i, j \in 1 .. Len(s) : s[i] \in {id} /\ s[j] \in {id} => i = j
        /\ \E i \in 1 .. Len(s) : s[i] \in {id}
    BY Zenon, <1>1 DEF Distinct, Has
  <1> HIDE DEF s
  <1>3. /\ w \in Seq(SessionIDs) /\ Distinct(w) /\ Len(w) = Len(s) - 1
        /\ \A k : Has(w, k) <=> Has(s, k) /\ k \notin {id}
    BY Zenon, <1>1, <1>2, WithoutEffect
  <1> HIDE DEF w
  <1>4. /\ <<id>> \o w \in Seq(SessionIDs) /\ Distinct(<<id>> \o w)
        /\ \A k : Has(<<id>> \o w, k) <=> Has(w, k) \/ k = id
        /\ Len(<<id>> \o w) = Len(w) + 1
    BY Zenon, <1>3, PushEffect
  <1>5. Len(<<id>> \o w) <= Capacity
    BY <1>1, <1>3, <1>4
  <1>6. \A k \in SessionIDs : Cached(p, k)' <=> Has(<<id>> \o w, k)
    BY Zenon, <1>1, <1>3, <1>4 DEF Cached
  <1> QED
    BY Zenon, <1>1, <1>4, <1>5, <1>6, LruMoves

LEMMA AddLru ==
  ASSUME SInv, LruInv, NEW p \in Pods, NEW id \in SessionIDs, NEW o \in Objects,
         Add(p, id, o)
  PROVE  LruInv'
  <1> DEFINE s == lru[p]
             gone == Victims(p, id)
             w == Without(s, {id} \cup gone)
  <1>1. /\ s \in Seq(SessionIDs) /\ Distinct(s) /\ Len(s) <= Capacity
        /\ \A k \in SessionIDs : Cached(p, k) <=> Has(s, k)
    BY Zenon DEF LruInv, LruFits
  <1>2. /\ lru' = [lru EXCEPT ![p] = <<id>> \o w]
        /\ cache' = [cache EXCEPT ![p] =
                       [k \in SessionIDs |-> IF k = id THEN o
                                             ELSE IF k \in gone THEN NoObject
                                             ELSE cache[p][k]]]
    BY Zenon DEF Add
  <1>3. /\ gone \subseteq SessionIDs
        /\ \A k \in gone : ~Cached(p, id) /\ Len(s) >= Capacity /\ k = s[Len(s)]
        /\ ~Cached(p, id) /\ Len(s) >= Capacity /\ s[Len(s)] \in SessionIDs =>
             s[Len(s)] \in gone
    BY Zenon DEF Victims
  <1> HIDE DEF s, gone
  <1>4. Len(s) \in Nat /\ Capacity \in Nat \ {0}
        /\ (Len(s) >= Capacity => Len(s) \in 1 .. Len(s) /\ s[Len(s)] \in SessionIDs)
    BY <1>1, CapacityAssumption
  <1>5. ASSUME NEW i \in 1 .. Len(s), NEW j \in 1 .. Len(s),
               s[i] \in {id} \cup gone, s[j] \in {id} \cup gone
        PROVE  i = j
    <2>1. CASE Cached(p, id)
      BY Zenon, <1>1, <1>3, <1>5, <2>1 DEF Distinct
    <2>2. CASE ~Cached(p, id)
      <3>1. s[i] # id /\ s[j] # id
        BY Zenon, <1>1, <2>2 DEF Has
      <3>2. s[i] = s[j]
        BY Zenon, <1>3, <1>5, <3>1
      <3> QED
        BY Zenon, <1>1, <3>2 DEF Distinct
    <2> QED
      BY Zenon, <2>1, <2>2
  <1>6. /\ w \in Seq(SessionIDs) /\ Distinct(w) /\ Len(w) \in Nat
        /\ \A k : Has(w, k) <=> Has(s, k) /\ k \notin {id} \cup gone
        /\ Len(w) = IF \E i \in 1 .. Len(s) : s[i] \in {id} \cup gone
                    THEN Len(s) - 1 ELSE Len(s)
    <2>1. PICK ks : ks = {id} \cup gone
      BY Zenon
    <2>2. \A i, j \in 1 .. Len(s) : s[i] \in ks /\ s[j] \in ks => i = j
      BY Zenon, <1>5, <2>1
    <2>3. /\ Without(s, ks) \in Seq(SessionIDs) /\ Distinct(Without(s, ks))
          /\ Len(Without(s, ks)) \in Nat
          /\ \A k : Has(Without(s, ks), k) <=> Has(s, k) /\ k \notin ks
          /\ Len(Without(s, ks)) = IF \E i \in 1 .. Len(s) : s[i] \in ks
                                   THEN Len(s) - 1 ELSE Len(s)
      BY Zenon, <1>1, <2>2, WithoutEffect
    <2> QED
      BY Zenon, <2>1, <2>3
  <1>7. Len(w) + 1 <= Capacity
    <2>1. CASE Len(s) < Capacity
      BY <1>4, <1>6, <2>1
    <2>2. CASE Len(s) >= Capacity
      <3>1. \E i \in 1 .. Len(s) : s[i] \in {id} \cup gone
        BY Zenon, <1>1, <1>3, <1>4, <2>2 DEF Has
      <3> QED
        BY <1>1, <1>4, <1>6, <3>1
    <2> QED
      BY <1>4, <2>1, <2>2
  <1> HIDE DEF w
  <1>8. /\ <<id>> \o w \in Seq(SessionIDs) /\ Distinct(<<id>> \o w)
        /\ \A k : Has(<<id>> \o w, k) <=> Has(w, k) \/ k = id
        /\ Len(<<id>> \o w) = Len(w) + 1
    <2>1. ~Has(w, id)
      BY Zenon, <1>6
    <2> QED
      BY Zenon, <1>6, <2>1, PushEffect
  <1>9. Len(<<id>> \o w) <= Capacity
    BY <1>7, <1>8
  <1>10. cache \in [Pods -> [SessionIDs -> Ref]] /\ o # NoObject
    BY Zenon, SessionAssumption DEF SInv, Types
  <1>11. ASSUME NEW k \in SessionIDs PROVE Cached(p, k)' <=> Has(<<id>> \o w, k)
    <2>1. cache'[p][k] = IF k = id THEN o ELSE IF k \in gone THEN NoObject ELSE cache[p][k]
      BY Zenon, <1>2, <1>10
    <2>2. CASE k = id
      BY Zenon, <1>8, <1>10, <2>1, <2>2 DEF Cached
    <2>3. CASE k # id
      BY Zenon, <1>1, <1>6, <1>8, <2>1, <2>3 DEF Cached
    <2> QED
      BY Zenon, <2>2, <2>3
  <1>12. \A q \in Pods, k \in SessionIDs : q # p => cache'[q][k] = cache[q][k]
    BY Zenon, <1>2, <1>10
  <1> QED
    BY Zenon, <1>2, <1>8, <1>9, <1>11, <1>12, LruMoves

LEMMA EvictLru ==
  ASSUME SInv, LruInv, NEW p \in Pods, NEW id \in SessionIDs, NEW o \in Objects,
         EvictEntry(p, id, o)
  PROVE  LruInv'
  <1>1. CASE cache[p][id] # o
    <2>1. UNCHANGED <<cache, lru>>
      BY Zenon, <1>1 DEF EvictEntry, cacheVars
    <2> QED
      BY Zenon, <2>1, LruStays
  <1>2. CASE cache[p][id] = o
    <2> DEFINE s == lru[p]
               w == Without(s, {id})
    <2>1. /\ s \in Seq(SessionIDs) /\ Distinct(s) /\ Len(s) <= Capacity
          /\ \A k \in SessionIDs : Cached(p, k) <=> Has(s, k)
          /\ lru' = [lru EXCEPT ![p] = w]
          /\ cache' = [cache EXCEPT ![p][id] = NoObject]
      BY Zenon, <1>2 DEF LruInv, LruFits, EvictEntry
    <2>2. \A i, j \in 1 .. Len(s) : s[i] \in {id} /\ s[j] \in {id} => i = j
      BY Zenon, <2>1 DEF Distinct
    <2> HIDE DEF s
    <2>3. /\ w \in Seq(SessionIDs) /\ Distinct(w) /\ Len(w) \in Nat
          /\ \A k : Has(w, k) <=> Has(s, k) /\ k \notin {id}
          /\ Len(w) = IF \E i \in 1 .. Len(s) : s[i] \in {id} THEN Len(s) - 1 ELSE Len(s)
      BY Zenon, <2>1, <2>2, WithoutEffect
    <2>4. Len(w) <= Capacity
      BY <2>1, <2>3, CapacityAssumption
    <2> HIDE DEF w
    <2>5. cache \in [Pods -> [SessionIDs -> Ref]]
      BY Zenon DEF SInv, Types
    <2>6. /\ \A k \in SessionIDs : cache'[p][k] = IF k = id THEN NoObject ELSE cache[p][k]
          /\ \A q \in Pods, k \in SessionIDs : q # p => cache'[q][k] = cache[q][k]
      BY Zenon, <2>1, <2>5
    <2>7. \A k \in SessionIDs : Cached(p, k)' <=> Has(w, k)
      BY Zenon, <2>1, <2>3, <2>6 DEF Cached
    <2> QED
      BY Zenon, <2>1, <2>3, <2>4, <2>6, <2>7, LruMoves
  <1> QED
    BY Zenon, <1>1, <1>2

LEMMA NextLruInv ==
  ASSUME SInv, LruInv, [Next]_vars
  PROVE  LruInv'
  <1>1. CASE UNCHANGED vars
    BY Zenon, <1>1, LruStays DEF vars, cacheVars
  <1>2. ASSUME NEW id \in SessionIDs,
               Generate(id) \/ (\E c \in Callers : Terminate(id, c))
               \/ BeginNotify(id) \/ NotifyBackendExpired(id) \/ KeyExpires(id)
        PROVE  LruInv'
    <2>1. UNCHANGED <<cache, lru>>
      BY Zenon, <1>2 DEF Generate, Terminate, BeginTerminate, TerminateDeletes,
         TerminateMarks, BeginNotify, NotifyBackendExpired, KeyExpires, cacheVars
    <2> QED
      BY Zenon, <2>1, LruStays
  <1>3. ASSUME NEW id \in SessionIDs, CreateSession(id) PROVE LruInv'
    <2>1. CASE CacheSession(id)
      <3>1. PICK o \in Objects, p \in Pods : o = creator[id].obj /\ p = creator[id].pod
        BY Zenon, <2>1 DEF CacheSession, SInv, CreatorHolds, CreatorOwns, OpenFor
      <3> QED
        BY Zenon, <2>1, <3>1, AddLru DEF CacheSession
    <2>2. CASE ~CacheSession(id)
      <3>1. UNCHANGED <<cache, lru>>
        BY Zenon, <1>3, <2>2 DEF CreateSession, LoadPlaceholder, MakeSession, Recheck,
           StoreMetadata, cleanupFailedPlaceholder, cacheVars
      <3> QED
        BY Zenon, <3>1, LruStays
    <2> QED
      BY Zenon, <2>1, <2>2
  <1>4. ASSUME NEW p \in Pods, NEW id \in SessionIDs, Get(p, id) PROVE LruInv'
    <2>1. CASE BeginGet(p, id)
      BY Zenon, <2>1, TouchLru, LruStays DEF BeginGet
    <2>2. CASE getHitEvicts(p, id)
      <3>1. PICK o \in Objects : o = flight[p][id].obj
        BY <2>2, FlightType DEF getHitEvicts, OpenFor
      <3> QED
        BY Zenon, <2>2, <3>1, EvictLru DEF getHitEvicts
    <2>3. CASE AddLoaded(p, id) \/ TakeWinner(p, id)
      <3>1. PICK o \in Objects : o = flight[p][id].obj
        BY Zenon, <2>3, FlightType DEF AddLoaded, TakeWinner, OpenFor
      <3>2. \/ UNCHANGED <<cache, lru>> \/ Add(p, id, o)
            \/ Cached(p, id) /\ Touch(p, id) /\ UNCHANGED cache
        BY Zenon, <2>3, <3>1 DEF AddLoaded, TakeWinner, cacheVars
      <3> QED
        BY ZenonT(30), <3>2, AddLru, TouchLru, LruStays
    <2>4. CASE \/ checkSession(p, id) \/ loadSession(p, id) \/ RestoreSession(p, id)
               \/ WriteBack(p, id) \/ EndGet(p, id)
      <3>1. UNCHANGED <<cache, lru>>
        BY Zenon, <2>4 DEF checkSession, loadSession, RestoreSession, WriteBack, EndGet,
           cacheVars
      <3> QED
        BY Zenon, <3>1, LruStays
    <2> QED
      BY Zenon, <1>4, <2>1, <2>2, <2>3, <2>4 DEF Get
  <1>5. ASSUME NEW p \in Pods, Restart(p) PROVE LruInv'
    <2>1. /\ lru' = [lru EXCEPT ![p] = << >>]
          /\ cache' = [cache EXCEPT ![p] = [id \in SessionIDs |-> NoObject]]
          /\ cache \in [Pods -> [SessionIDs -> Ref]]
      BY Zenon, <1>5 DEF Restart, SInv, Types
    <2>2. /\ \A k \in SessionIDs : cache'[p][k] = NoObject
          /\ \A q \in Pods, k \in SessionIDs : q # p => cache'[q][k] = cache[q][k]
      BY Zenon, <2>1
    <2>3. /\ << >> \in Seq(SessionIDs) /\ Distinct(<< >>) /\ Len(<< >>) <= Capacity
          /\ \A k : ~Has(<< >>, k)
      BY CapacityAssumption DEF Distinct, Has
    <2>4. \A k \in SessionIDs : Cached(p, k)' <=> Has(<< >>, k)
      BY Zenon, <2>2, <2>3 DEF Cached
    <2> QED
      BY Zenon, <2>1, <2>2, <2>3, <2>4, LruMoves
  <1> QED
    BY Zenon, <1>1, <1>2, <1>3, <1>4, <1>5 DEF Next

LEMMA InitLruInv ==
  ASSUME Init
  PROVE  LruInv
  <1>1. /\ cache = [p \in Pods |-> [id \in SessionIDs |-> NoObject]]
        /\ lru = [p \in Pods |-> << >>]
    BY Zenon DEF Init, CacheInit
  <1>2. /\ << >> \in Seq(SessionIDs) /\ Distinct(<< >>) /\ Len(<< >>) <= Capacity
        /\ \A k : ~Has(<< >>, k)
    BY CapacityAssumption DEF Distinct, Has
  <1> QED
    BY Zenon, <1>1, <1>2 DEF LruInv, LruFits, Cached

TerminatorTypes == terminator \in [SessionIDs -> [Callers -> {"idle", "delete", "mark"}]]

LEMMA NextTerminatorTypes ==
  ASSUME TerminatorTypes, [Next]_vars
  PROVE  TerminatorTypes'
  <1>1. ASSUME NEW id \in SessionIDs, NEW c \in Callers, NEW pc \in {"idle", "delete", "mark"},
               TerminatorGoes(id, c, pc)
        PROVE  TerminatorTypes'
    BY Zenon, <1>1 DEF TerminatorTypes, TerminatorGoes
  <1>2. ASSUME NEW id \in SessionIDs, NEW c \in Callers, Terminate(id, c)
        PROVE  TerminatorTypes'
    <2>1. PICK pc \in {"idle", "delete", "mark"} : TerminatorGoes(id, c, pc)
      BY <1>2 DEF Terminate, BeginTerminate, TerminateDeletes, TerminateMarks
    <2> QED
      BY Zenon, <1>1, <2>1
  <1>3. CASE UNCHANGED terminator
    BY Zenon, <1>3 DEF TerminatorTypes
  <1>4. ASSUME [Next]_vars, \A id \in SessionIDs, c \in Callers : ~Terminate(id, c)
        PROVE  UNCHANGED terminator
    <2>1. CASE UNCHANGED vars
      BY Zenon, <2>1 DEF vars, callVars
    <2>2. ASSUME NEW id \in SessionIDs,
                 Generate(id) \/ CreateSession(id)
                 \/ BeginNotify(id) \/ NotifyBackendExpired(id) \/ KeyExpires(id)
          PROVE  UNCHANGED terminator
      BY Zenon, <2>2 DEF Generate, CreateSession, LoadPlaceholder, MakeSession, Recheck,
         StoreMetadata, CacheSession, cleanupFailedPlaceholder, BeginNotify,
         NotifyBackendExpired, KeyExpires, callVars
    <2>3. ASSUME NEW p \in Pods, NEW id \in SessionIDs, Get(p, id)
          PROVE  UNCHANGED terminator
      BY Zenon, <2>3 DEF Get, BeginGet, checkSession, getHitEvicts, loadSession,
         RestoreSession, WriteBack, AddLoaded, TakeWinner, EndGet
    <2>4. ASSUME NEW p \in Pods, Restart(p)
          PROVE  UNCHANGED terminator
      BY Zenon, <2>4 DEF Restart
    <2> QED
      BY Zenon, <1>4, <2>1, <2>2, <2>3, <2>4 DEF Next
  <1> QED
    BY Zenon, <1>2, <1>3, <1>4

\* The state is well typed; above all, the LRU list of every pod names just the
\* sessions that its cache holds and never more than the capacity, so that Add
\* evicts no session that is not there and no cache outgrows CacheCapacity.
THEOREM CachesAreBounded == Spec => []TypeOK
  <1>1. SInv /\ LruInv /\ TerminatorTypes => TypeOK
    <2> SUFFICES ASSUME SInv, LruInv, TerminatorTypes
                 PROVE  TypeOK
      BY Zenon
    <2>1. ASSUME NEW p \in Pods
          PROVE  /\ Len(lru[p]) <= Capacity
                 /\ {lru[p][i] : i \in 1 .. Len(lru[p])} = {id \in SessionIDs : Cached(p, id)}
      <3>1. LruFits(p)
        BY Zenon DEF LruInv
      <3>2. \A i \in 1 .. Len(lru[p]) : lru[p][i] \in SessionIDs
        BY <3>1 DEF LruFits
      <3>3. {lru[p][i] : i \in 1 .. Len(lru[p])} = {id \in SessionIDs : Cached(p, id)}
        BY Zenon, <3>1, <3>2 DEF LruFits, Has
      <3> QED
        BY Zenon, <3>1, <3>3 DEF LruFits
    <2> QED
      BY Zenon, <2>1 DEF TypeOK, SInv, Types, TerminatorTypes
  <1>2. Init => LruInv /\ TerminatorTypes
    BY Zenon, InitLruInv DEF Init, TerminatorTypes
  <1>3. SInv /\ LruInv /\ [Next]_vars => LruInv'
    BY Zenon, NextLruInv
  <1>4. TerminatorTypes /\ [Next]_vars => TerminatorTypes'
    BY Zenon, NextTerminatorTypes
  <1> QED
    BY <1>1, <1>2, <1>3, <1>4, SessionInvariant, PTL DEF Spec

-----------------------------------------------------------------------------
(* The sessions that the calls of Get use.                                  *)

\* No insertion into a cache has to make room.
NoPressure == \A p \in Pods, id \in SessionIDs : Victims(p, id) = {}

\* The session that a flight has, whether restored or read from the cache, is open.
FlightsOpen ==
  \A p \in Pods, id \in SessionIDs :
    flight[p][id].obj # NoObject => OpenFor(flight[p][id].obj, p, id)

\* Steps that close the sessions os and leave every flight another one.
LEMMA FlightsStayOpen ==
  ASSUME SInv, NEW os \in SUBSET Objects, Close(os),
         \A p \in Pods, id \in SessionIDs : flight'[p][id].obj # NoObject =>
           OpenFor(flight'[p][id].obj, p, id) /\ flight'[p][id].obj \notin os
  PROVE  FlightsOpen'
  <1>1. \A x \in Objects : x \notin os => objects'[x] = objects[x]
    BY Zenon, ClosePreserves
  <1> SUFFICES ASSUME NEW p \in Pods, NEW id \in SessionIDs, flight'[p][id].obj # NoObject
               PROVE  OpenFor(flight[p][id].obj, p, id)'
    BY Zenon DEF FlightsOpen
  <1> QED
    BY <1>1 DEF OpenFor

LEMMA NothingCloses ==
  ASSUME SInv, FlightsOpen, UNCHANGED objects,
         \A p \in Pods, id \in SessionIDs :
           flight'[p][id].obj \in {NoObject, flight[p][id].obj, cache[p][id]}
  PROVE  FlightsOpen'
  <1>1. Close({})
    BY Zenon, ClosesNothing
  <1>2. ASSUME NEW p \in Pods, NEW id \in SessionIDs, flight'[p][id].obj # NoObject
        PROVE  OpenFor(flight'[p][id].obj, p, id)
    BY Zenon, <1>2, EntryOpen DEF FlightsOpen
  <1> QED
    BY Zenon, <1>1, <1>2, FlightsStayOpen

LEMMA FlightMoved ==
  ASSUME SInv, NEW p \in Pods, NEW id \in SessionIDs, NEW f, FlightGoes(p, id, f)
  PROVE  /\ flight'[p][id] = f
         /\ \A q \in Pods, k \in SessionIDs : q # p \/ k # id => flight'[q][k] = flight[q][k]
  BY Zenon DEF SInv, Types, FlightGoes

\* A flight moves on while the session o, its own until now, is closed.
LEMMA OwnCloses ==
  ASSUME SInv, FlightsOpen, NEW p \in Pods, NEW id \in SessionIDs, NEW f,
         FlightGoes(p, id, f), NEW o \in Objects, o = flight[p][id].obj, Close({o}),
         f.obj # NoObject => f.obj = cache[p][id] /\ f.obj # o
  PROVE  FlightsOpen'
  <1>1. /\ flight'[p][id] = f
        /\ \A q \in Pods, k \in SessionIDs : q # p \/ k # id => flight'[q][k] = flight[q][k]
    BY Zenon, FlightMoved
  <1>2. OpenFor(o, p, id) /\ {o} \in SUBSET Objects
    BY Zenon, SessionAssumption DEF FlightsOpen
  <1>3. ASSUME NEW q \in Pods, NEW k \in SessionIDs, flight'[q][k].obj # NoObject
        PROVE  OpenFor(flight'[q][k].obj, q, k) /\ flight'[q][k].obj \notin {o}
    <2>1. CASE q = p /\ k = id
      BY Zenon, <1>1, <1>3, <2>1, EntryOpen
    <2>2. CASE q # p \/ k # id
      <3>1. OpenFor(flight[q][k].obj, q, k) /\ flight'[q][k] = flight[q][k]
        BY Zenon, <1>1, <1>3, <2>2 DEF FlightsOpen
      <3> QED
        BY Zenon, <1>2, <2>2, <3>1 DEF OpenFor
    <2> QED
      BY Zenon, <2>1, <2>2
  <1> QED
    BY Zenon, <1>2, <1>3, FlightsStayOpen

\* While there is room, Add closes nothing.
LEMMA AddClosesNothing ==
  ASSUME NoPressure, SInv, NEW p \in Pods, NEW id \in SessionIDs, NEW o \in Objects,
         Add(p, id, o)
  PROVE  Close({})
  <1>1. PICK os \in SUBSET Objects : AddCloses(p, id, o, os)
    BY Zenon, AddEffect
  <1> QED
    BY Zenon, <1>1 DEF AddCloses, NoPressure

LEMMA OpenOpens ==
  ASSUME SInv, FlightsOpen, HasFree, NEW p \in Pods, NEW id \in SessionIDs,
         NEW bs \in SUBSET Backends, NEW o \in Objects, o = FreshObject, Open(o, p, id, bs),
         \A q \in Pods, k \in SessionIDs :
           flight'[q][k].obj = flight[q][k].obj \/ (q = p /\ k = id /\ flight'[q][k].obj = o)
  PROVE  FlightsOpen'
  <1>1. \A q \in Pods, k \in SessionIDs : flight[q][k].obj # o
    BY Zenon, FreshIsUnused
  <1>2. objects \in [Objects -> Object]
    BY Zenon DEF SInv, Types
  <1>3. /\ \A x \in Objects : x # o => objects'[x] = objects[x]
        /\ OpenFor(o, p, id)'
    BY Zenon, <1>2, OpenEffect
  <1> SUFFICES ASSUME NEW q \in Pods, NEW k \in SessionIDs, flight'[q][k].obj # NoObject
               PROVE  OpenFor(flight[q][k].obj, q, k)'
    BY Zenon DEF FlightsOpen
  <1>4. CASE flight'[q][k].obj = flight[q][k].obj
    <2>1. OpenFor(flight[q][k].obj, q, k) /\ flight[q][k].obj # o
      BY Zenon, <1>1, <1>4 DEF FlightsOpen
    <2> QED
      BY <1>3, <1>4, <2>1 DEF OpenFor
  <1>5. CASE q = p /\ k = id /\ flight'[q][k].obj = o
    BY Zenon, <1>3, <1>5 DEF OpenFor
  <1> QED
    BY Zenon, <1>4, <1>5

LEMMA CreateSessionKeepsOpen ==
  ASSUME NoPressure, SInv, FlightsOpen, NEW id \in SessionIDs, CreateSession(id)
  PROVE  FlightsOpen'
  <1>1. UNCHANGED flight
    BY Zenon DEF CreateSession, LoadPlaceholder, MakeSession, Recheck, StoreMetadata,
       CacheSession, cleanupFailedPlaceholder
  <1>2. CASE UNCHANGED objects
    BY Zenon, <1>1, <1>2, NothingCloses
  <1>3. CASE (Recheck(id) \/ StoreMetadata(id)) /\ Close({creator[id].obj})
    <2>1. PICK o \in Objects : o = creator[id].obj /\ o # NoObject
      <3>1. creator[id].pc \in {"recheck", "store", "caching"}
        BY Zenon, <1>3 DEF Recheck, StoreMetadata
      <3>2. creator[id].obj # NoObject
        BY Zenon, <3>1 DEF SInv, CreatorHolds
      <3> QED
        BY Zenon, <3>2 DEF SInv, CreatorOwns, OpenFor
    <2>2. ASSUME NEW p \in Pods, NEW k \in SessionIDs, flight'[p][k].obj # NoObject
          PROVE  OpenFor(flight'[p][k].obj, p, k) /\ flight'[p][k].obj \notin {o}
      BY Zenon, <1>1, <2>1, <2>2, CreatorAlone DEF FlightsOpen
    <2>3. Close({o}) /\ {o} \in SUBSET Objects
      BY Zenon, <1>3, <2>1
    <2> QED
      BY Zenon, <2>2, <2>3, FlightsStayOpen
  <1>4. CASE CacheSession(id)
    <2>1. PICK o \in Objects, p \in Pods : o = creator[id].obj /\ p = creator[id].pod
      BY Zenon, <1>4 DEF CacheSession, SInv, CreatorHolds, CreatorOwns, OpenFor
    <2>2. Close({})
      BY Zenon, <1>4, <2>1, AddClosesNothing DEF CacheSession
    <2> QED
      BY Zenon, <1>1, <2>2, FlightsStayOpen DEF FlightsOpen
  <1>5. CASE /\ MakeSession(id) /\ HasFree
             /\ \E bs \in SUBSET Backends : Open(FreshObject, creator[id].pod, id, bs)
    <2>1. PICK o \in Objects, p \in Pods : o = FreshObject /\ p = creator[id].pod
      BY Zenon, <1>5, FreshIsUnused DEF MakeSession, SInv, CreatorHolds
    <2>2. PICK bs \in SUBSET Backends : Open(o, p, id, bs)
      BY Zenon, <1>5, <2>1
    <2> QED
      BY Zenon, <1>1, <1>5, <2>1, <2>2, OpenOpens
  <1>6. LoadPlaceholder(id) \/ cleanupFailedPlaceholder(id) => UNCHANGED objects
    BY Zenon DEF LoadPlaceholder, cleanupFailedPlaceholder, cacheVars
  <1>7. Recheck(id) \/ StoreMetadata(id) => UNCHANGED objects \/ Close({creator[id].obj})
    BY Zenon DEF Recheck, StoreMetadata
  <1>8. MakeSession(id) =>
          \/ UNCHANGED objects
          \/ /\ HasFree
             /\ \E bs \in SUBSET Backends : Open(FreshObject, creator[id].pod, id, bs)
    BY Zenon DEF MakeSession, cacheVars
  <1> QED
    BY Zenon, <1>2, <1>3, <1>4, <1>5, <1>6, <1>7, <1>8 DEF CreateSession

\* The session that a flight has goes on being its own.
LEMMA KeptOpen ==
  ASSUME SInv, FlightsOpen, NEW p \in Pods, NEW id \in SessionIDs, NEW f,
         FlightGoes(p, id, f), f.obj \in {NoObject, flight[p][id].obj, cache[p][id]},
         Close({})
  PROVE  FlightsOpen'
  <1>1. /\ flight'[p][id] = f
        /\ \A q \in Pods, k \in SessionIDs : q # p \/ k # id => flight'[q][k] = flight[q][k]
    BY Zenon, FlightMoved
  <1>2. ASSUME NEW q \in Pods, NEW k \in SessionIDs, flight'[q][k].obj # NoObject
        PROVE  OpenFor(flight'[q][k].obj, q, k)
    <2>1. flight'[q][k].obj \in {flight[q][k].obj, cache[q][k]}
      BY Zenon, <1>1, <1>2
    <2> QED
      BY Zenon, <1>2, <2>1, EntryOpen DEF FlightsOpen
  <1> QED
    BY Zenon, <1>2, FlightsStayOpen
LEMMA GetKeepsOpen ==
  ASSUME NoPressure, SInv, FlightsOpen, NEW p \in Pods, NEW id \in SessionIDs, Get(p, id)
  PROVE  FlightsOpen'
  <1>1. PICK f \in Flight : f = flight[p][id]
    BY Zenon, FlightType
  <1>2. CASE BeginGet(p, id)
    <2> DEFINE began == [noFlight EXCEPT !.late = ~Present(id)]
               hit == [began EXCEPT !.pc = "check", !.obj = cache[p][id]]
               miss == [began EXCEPT !.pc = "load"]
    <2>1. hit.obj = cache[p][id] /\ miss.obj = NoObject
      BY DEF noFlight
    <2>2. Close({})
      BY Zenon, <1>2, ClosesNothing DEF BeginGet
    <2>3. FlightGoes(p, id, hit) \/ FlightGoes(p, id, miss)
      BY Zenon, <1>2 DEF BeginGet
    <2> HIDE DEF hit, miss
    <2> QED
      BY Zenon, <2>1, <2>2, <2>3, KeptOpen
  <1>3. CASE checkSession(p, id) \/ loadSession(p, id) \/ EndGet(p, id)
    <2>1. \/ FlightGoes(p, id, noFlight)
          \/ FlightGoes(p, id, [f EXCEPT !.pc = "evict"])
          \/ \E u \in BOOLEAN : FlightGoes(p, id, [f EXCEPT !.pc = "served", !.unsure = u])
          \/ FlightGoes(p, id, [f EXCEPT !.pc = "restore", !.loaded = storage[id].backends])
      BY Zenon, <1>1, <1>3 DEF checkSession, loadSession, EndGet
    <2>2. Close({})
      BY Zenon, <1>3, ClosesNothing DEF checkSession, loadSession, EndGet, cacheVars
    <2>3. /\ noFlight.obj = NoObject
          /\ [f EXCEPT !.pc = "evict"].obj = flight[p][id].obj
          /\ \A u \in BOOLEAN :
               [f EXCEPT !.pc = "served", !.unsure = u].obj = flight[p][id].obj
          /\ [f EXCEPT !.pc = "restore", !.loaded = storage[id].backends].obj
               = flight[p][id].obj
      BY Zenon, <1>1 DEF Flight, noFlight
    <2> QED
      BY Zenon, <2>1, <2>2, <2>3, KeptOpen
  <1>4. CASE getHitEvicts(p, id)
    <2>1. PICK o \in Objects : o = f.obj
      BY <1>1, <1>4, FlightType DEF getHitEvicts, OpenFor
    <2>2. PICK g : FlightGoes(p, id, g) /\ g.obj = NoObject
      <3>1. [f EXCEPT !.pc = "load", !.obj = NoObject].obj = NoObject
        BY Zenon DEF Flight
      <3> QED
        BY Zenon, <1>1, <1>4, <3>1 DEF getHitEvicts
    <2>3. CASE Close({o})
      BY Zenon, <1>1, <2>1, <2>2, <2>3, OwnCloses
    <2>4. CASE UNCHANGED objects
      BY Zenon, <2>2, <2>4, ClosesNothing, KeptOpen
    <2> QED
      BY ZenonT(30), <1>1, <1>4, <2>1, <2>3, <2>4 DEF getHitEvicts, EvictEntry, cacheVars
  <1>5. CASE RestoreSession(p, id)
    <2>1. CASE FlightGoes(p, id, noFlight) /\ UNCHANGED cacheVars
      <3>1. noFlight.obj = NoObject /\ UNCHANGED objects
        BY Zenon, <2>1 DEF noFlight, cacheVars
      <3> QED
        BY Zenon, <2>1, <3>1, ClosesNothing, KeptOpen
    <2>2. CASE \E bs \in SUBSET f.loaded :
                 /\ HasFree
                 /\ Open(FreshObject, p, id, bs)
                 /\ FlightGoes(p, id, [f EXCEPT !.pc = "writeback",
                                                !.obj = FreshObject, !.loaded = {}])
      <3>1. PICK o \in Objects : o = FreshObject
        BY Zenon, <2>2, FreshIsUnused
      <3> DEFINE g == [f EXCEPT !.pc = "writeback", !.obj = o, !.loaded = {}]
      <3>2. PICK bs \in SUBSET f.loaded : Open(o, p, id, bs)
        BY Zenon, <2>2, <3>1
      <3>3. FlightGoes(p, id, g) /\ HasFree
        BY Zenon, <2>2, <3>1
      <3>4. g.obj = o /\ bs \in SUBSET Backends
        BY Zenon, <3>2 DEF Flight
      <3> HIDE DEF g
      <3>5. \A q \in Pods, k \in SessionIDs :
              flight'[q][k].obj = flight[q][k].obj
              \/ (q = p /\ k = id /\ flight'[q][k].obj = o)
        <4>1. /\ flight'[p][id] = g
              /\ \A q \in Pods, k \in SessionIDs :
                   q # p \/ k # id => flight'[q][k] = flight[q][k]
          BY ZenonT(30), <3>3, FlightMoved
        <4> QED
          BY Zenon, <3>4, <4>1
      <3> QED
        BY Zenon, <3>1, <3>2, <3>3, <3>4, <3>5, OpenOpens
    <2> QED
      BY Zenon, <1>1, <1>5, <2>1, <2>2 DEF RestoreSession
  <1>6. CASE WriteBack(p, id) \/ AddLoaded(p, id) \/ TakeWinner(p, id)
    <2>1. PICK o \in Objects : o = f.obj
      BY Zenon, <1>1, <1>6, FlightType DEF WriteBack, AddLoaded, TakeWinner, OpenFor
    <2>2. Restored(p, id)
      BY Zenon, <1>6 DEF WriteBack, AddLoaded, TakeWinner, Restored
    <2>3. CASE FlightGoes(p, id, noFlight) /\ Close({o})
      <3>1. noFlight.obj = NoObject
        BY Zenon DEF noFlight
      <3> QED
        BY Zenon, <1>1, <2>1, <2>3, <3>1, OwnCloses
    <2>4. CASE /\ FlightGoes(p, id, [f EXCEPT !.pc = "served", !.obj = cache[p][id]])
               /\ Close({o})
      <3> DEFINE g == [f EXCEPT !.pc = "served", !.obj = cache[p][id]]
      <3>1. g.obj = cache[p][id]
        BY Zenon DEF Flight
      <3>3. FlightGoes(p, id, g)
        BY Zenon, <2>4
      <3> HIDE DEF g
      <3>2. cache[p][id] # o
        BY Zenon, <1>1, <2>1, <2>2, RestoredAlone
      <3> QED
        BY Zenon, <1>1, <2>1, <2>4, <3>1, <3>2, <3>3, OwnCloses
    <2>5. CASE /\ \E pc \in {"add", "winner", "served"} :
                    FlightGoes(p, id, [f EXCEPT !.pc = pc])
               /\ UNCHANGED objects \/ Add(p, id, o)
      <3>1. PICK g : FlightGoes(p, id, g) /\ g.obj = flight[p][id].obj
        <4>1. PICK pc \in {"add", "winner", "served"} : FlightGoes(p, id, [f EXCEPT !.pc = pc])
          BY Zenon, <2>5
        <4>2. [f EXCEPT !.pc = pc].obj = flight[p][id].obj
          BY Zenon, <1>1 DEF Flight
        <4> QED
          BY Zenon, <4>1, <4>2
      <3>2. Close({})
        BY Zenon, <2>5, ClosesNothing, AddClosesNothing
      <3> QED
        BY Zenon, <3>1, <3>2, KeptOpen
    <2>6. CASE WriteBack(p, id)
      BY Zenon, <1>1, <2>1, <2>3, <2>5, <2>6 DEF WriteBack
    <2>7. CASE AddLoaded(p, id)
      BY Zenon, <1>1, <2>1, <2>5, <2>7 DEF AddLoaded, cacheVars
    <2>8. CASE TakeWinner(p, id)
      BY ZenonT(30), <1>1, <2>1, <2>4, <2>5, <2>8 DEF TakeWinner
    <2> QED
      BY Zenon, <1>6, <2>6, <2>7, <2>8
  <1> QED
    BY Zenon, <1>2, <1>3, <1>4, <1>5, <1>6 DEF Get

LEMMA RestartKeepsOpen ==
  ASSUME SInv, FlightsOpen, NEW p \in Pods, Restart(p)
  PROVE  FlightsOpen'
  <1>1. /\ \A id \in SessionIDs : flight'[p][id].obj = NoObject
        /\ \A q \in Pods, id \in SessionIDs : q # p => flight'[q][id] = flight[q][id]
        /\ \A o \in Objects : objects[o].pod # p => objects'[o] = objects[o]
    BY Zenon DEF Restart, SInv, Types, noFlight
  <1> SUFFICES ASSUME NEW q \in Pods, NEW k \in SessionIDs, flight'[q][k].obj # NoObject
               PROVE  OpenFor(flight[q][k].obj, q, k)'
    BY Zenon DEF FlightsOpen
  <1>2. q # p /\ flight'[q][k] = flight[q][k] /\ OpenFor(flight[q][k].obj, q, k)
    BY Zenon, <1>1 DEF FlightsOpen
  <1> QED
    BY <1>1, <1>2 DEF OpenFor

-----------------------------------------------------------------------------
(* What needs the cardinality of a set.                                     *)

INSTANCE FiniteSetTheorems

\* However the calls of all pods interleave, and with any number of restores,
\* evictions and failures, at most one object per session ID stays open that
\* no cache entry and no call holds, and it is on the pod that created the
\* session: only the Set of CreateSession drops an entry without closing it.
THEOREM LeaksAreBounded == Spec => []LeakIsBounded
  <1>1. SInv /\ LeakInv => LeakIsBounded
    <2> SUFFICES ASSUME SInv, LeakInv, NEW id \in SessionIDs
                 PROVE  LeakIsBounded!(id)
      BY Zenon DEF LeakIsBounded
    <2> DEFINE leaked == {o \in Objects : IsOpen(o) /\ objects[o].id = id /\ ~Held(o)}
    <2>1. ASSUME NEW o \in leaked
          PROVE  Stray(o, creator[id].pod, id) /\ objects[o].pod = creator[id].pod
                 /\ creator[id].pod \in Pods
      <3>1. /\ o \in Objects /\ objects[o].state = "open" /\ objects[o].id = id
            /\ objects[o].pod \in Pods
        BY Zenon, <2>1 DEF IsOpen, LeakInv, Placed
      <3>2. OpenFor(o, objects[o].pod, id) /\ ~Owned(o, objects[o].pod, id)
        BY Zenon, <2>1, <3>1 DEF Held, OpenFor, Owned
      <3> QED
        BY Zenon, <3>1, <3>2 DEF LeakInv, StraysSettled, Stray
    <2>2. \A o, x \in leaked : o = x
      BY Zenon, <2>1 DEF LeakInv, OneStray
    <2>3. Cardinality(leaked) <= 1
      <3> HIDE DEF leaked
      <3>1. CASE leaked = {}
        BY <3>1, FS_EmptySet
      <3>2. CASE leaked # {}
        <4>1. PICK o : o \in leaked
          BY Zenon, <3>2
        <4>2. leaked = {o}
          BY Zenon, <2>2, <4>1
        <4>3. Cardinality({o}) = 1
          BY Zenon, FS_Singleton
        <4> QED
          BY <4>2, <4>3
      <3> QED
        BY Zenon, <3>1, <3>2
    <2>4. \A o \in leaked : objects[o].pod = creator[id].pod
      BY Zenon, <2>1
    <2> QED
      BY Zenon, <2>3, <2>4
  <1>2. Init => LeakInv
    BY Zenon, InitLeakInv
  <1>3. SInv /\ LeakInv /\ [Next]_vars => LeakInv'
    BY Zenon, NextLeakInv
  <1> QED
    BY <1>1, <1>2, <1>3, SessionInvariant, PTL DEF Spec

\* The cache has room for every session.
Roomy == IsFiniteSet(SessionIDs) /\ Cardinality(SessionIDs) <= Capacity

LEMMA NoVictims ==
  ASSUME Roomy, LruInv, NEW p \in Pods, NEW id \in SessionIDs
  PROVE  Victims(p, id) = {}
  <1> DEFINE s == lru[p]
             others == SessionIDs \ {id}
  <1>1. /\ s \in Seq(SessionIDs) /\ Distinct(s)
        /\ \A k \in SessionIDs : Cached(p, k) <=> Has(s, k)
    BY Zenon DEF LruInv, LruFits
  <1>2. CASE Cached(p, id)
    BY Zenon, <1>2 DEF Victims
  <1>3. CASE ~Cached(p, id)
    <2> HIDE DEF s
    <2>1. Len(s) \in Nat /\ s \in [1 .. Len(s) -> SessionIDs]
      BY <1>1
    <2>2. \A i \in 1 .. Len(s) : s[i] \in others
      BY Zenon, <1>1, <1>3, <2>1 DEF Has
    <2>3. s \in Injection(1 .. Len(s), others)
      <3>1. s \in [1 .. Len(s) -> others]
        BY Zenon, <2>1, <2>2
      <3> QED
        BY Zenon, <1>1, <3>1 DEF Injection, IsInjective, Distinct
    <2>4. /\ IsFiniteSet(others) /\ Cardinality(SessionIDs) \in Nat
          /\ Cardinality(others) = Cardinality(SessionIDs) - 1
      BY Zenon, FS_RemoveElement, FS_CardinalityType DEF Roomy
    <2>5. Cardinality(1 .. Len(s)) <= Cardinality(others)
      BY Zenon, <2>3, <2>4, FS_Injection
    <2>6. Cardinality(1 .. Len(s)) = Len(s)
      BY <2>1, FS_Interval
    <2>7. ~(Len(s) >= Capacity)
      BY <2>1, <2>4, <2>5, <2>6, CapacityAssumption DEF Roomy
    <2> QED
      BY Zenon, <2>7 DEF Victims, s
  <1> QED
    BY Zenon, <1>2, <1>3

\* As long as the cache has room for every session, no caller of Get is given a
\* session that is closed, nor is it closed while the caller uses it: not by an
\* expired check, a lost race of two loads, Set or the failure of a
\* registration.  With less room LRU pressure closes sessions in use.
THEOREM ServedSessionsAreOpen == Roomy => (Spec => []ServedIsOpen)
  <1> SUFFICES ASSUME Roomy PROVE Spec => []ServedIsOpen
    OBVIOUS
  <1>1. SInv /\ FlightsOpen => ServedIsOpen
    <2> SUFFICES ASSUME SInv, FlightsOpen, NEW p \in Pods, NEW id \in SessionIDs,
                        flight[p][id].pc = "served"
                 PROVE  IsOpen(flight[p][id].obj)
      BY Zenon DEF ServedIsOpen
    <2>1. flight[p][id].obj # NoObject
      BY Zenon, FlightType
    <2>2. OpenFor(flight[p][id].obj, p, id)
      BY Zenon, <2>1 DEF FlightsOpen
    <2> QED
      BY Zenon, <2>2 DEF OpenFor, IsOpen
  <1>2. Init => LruInv /\ FlightsOpen
    <2> SUFFICES ASSUME Init PROVE FlightsOpen
      BY Zenon, InitLruInv
    <2>1. \A p \in Pods, id \in SessionIDs : flight[p][id] = noFlight
      BY Zenon DEF Init
    <2>2. noFlight.obj = NoObject
      BY Zenon DEF noFlight
    <2> QED
      BY Zenon, <2>1, <2>2 DEF FlightsOpen
  <1>3. SInv /\ LruInv /\ [Next]_vars => LruInv'
    BY Zenon, NextLruInv
  <1>4. SInv /\ LruInv /\ FlightsOpen /\ [Next]_vars => FlightsOpen'
    <2> SUFFICES ASSUME SInv, LruInv, FlightsOpen, [Next]_vars PROVE FlightsOpen'
      BY Zenon
    <2>1. CASE UNCHANGED vars
      BY Zenon, <2>1, NothingCloses DEF vars, cacheVars, callVars
    <2>2. ASSUME NEW id \in SessionIDs,
                 Generate(id) \/ (\E c \in Callers : Terminate(id, c))
                 \/ BeginNotify(id) \/ NotifyBackendExpired(id) \/ KeyExpires(id)
          PROVE  FlightsOpen'
      <3>1. UNCHANGED <<objects, flight>>
        BY Zenon, <2>2 DEF Generate, Terminate, BeginTerminate, TerminateDeletes,
           TerminateMarks, BeginNotify, NotifyBackendExpired, KeyExpires, cacheVars, callVars
      <3> QED
        BY Zenon, <3>1, NothingCloses
    <2>3. NoPressure
      BY Zenon, NoVictims DEF NoPressure
    <2> QED
      BY Zenon, <2>1, <2>2, <2>3, CreateSessionKeepsOpen, GetKeepsOpen, RestartKeepsOpen
         DEF Next
  <1> QED
    BY <1>1, <1>2, <1>3, <1>4, SessionInvariant, PTL DEF Spec
=============================================================================
