-------------------------- MODULE ValidatingCache --------------------------
(***************************************************************************)
(* The node-local cache of live sessions (pkg/cache, over the hashicorp    *)
(* LRU map) together with the live sessions themselves.                    *)
(*                                                                         *)
(* A live MultiSession is an object: it has an identity, which sameEntry   *)
(* compares, the pod and session it was made for, the backends it is       *)
(* connected to, and connections that are open until Close.  An object     *)
(* slot is free again once it is closed and no call refers to it.          *)
(***************************************************************************)
EXTENDS Sequences, Naturals, SessionStorage

CONSTANTS Objects,   \* the slots of live sessions; bounds how many coexist
          Capacity   \* CacheCapacity, the most entries of one pod's cache

ASSUME CapacityAssumption == Capacity \in Nat \ {0}

VARIABLES objects,   \* the live sessions
          cache,     \* cache[p][id], the entry of session id on pod p
          lru        \* lru[p], the keys of p's cache, most recent first

cacheVars == <<objects, cache, lru>>

NoObject == "no object"

Object == [state : {"free", "open", "closed"}, pod : Holder,
           id : SessionIDs \cup {"none"}, backends : SUBSET Backends]

freeObject == [state |-> "free", pod |-> "none", id |-> "none", backends |-> {}]

CacheInit ==
  /\ objects = [o \in Objects |-> freeObject]
  /\ cache = [p \in Pods |-> [id \in SessionIDs |-> NoObject]]
  /\ lru = [p \in Pods |-> << >>]

IsOpen(o) == o \in Objects /\ objects[o].state = "open"

Open(o, p, id, bs) ==
  objects' = [objects EXCEPT ![o] =
                [state |-> "open", pod |-> p, id |-> id, backends |-> bs]]

\* Close of every session in os (the onEvict callback, or an error path).
Close(os) ==
  objects' = [o \in Objects |->
                IF o \in os
                THEN [freeObject EXCEPT !.state = "closed", !.backends = objects[o].backends]
                ELSE objects[o]]

Cached(p, id) == cache[p][id] # NoObject

\* A mutant: one entry too many.
VictimsOffByOne(p, id) ==
  {k \in SessionIDs : ~Cached(p, id) /\ Len(lru[p]) > Capacity /\ k = lru[p][Len(lru[p])]}

\* The entry that a new key id pushes out of the full cache of p, if any.
Victims(p, id) ==
  {k \in SessionIDs : ~Cached(p, id) /\ Len(lru[p]) >= Capacity /\ k = lru[p][Len(lru[p])]}

\* The list s without its key that is in ks, if it has one; it has no two.
Without(s, ks) ==
  IF \E i \in 1 .. Len(s) : s[i] \in ks
  THEN LET at == CHOOSE i \in 1 .. Len(s) : s[i] \in ks
       IN  [i \in 1 .. Len(s) - 1 |-> s[IF i < at THEN i ELSE i + 1]]
  ELSE s

\* lruCache.Get: the entry becomes the most recent one.
Touch(p, id) ==
  lru' = [lru EXCEPT ![p] = <<id>> \o Without(@, {id})]

\* lruCache.Add: replaces the entry of id without closing the old value, or
\* inserts it and evicts the least recent entry, closing its session.
Add(p, id, o) ==
  LET gone == Victims(p, id) IN
  /\ cache' = [cache EXCEPT ![p] =
                 [k \in SessionIDs |-> IF k = id THEN o
                                       ELSE IF k \in gone THEN NoObject
                                       ELSE cache[p][k]]]
  /\ lru' = [lru EXCEPT ![p] = <<id>> \o Without(@, {id} \cup gone)]
  /\ Close({cache[p][k] : k \in gone})

\* A mutant: the expired session is closed and its entry kept.
EvictEntryKeeps(p, id, o) ==
  IF cache[p][id] = o THEN Close({o}) /\ UNCHANGED <<cache, lru>> ELSE UNCHANGED cacheVars

\* The conditional eviction of getHit: only if the entry is still o.
EvictEntry(p, id, o) ==
  IF cache[p][id] = o
  THEN /\ cache' = [cache EXCEPT ![p][id] = NoObject]
       /\ lru' = [lru EXCEPT ![p] = Without(@, {id})]
       /\ Close({o})
  ELSE UNCHANGED cacheVars
=============================================================================
