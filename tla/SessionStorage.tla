--------------------------- MODULE SessionStorage ---------------------------
(***************************************************************************)
(* The DataStorage of pkg/transport/session: the metadata of every session *)
(* under its ID, shared by all pods when it is Redis, private to the one   *)
(* pod when it is the in-memory map.  Both implementations do one atomic   *)
(* step per call.  A call to Redis may also fail, and a write that fails   *)
(* may have been applied: the reply was lost.                              *)
(*                                                                         *)
(* Metadata is abstracted to what the session manager tells apart: its     *)
(* kind, the list of backend IDs, and whose per-backend session IDs it     *)
(* holds.  No record is both bound and marked terminated, since only       *)
(* unbound ones are ever marked.                                           *)
(***************************************************************************)
CONSTANTS SessionIDs,   \* the session IDs uuid.New can return
          Backends,     \* the workload IDs of the backends
          Pods,         \* the replicas that share the storage
          StorageFails  \* whether calls may return a transient error

VARIABLE storage

Kinds == {"absent", "placeholder", "terminated", "bound"}

Holder == Pods \cup {"none"}

Metadata == [kind : Kinds, backends : SUBSET Backends, holder : Holder]

Unbound(kind) == [kind |-> kind, backends |-> {}, holder |-> "none"]

StorageInit == storage = [id \in SessionIDs |-> Unbound("absent")]

Present(id) == storage[id].kind # "absent"

Outcomes == {"ok", "missing", "error"}

\* Load: the metadata is read from storage[id]; r tells how the call ended.
Load(id, r) ==
  /\ \/ r = "ok" /\ Present(id)
     \/ r = "missing" /\ ~Present(id)
     \/ r = "error" /\ StorageFails
  /\ UNCHANGED storage

Write(id, m) == storage' = [storage EXCEPT ![id] = m]

\* A mutant: SET without XX.
UpdateUpserts(id, m, r) ==
  \/ r = "ok" /\ Write(id, m)
  \/ r = "error" /\ StorageFails /\ (UNCHANGED storage \/ Write(id, m))

\* Update: SET XX, and its error with the write applied or not.
Update(id, m, r) ==
  \/ r = "ok" /\ Present(id) /\ Write(id, m)
  \/ r = "missing" /\ ~Present(id) /\ UNCHANGED storage
  \/ /\ r = "error" /\ StorageFails
     /\ (UNCHANGED storage \/ (Present(id) /\ Write(id, m)))

\* Create: SET NX.
Create(id, m, r) ==
  \/ r = "ok" /\ ~Present(id) /\ Write(id, m)
  \/ r = "missing" /\ Present(id) /\ UNCHANGED storage
  \/ /\ r = "error" /\ StorageFails
     /\ (UNCHANGED storage \/ (~Present(id) /\ Write(id, m)))

\* Delete: a missing key is not an error.
Delete(id, r) ==
  \/ r = "ok" /\ Write(id, Unbound("absent"))
  \/ /\ r = "error" /\ StorageFails
     /\ (UNCHANGED storage \/ Write(id, Unbound("absent")))

\* The TTL passes without an access: Redis drops the key, deleteExpired
\* removes the entry of the local map.
Expire(id) == Present(id) /\ Write(id, Unbound("absent"))
=============================================================================
