------------------------ MODULE SnapshotProperties ------------------------
(* What the snapshots of the service promise.                               *)
EXTENDS SnapshotStore

Place ==
  {"idle", "update", "cache", "cached", "missing", "unlocked", "first", "drop", "create",
   "fetch", "wait", "inside", "meanwhile", "loaded", "count", "oldest", "evict", "room",
   "after", "got", "free", "raised"}

(* Every variable keeps its type; the cache and the table of locks grow     *)
(* beyond their configured sizes by no more than one entry for every thread *)
(* that has found the same room in them, the updates by one for every       *)
(* transfer that has.                                                       *)
SnapshotTypeOK ==
  /\ cache \subseteq Snap /\ Cardinality(cache) < MaxCaches + Cardinality(User)
  /\ Updated \subseteq Snap /\ updates \in [Updated -> SUBSET Lot]
  /\ Cardinality(Updated) <= MaxUpdates + Cardinality(Lot)
  /\ Len(table) <= MaxLocks + Cardinality(User) /\ Locks \cup held \subseteq Lock
  /\ pc \in [User -> Place] /\ request \in [User -> Time \cup {None}] /\ exact \in [User -> BOOLEAN]
  /\ lock \in [User -> Lock \cup {None}]
  /\ \A u \in User : result[u] = None \/ result[u] \in [time : Snap, lots : SUBSET Lot]
  /\ current \in Lot \cup {None} /\ sink \subseteq Lot
  /\ \A l \in Lot : transfer[l].at \in {"none", "sink", "list", "drop", "set", "done", "failed"}

(* A lot that stands in a snapshot when a request for it begins stands in   *)
(* the answer, whichever way the snapshot is found, unless meanwhile the    *)
(* update was dropped for want of room, or replaced by one that lacks the   *)
(* lot, for its transfer had begun from an older snapshot.                  *)
ReadsSeeTransfers ==
  \A u \in User :
    result[u] # None =>
      LET t == result[u].time IN t \in DOMAIN owed[u] => owed[u][t] \subseteq result[u].lots

(* A request fails in the caches and in the table of locks only because     *)
(* another thread has dropped an entry since it began: no step of its own   *)
(* and nothing that is only added can make it fail.                         *)
FailsOnlyCrossed == \A u \in User : pc[u] = "raised" => crossed[u]

(* A lot that stands in a snapshot has been written to its sink, also if    *)
(* transfers fail and are tried again.                                      *)
TransferredIsSunk == \A t \in Updated : updates[t] \subseteq sink

(* A lock is taken only by a thread that goes on with it, also if loading   *)
(* fails or the request raises: nobody waits for a lock for ever.           *)
WithTheLock == {"inside", "meanwhile", "loaded", "count", "oldest", "evict", "room"}
NoLockIsLost == held = {lock[u] : u \in {v \in User : pc[v] \in WithTheLock}}
=============================================================================
