--------------------------- MODULE SnapshotStore ---------------------------
(***************************************************************************)
(* The snapshots the service keeps in memory, and the transfer of a lot    *)
(* into one of them: threads of the server look snapshots up, load them    *)
(* one at a time per lock, while the thread of a transfer writes the lot   *)
(* to its sink and then replaces the snapshot it had read before by an     *)
(* updated one.                                                            *)
(* (DynReActService/dynreact/state.py, SnapshotUpdate.py,                  *)
(*  gui/pages/lot_planning.py)                                             *)
(*                                                                         *)
(* A snapshot is reduced to the lots transferred into it; what the update  *)
(* does to lots and orders is in LotTransfer.  None of the dictionaries is *)
(* guarded: a test, a count, a listing of the keys, a lookup, an insertion *)
(* and a removal are steps of their own, and any thread may run between    *)
(* two of them.  What a thread does for itself and the provider between    *)
(* two of these steps belongs to the first.                                *)
(***************************************************************************)
EXTENDS Integers, FiniteSets, Sequences

CONSTANTS
  None,
  User,          \* threads that serve the users' requests
  Lot,           \* lots that may be transferred
  Snap,          \* times of the provider's snapshots
  Request,       \* times that are asked for
  Near,          \* the snapshot less than ten minutes from a time, or None
  Load,          \* the snapshot the provider loads for a time, or None
  MaxCaches,     \* max_snapshot_caches
  MaxUpdates,    \* updated snapshots above which the oldest are dropped: 4
  DroppedUpdates, \* how many of them: 2
  MaxLocks,      \* locks above which the first are dropped: 10
  DroppedLocks,  \* how many of them: 4
  Again          \* a bound: may a lot be transferred again (as it may in the code)

ASSUME StoreAssumption ==
  /\ Snap \cup Request \subseteq Nat
  /\ Near \in [Snap \cup Request -> Snap \cup {None}] /\ Load \in [Snap \cup Request -> Snap \cup {None}]
  /\ \A s \in Snap : Near[s] = s /\ Load[s] = s
  /\ {MaxCaches, DroppedUpdates, DroppedLocks} \subseteq Nat \ {0} /\ {MaxUpdates, MaxLocks} \subseteq Nat
  /\ Again \in BOOLEAN /\ None \notin Lot \cup Snap \cup Request /\ IsFiniteSet(User) /\ IsFiniteSet(Lot)

VARIABLES
  cache,      \* _snapshots_cache: times of the snapshots as they were loaded
  updates,    \* _snapshot_updates: the updated snapshots by time
  table,      \* _snapshot_locks: locks in order of their times' insertion
  held,       \* the locks that are taken
  pc, request, exact, lock, keys, result,   \* of the threads
  owed,       \* (observed) the lots in the updated snapshots when a request began, and since
  crossed,    \* (observed) another thread has dropped something since a request began
  current,    \* lottransfer_thread
  transfer,   \* what every LotTransferThread works on
  sink        \* lots the sink has

threadVars == <<pc, request, exact, lock, keys, result>>
lockVars == <<table, held>>
observed == <<owed, crossed>>
transferVars == <<current, transfer, sink>>
vars == <<cache, updates, lockVars, threadVars, observed, transferVars>>

Time == Snap \cup Request
Lock == Time \X (0..(Cardinality(User) + 1))  \* a lock object: its time, and a name
Idle(at) == [at |-> at, time |-> None, lots |-> {}, keys |-> <<>>]

Updated == DOMAIN updates
Content(t) == IF t \in Updated THEN updates[t] ELSE {}

-----------------------------------------------------------------------------
(* get_snapshot().                                                          *)
Go(u, place) ==
  /\ pc' = [pc EXCEPT ![u] = place]
  /\ UNCHANGED <<request, exact, keys, result>>

Return(u) ==
  /\ pc' = [pc EXCEPT ![u] = "idle"]
  /\ request' = [request EXCEPT ![u] = None] /\ exact' = [exact EXCEPT ![u] = FALSE]
  /\ keys' = [keys EXCEPT ![u] = <<>>]
  /\ result' = [result EXCEPT ![u] = None]
  /\ owed' = [owed EXCEPT ![u] = <<>>] /\ crossed' = [crossed EXCEPT ![u] = FALSE]

(* KeyError, IndexError, or the context manager of None: the request fails. *)
Raise(u) ==
  /\ pc' = [pc EXCEPT ![u] = "raised"] /\ keys' = [keys EXCEPT ![u] = <<>>]
  /\ UNCHANGED <<request, exact, result>>

Got(u, t, lots) ==
  /\ pc' = [pc EXCEPT ![u] = "got"] /\ exact' = [exact EXCEPT ![u] = FALSE]
  /\ result' = [result EXCEPT ![u] = [time |-> t, lots |-> lots]]
  /\ crossed' = [crossed EXCEPT ![u] = FALSE]
  /\ UNCHANGED <<request, keys, owed>>

LookForUpdate(u, t) ==
  /\ request' = [request EXCEPT ![u] = t]
  /\ pc' = [pc EXCEPT ![u] = IF t \in Updated THEN "update" ELSE "cache"]

Ask(u, t) ==
  /\ pc[u] = "idle" /\ LookForUpdate(u, t)
  /\ owed' = [owed EXCEPT ![u] = updates]
  /\ UNCHANGED <<cache, updates, lockVars, exact, lock, keys, result, crossed, transferVars>>

TakeUpdate(u) ==
  /\ pc[u] = "update"
  /\ IF request[u] \in Updated THEN Got(u, request[u], updates[request[u]]) ELSE Raise(u) /\ UNCHANGED observed
  /\ UNCHANGED <<cache, updates, lockVars, lock, transferVars>>

Matches(u) == ~exact[u] /\ Near[request[u]] # None
Match(u) ==
  /\ LookForUpdate(u, Near[request[u]])
  /\ exact' = [exact EXCEPT ![u] = TRUE]
  /\ UNCHANGED <<keys, result>>

LookInCache(u) ==
  /\ pc[u] = "cache"
  /\ IF request[u] \in cache THEN Go(u, "cached")
     ELSE IF Matches(u) THEN Match(u) ELSE Go(u, "missing")
  /\ UNCHANGED <<cache, updates, lockVars, lock, observed, transferVars>>

TakeCached(u) ==
  /\ pc[u] = "cached"
  /\ IF request[u] \in cache THEN Got(u, request[u], {}) ELSE Raise(u) /\ UNCHANGED observed
  /\ UNCHANGED <<cache, updates, lockVars, lock, transferVars>>

-----------------------------------------------------------------------------
(* _get_snapshot_lock().  Two threads may both find no lock for their time, *)
(* and the second to insert its lock replaces the first one's; a lock that  *)
(* is dropped may be held, waited for, or be about to be fetched.           *)
Locks == {table[i] : i \in 1..Len(table)}
LocksFor(t) == {k \in Locks : k[1] = t}
InUse == Locks \cup held \cup {lock[u] : u \in User}
NewLock(t) == <<t, CHOOSE n \in 0..(Cardinality(User) + 1) : <<t, n>> \notin InUse>>

IndexOf(t) == CHOOSE i \in 1..Len(table) : table[i][1] = t
Without(t) ==
  [i \in 1..(Len(table) - 1) |-> IF i < IndexOf(t) THEN table[i] ELSE table[i + 1]]
Inserted(k) ==
  IF LocksFor(k[1]) = {} THEN Append(table, k)
  ELSE [i \in 1..Len(table) |-> IF table[i][1] = k[1] THEN k ELSE table[i]]
FirstTimes == [i \in 1..(IF Len(table) < DroppedLocks THEN Len(table) ELSE DroppedLocks) |-> table[i][1]]

Crosses(users) == crossed' = [u \in User |-> crossed[u] \/ (u \in users /\ pc[u] \notin {"idle", "got", "free"})]

LookForLock(u) ==
  /\ pc[u] = "missing"
  /\ Go(u, IF LocksFor(request[u]) # {} THEN "fetch" ELSE "unlocked")
  /\ UNCHANGED <<cache, updates, lockVars, lock, observed, transferVars>>

TooManyLocks == Len(table) > MaxLocks
CountLocks(u) ==
  /\ pc[u] = "unlocked"
  /\ Go(u, IF TooManyLocks THEN "first" ELSE "create")
  /\ UNCHANGED <<cache, updates, lockVars, lock, observed, transferVars>>

ListLocks(u) ==
  /\ pc[u] = "first"
  /\ pc' = [pc EXCEPT ![u] = IF table = <<>> THEN "create" ELSE "drop"]
  /\ keys' = [keys EXCEPT ![u] = FirstTimes]
  /\ UNCHANGED <<cache, updates, lockVars, request, exact, lock, result, observed, transferVars>>

DropLock(u) ==
  /\ pc[u] = "drop"
  /\ IF LocksFor(Head(keys[u])) = {}
     THEN Raise(u) /\ UNCHANGED <<table, crossed>>
     ELSE /\ table' = Without(Head(keys[u])) /\ Crosses(User \ {u})
          /\ keys' = [keys EXCEPT ![u] = Tail(keys[u])]
          /\ pc' = [pc EXCEPT ![u] = IF Len(keys[u]) = 1 THEN "create" ELSE "drop"]
          /\ UNCHANGED <<request, exact, result>>
  /\ UNCHANGED <<cache, updates, held, lock, owed, transferVars>>

InsertLock(u) ==
  /\ pc[u] = "create"
  /\ table' = Inserted(NewLock(request[u]))
  /\ Go(u, "fetch")
  /\ UNCHANGED <<cache, updates, held, lock, observed, transferVars>>

FetchLock(u) ==
  /\ pc[u] = "fetch"
  /\ IF LocksFor(request[u]) = {}
     THEN Raise(u) /\ UNCHANGED lock
     ELSE Go(u, "wait") /\ lock' = [lock EXCEPT ![u] = CHOOSE k \in LocksFor(request[u]) : TRUE]
  /\ UNCHANGED <<cache, updates, lockVars, observed, transferVars>>

-----------------------------------------------------------------------------
(* With the lock: what another thread has loaded meanwhile is returned as   *)
(* it was loaded; every exception releases the lock.                        *)
Available(u) == lock[u] \notin held
Acquire(u) ==
  /\ pc[u] = "wait" /\ Available(u)
  /\ held' = held \cup {lock[u]}
  /\ Go(u, "inside")
  /\ UNCHANGED <<cache, updates, table, lock, observed, transferVars>>

KeepsLock(u) == UNCHANGED held /\ lock' = [lock EXCEPT ![u] = None]
Release(u) == held' = held \ {lock[u]} /\ lock' = [lock EXCEPT ![u] = None]

LookAgain(u) ==
  /\ pc[u] = "inside" /\ request[u] \in cache
  /\ Go(u, "meanwhile")
  /\ UNCHANGED <<cache, updates, lockVars, lock, observed, transferVars>>

TakeMeanwhile(u) ==
  /\ pc[u] = "meanwhile" /\ Release(u)
  /\ IF request[u] \in cache THEN Got(u, request[u], {}) ELSE Raise(u) /\ UNCHANGED observed
  /\ UNCHANGED <<cache, updates, table, transferVars>>

(* A snapshot is kept by its own time, which may differ from that asked for.*)
TimeAsked(u) == request[u]
TimeLoaded(u) == Load[request[u]]
LoadSnapshot(u) ==
  /\ pc[u] = "inside" /\ request[u] \notin cache /\ Load[request[u]] # None
  /\ request' = [request EXCEPT ![u] = TimeLoaded(u)]
  /\ pc' = [pc EXCEPT ![u] = "loaded"]
  /\ UNCHANGED <<cache, updates, lockVars, exact, lock, keys, result, observed, transferVars>>

LoadFails(u) ==
  /\ pc[u] = "inside" /\ request[u] \notin cache /\ Release(u) /\ Return(u)
  /\ UNCHANGED <<cache, updates, table, transferVars>>

CheckInserted(u) ==
  /\ pc[u] = "loaded"
  /\ IF request[u] \in cache THEN Go(u, "after") /\ Release(u)
     ELSE Go(u, "count") /\ UNCHANGED <<held, lock>>
  /\ UNCHANGED <<cache, updates, table, observed, transferVars>>

(* Another thread, with another lock, may see the same room and take it.    *)
FullEarly == Cardinality(cache) >= MaxCaches - 1
Full == Cardinality(cache) >= MaxCaches
OldestOf(s) == CHOOSE t \in s : \A v \in s : t <= v
CountCache(u) ==
  /\ pc[u] = "count"
  /\ Go(u, IF Full THEN "oldest" ELSE "room")
  /\ UNCHANGED <<cache, updates, lockVars, lock, observed, transferVars>>

FindOldest(u) ==
  /\ pc[u] = "oldest"
  /\ IF cache = {} THEN Raise(u) /\ Release(u)
     ELSE /\ pc' = [pc EXCEPT ![u] = "evict"]
          /\ keys' = [keys EXCEPT ![u] = <<OldestOf(cache)>>]
          /\ UNCHANGED <<held, lock, request, exact, result>>
  /\ UNCHANGED <<cache, updates, table, observed, transferVars>>

Evict(u) ==
  /\ pc[u] = "evict"
  /\ IF Head(keys[u]) \notin cache
     THEN Raise(u) /\ Release(u) /\ UNCHANGED <<cache, crossed>>
     ELSE /\ cache' = cache \ {Head(keys[u])} /\ Crosses(User \ {u})
          /\ pc' = [pc EXCEPT ![u] = "count"] /\ keys' = [keys EXCEPT ![u] = <<>>]
          /\ UNCHANGED <<held, lock, request, exact, result>>
  /\ UNCHANGED <<updates, table, owed, transferVars>>

Insert(u) ==
  /\ pc[u] = "room"
  /\ cache' = cache \cup {request[u]}
  /\ Release(u) /\ Go(u, "after")
  /\ UNCHANGED <<updates, table, observed, transferVars>>

(* An update made meanwhile takes the place of what was loaded.             *)
NeverNewer(u) == FALSE
Newer(u) == request[u] \in Updated
ReturnLoaded(u) ==
  /\ pc[u] = "after"
  /\ IF Newer(u) THEN Go(u, "update") /\ UNCHANGED observed ELSE Got(u, request[u], {})
  /\ UNCHANGED <<cache, updates, lockVars, lock, transferVars>>

(* The bounds on lots leave a thread without one to transfer.               *)
MayTransfer(l) == transfer[l].at \in {"none", "failed"} \/ (Again /\ transfer[l].at = "done")
NoLotLeft(u) == pc[u] = "free" /\ \A l \in Lot : ~MayTransfer(l)

Done(u) ==
  /\ pc[u] \in {"got", "raised"} \/ NoLotLeft(u)
  /\ Return(u)
  /\ UNCHANGED <<cache, updates, lockVars, lock, transferVars>>

-----------------------------------------------------------------------------
(* start_transfer0() and transfer_internal(): whether a transfer runs is    *)
(* seen first, and the thread is set after: two may run at a time.          *)
CheckTransfer(u) ==
  /\ pc[u] = "got"
  /\ IF current # None
     THEN Return(u)
     ELSE Go(u, "free") /\ owed' = [owed EXCEPT ![u] = <<>>] /\ UNCHANGED crossed
  /\ UNCHANGED <<cache, updates, lockVars, lock, transferVars>>

BeginTransfer(u, l) ==
  /\ pc[u] = "free" /\ MayTransfer(l)
  /\ current' = l
  /\ transfer' = [transfer EXCEPT ![l] =
                    [at |-> "sink", time |-> result[u].time, lots |-> result[u].lots, keys |-> <<>>]]
  /\ Return(u)
  /\ UNCHANGED <<cache, updates, lockVars, lock, sink>>

(* check_running_transfer(), of any open page.                              *)
Over(l) == transfer[l].at \in {"done", "failed"}

Collect ==
  /\ current # None /\ Over(current)
  /\ current' = None
  /\ UNCHANGED <<cache, updates, lockVars, threadVars, observed, transfer, sink>>

(* LotTransferThread.run() and update_snapshot(): what is written to the    *)
(* sink may be left out of the snapshot, if the user wants that; else the   *)
(* oldest updates are dropped, whatever their times, before the new one is  *)
(* set.  An exception of the sink or of the update ends the transfer; a     *)
(* list of keys that is too short ends in None, and raises there.           *)
Goes(l, place) == transfer' = [transfer EXCEPT ![l].at = place]
Ends(l, how) == transfer' = [transfer EXCEPT ![l] = Idle(how)]
TooManyUpdates == Cardinality(Updated) > MaxUpdates

WriteLot(l) ==
  /\ transfer[l].at = "sink"
  /\ sink' = sink \cup {l}
  /\ Ends(l, "done") \/ Goes(l, IF TooManyUpdates THEN "list" ELSE "set")
  /\ UNCHANGED <<cache, updates, lockVars, threadVars, observed, current>>

WriteFails(l) ==
  /\ transfer[l].at = "sink"
  /\ Ends(l, "failed")
  /\ UNCHANGED <<cache, updates, lockVars, threadVars, observed, current, sink>>

Older(t) == {v \in Updated : v < t}
OldestUpdates ==
  [i \in 1..DroppedUpdates |->
     IF \E t \in Updated : Cardinality(Older(t)) = i - 1
     THEN CHOOSE t \in Updated : Cardinality(Older(t)) = i - 1 ELSE None]

ListUpdates(l) ==
  /\ transfer[l].at = "list"
  /\ transfer' = [transfer EXCEPT ![l].at = "drop", ![l].keys = OldestUpdates]
  /\ UNCHANGED <<cache, updates, lockVars, threadVars, observed, current, sink>>

DropUpdate(l) ==
  /\ transfer[l].at = "drop"
  /\ LET t == Head(transfer[l].keys)
         rest == Tail(transfer[l].keys)
     IN IF t \notin Updated
        THEN Ends(l, "failed") /\ UNCHANGED <<updates, observed>>
        ELSE /\ updates' = [v \in Updated \ {t} |-> updates[v]]
             /\ owed' = [u \in User |-> [v \in DOMAIN owed[u] \ {t} |-> owed[u][v]]] /\ Crosses(User)
             /\ transfer' = [transfer EXCEPT ![l].at = IF rest = <<>> THEN "set" ELSE "drop", ![l].keys = rest]
  /\ UNCHANGED <<cache, lockVars, threadVars, current, sink>>

NewSnapshot(l) == transfer[l].lots \cup {l}
SetUpdate(l) ==
  /\ transfer[l].at = "set"
  /\ LET t == transfer[l].time
     IN /\ updates' = [v \in Updated \cup {t} |-> IF v = t THEN NewSnapshot(l) ELSE updates[v]]
        /\ owed' = [u \in User |-> [v \in DOMAIN owed[u] |->
                      IF v = t THEN owed[u][v] \cap NewSnapshot(l) ELSE owed[u][v]]]
  /\ Ends(l, "done")
  /\ UNCHANGED <<cache, lockVars, threadVars, crossed, current, sink>>

-----------------------------------------------------------------------------
Init ==
  /\ cache = {} /\ updates = <<>>
  /\ table = <<>> /\ held = {}
  /\ pc = [u \in User |-> "idle"] /\ request = [u \in User |-> None]
  /\ exact = [u \in User |-> FALSE] /\ lock = [u \in User |-> None]
  /\ keys = [u \in User |-> <<>>]
  /\ result = [u \in User |-> None]
  /\ owed = [u \in User |-> <<>>] /\ crossed = [u \in User |-> FALSE]
  /\ current = None /\ transfer = [l \in Lot |-> Idle("none")] /\ sink = {}

LookUp(u) ==
  TakeUpdate(u) \/ LookInCache(u) \/ TakeCached(u)

GetLock(u) ==
  \/ LookForLock(u) \/ CountLocks(u) \/ ListLocks(u) \/ DropLock(u)
  \/ InsertLock(u) \/ FetchLock(u) \/ Acquire(u)

WithLock(u) ==
  \/ LookAgain(u) \/ TakeMeanwhile(u) \/ LoadSnapshot(u) \/ LoadFails(u) \/ CheckInserted(u)
  \/ CountCache(u) \/ FindOldest(u) \/ Evict(u) \/ Insert(u) \/ ReturnLoaded(u)

GetSnapshot(u) == LookUp(u) \/ GetLock(u) \/ WithLock(u)

UseSnapshot(u) ==
  \/ Done(u) \/ CheckTransfer(u) \/ \E l \in Lot : BeginTransfer(u, l)

Transfer(l) ==
  \/ WriteLot(l) \/ WriteFails(l)
  \/ ListUpdates(l) \/ DropUpdate(l) \/ SetUpdate(l)

Next ==
  \/ \E u \in User :
       \/ \E t \in Request : Ask(u, t)
       \/ GetSnapshot(u) \/ UseSnapshot(u)
  \/ \E l \in Lot : Transfer(l)
  \/ Collect

Spec == Init /\ [][Next]_vars
=============================================================================
