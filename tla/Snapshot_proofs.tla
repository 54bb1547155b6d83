-------------------------- MODULE Snapshot_proofs --------------------------
(***************************************************************************)
(* Proofs about the snapshots of the service, for every number of threads, *)
(* lots and snapshots, and all sizes of the caches.                        *)
(***************************************************************************)
EXTENDS SnapshotProperties, FiniteSetTheorems, SequenceTheorems, NumberLemmas, TLAPS

Locked == {"wait"} \cup WithTheLock
Loading == {"loaded", "count", "oldest", "evict", "room", "after"}
HasResult == {"got", "free"}
Unfound ==
  {"cache", "cached", "missing", "unlocked", "first", "drop", "create", "fetch", "wait", "inside", "meanwhile"}

Found == [time : Snap, lots : SUBSET Lot]
Stage == {"none", "sink", "list", "drop", "set", "done", "failed"}
Work == [at : Stage, time : Snap \cup {None}, lots : SUBSET Lot, keys : Seq(Snap \cup {None})]

(* The variables' types, those of a thread and those of a transfer.         *)
StoreTypes ==
  /\ cache \subseteq Snap /\ IsFiniteSet(cache)
  /\ Updated \subseteq Snap /\ IsFiniteSet(Updated) /\ updates \in [Updated -> SUBSET Lot]
  /\ held \subseteq Lock /\ lock \in [User -> Lock \cup {None}]
  /\ current \in Lot \cup {None} /\ sink \subseteq Lot

ThreadTypes ==
  /\ pc \in [User -> Place] /\ request \in [User -> Time \cup {None}] /\ exact \in [User -> BOOLEAN]
  /\ keys \in [User -> Seq(Time)] /\ result \in [User -> Found \cup {None}]

Knows(u) ==
  /\ pc[u] # "idle" => request[u] \in Time
  /\ pc[u] \in Loading => request[u] \in Snap
  /\ pc[u] \in {"drop", "evict"} => keys[u] # <<>>
  /\ IF pc[u] \in HasResult THEN result[u] \in Found ELSE result[u] = None

WorkTypes ==
  /\ transfer \in [Lot -> Work]
  /\ \A l \in Lot :
       /\ transfer[l].at \in {"sink", "list", "drop", "set"} => transfer[l].time \in Snap
       /\ transfer[l].at = "drop" => transfer[l].keys # <<>>

(* The table has one lock for a time.                                       *)
TableTypes ==
  /\ table \in Seq(Lock)
  /\ \A i, j \in 1..Len(table) : table[i][1] = table[j][1] => i = j

TypeInv == StoreTypes /\ ThreadTypes /\ WorkTypes /\ TableTypes /\ \A u \in User : Knows(u)

(* A lock is taken by the one thread that goes on with it.                  *)
LockInv ==
  /\ NoLockIsLost
  /\ \A u \in User : pc[u] \in Locked => lock[u] \in Lock
  /\ \A u, v \in User : u # v /\ pc[u] \in WithTheLock /\ pc[v] \in WithTheLock => lock[u] # lock[v]

(* Every thread and transfer that has found room may still use it.          *)
InRoom == {u \in User : pc[u] = "room"}
Creating == {u \in User : pc[u] = "create"}
Setting == {l \in Lot : transfer[l].at = "set"}
RoomInv ==
  /\ Cardinality(cache) + Cardinality(InRoom) < MaxCaches + Cardinality(User)
  /\ Cardinality(Updated) + Cardinality(Setting) <= MaxUpdates + Cardinality(Lot)
  /\ Len(table) + Cardinality(Creating) <= MaxLocks + Cardinality(User)

(* What a thread has found is still there, if no other thread has dropped   *)
(* anything since.                                                          *)
HasLock(t) == \E i \in 1..Len(table) : table[i][1] = t
Sure(u) ==
  /\ pc[u] = "update" => request[u] \in Updated
  /\ pc[u] \in {"cached", "meanwhile"} => request[u] \in cache
  /\ pc[u] = "fetch" => HasLock(request[u])
  /\ pc[u] = "drop" =>
       /\ \A i \in 1..Len(keys[u]) : HasLock(keys[u][i])
       /\ \A i, j \in 1..Len(keys[u]) : keys[u][i] = keys[u][j] => i = j
  /\ pc[u] = "oldest" => cache # {}
  /\ pc[u] = "evict" => Head(keys[u]) \in cache
  /\ pc[u] # "raised"
CrossInv == crossed \in [User -> BOOLEAN] /\ \A u \in User : crossed[u] \/ Sure(u)

(* What a thread is owed is there; it has been owed nothing of a snapshot   *)
(* whose update it did not find.                                            *)
ReadInv ==
  /\ DOMAIN owed = User
  /\ \A u \in User : \A t \in DOMAIN owed[u] : t \in Updated /\ owed[u][t] \subseteq updates[t]
  /\ \A u \in User : pc[u] \in Unfound => request[u] \notin DOMAIN owed[u]
  /\ ReadsSeeTransfers

(* The lots in a snapshot, in the snapshot a user looks at and in the one a *)
(* transfer has read are in their sink.                                     *)
SinkInv ==
  /\ TransferredIsSunk
  /\ \A u \in User : pc[u] \in HasResult => result[u].lots \subseteq sink
  /\ \A l \in Lot : transfer[l].lots \subseteq sink
  /\ \A l \in Lot : transfer[l].at \in {"list", "drop", "set"} => l \in sink

IInv == TypeInv /\ LockInv /\ RoomInv /\ CrossInv /\ ReadInv /\ SinkInv

ThreadStep(u) == GetSnapshot(u) \/ UseSnapshot(u) \/ \E t \in Request : Ask(u, t)
-----------------------------------------------------------------------------
LEMMA Constants ==
  /\ Snap \subseteq Nat /\ Time \subseteq Nat /\ Snap \subseteq Time /\ Request \subseteq Time
  /\ None \notin Lot /\ None \notin Time /\ None \notin Snap
  /\ Near \in [Time -> Snap \cup {None}] /\ Load \in [Time -> Snap \cup {None}]
  /\ MaxCaches \in Nat \ {0} /\ MaxUpdates \in Nat /\ MaxLocks \in Nat
  /\ DroppedLocks \in Nat \ {0} /\ DroppedUpdates \in Nat \ {0}
  /\ IsFiniteSet(User) /\ Cardinality(User) \in Nat /\ IsFiniteSet(Lot) /\ Cardinality(Lot) \in Nat
BY StoreAssumption, FS_CardinalityType DEF Time

LEMMA Counts ==
  /\ IsFiniteSet(User) /\ Cardinality(User) \in Nat /\ IsFiniteSet(Lot) /\ Cardinality(Lot) \in Nat
  /\ MaxCaches \in Nat \ {0} /\ MaxUpdates \in Nat /\ MaxLocks \in Nat
BY Constants

LEMMA TailLemma ==
  ASSUME NEW S, NEW s \in Seq(S), s # <<>>
  PROVE  /\ Tail(s) \in Seq(S) /\ (Len(s) # 1 => Tail(s) # <<>>)
         /\ Len(Tail(s)) = Len(s) - 1 /\ \A i \in 1..Len(Tail(s)) : i + 1 \in 1..Len(s) /\ Tail(s)[i] = s[i + 1]
         /\ 1 \in 1..Len(s) /\ Head(s) = s[1]
<1>1. Tail(s) \in Seq(S) /\ Len(Tail(s)) = Len(s) - 1 /\ Len(s) \in Nat
  BY HeadTailProperties
<1>2. \A i \in 1..Len(Tail(s)) : i + 1 \in 1..Len(s) /\ Tail(s)[i] = s[i + 1]
  BY <1>1
<1>3. Len(s) # 0
  BY EmptySeq
<1>4. Tail(s) = <<>> => Len(Tail(s)) = 0
  BY EmptySeq
<1> QED BY <1>1, <1>2, <1>3, <1>4

LEMMA LockOfTime == ASSUME TableTypes, NEW t PROVE LocksFor(t) # {} <=> HasLock(t)
BY DEF LocksFor, Locks, HasLock

(* There is a name for a new lock: every thread uses one at most, and the   *)
(* table has one more.                                                      *)
LEMMA NewLockLemma ==
  ASSUME NoLockIsLost, TableTypes, NEW t \in Time
  PROVE  NewLock(t) \in Lock /\ NewLock(t)[1] = t /\ NewLock(t) \notin InUse
<1> DEFINE Name == 0..(Cardinality(User) + 1)
<1>1. IsFiniteSet(Name) /\ Cardinality(Name) = Cardinality(User) + 2
  <2> DEFINE n == Cardinality(User)
  <2>1. n \in Nat
    BY Counts
  <2> HIDE DEF n
  <2>2. IsFiniteSet(0..(n + 1)) /\ Cardinality(0..(n + 1)) = n + 2
    BY <2>1, FS_Interval
  <2> QED BY <2>2 DEF n
<1>2. PICK x \in Name : \A n \in Name : <<t, n>> \in Locks => <<t, n>> = <<t, x>>
  <2>1. ASSUME NEW n \in Name, NEW m \in Name, <<t, n>> \in Locks, <<t, m>> \in Locks PROVE n = m
    <3>1. PICK i, j \in 1..Len(table) : table[i] = <<t, n>> /\ table[j] = <<t, m>>
      BY <2>1 DEF Locks
    <3>2. i = j
      BY <3>1 DEF TableTypes
    <3> QED BY <3>1, <3>2
  <2>2. 0 \in Name
    BY Constants
  <2> QED BY <2>1, <2>2
<1> DEFINE Others == Name \ {x}
<1>3. IsFiniteSet(Others) /\ Cardinality(Others) = Cardinality(User) + 1
  <2> HIDE DEF Name
  <2> QED BY <1>1, OneLessLemma, Counts
<1>4. \E n \in Name : <<t, n>> \notin InUse
  <2> SUFFICES ASSUME \A n \in Name : <<t, n>> \in InUse PROVE FALSE
    OBVIOUS
  <2>1. \A n \in Others : \E u \in User : lock[u] = <<t, n>>
    BY <1>2 DEF InUse, NoLockIsLost
  <2> DEFINE user == [n \in Others |-> CHOOSE u \in User : lock[u] = <<t, n>>]
  <2>2. \A n \in Others : user[n] \in User /\ lock[user[n]] = <<t, n>>
    BY <2>1
  <2>3. user \in [Others -> User]
    BY <2>2
  <2>4. \E n, m \in Others : n # m /\ user[n] = user[m]
    <3> HIDE DEF Others, user
    <3> QED BY <1>3, <2>3, Counts, FS_PigeonHole
  <2> HIDE DEF Others, user
  <2>5. PICK n \in Others, m \in Others : n # m /\ user[n] = user[m]
    BY <2>4
  <2>6. lock[user[n]] = <<t, n>> /\ lock[user[m]] = <<t, m>>
    BY <2>2
  <2> QED BY <2>5, <2>6
<1> QED BY <1>4 DEF NewLock, Lock

(* What dropping a lock does to the table, and inserting one.               *)
LEMMA WithoutLemma ==
  ASSUME TableTypes, NEW t, HasLock(t)
  PROVE  /\ Without(t) \in Seq(Lock) /\ Len(Without(t)) = Len(table) - 1
         /\ \A i, j \in 1..Len(Without(t)) : Without(t)[i][1] = Without(t)[j][1] => i = j
         /\ \A s : s # t /\ HasLock(s) => \E i \in 1..Len(Without(t)) : Without(t)[i][1] = s
<1>1. table \in Seq(Lock) /\ Len(table) \in Nat /\ \A i \in 1..Len(table) : table[i] \in Lock
  BY DEF TableTypes
<1> DEFINE p == IndexOf(t)
<1>2. p \in 1..Len(table) /\ table[p][1] = t
  BY DEF IndexOf, HasLock
<1> DEFINE w == [i \in 1..(Len(table) - 1) |-> IF i < p THEN table[i] ELSE table[i + 1]]
<1>3. Without(t) = w
  BY DEF Without
<1> HIDE DEF p
<1>4. w \in Seq(Lock) /\ Len(w) = Len(table) - 1
  <2>1. Len(table) - 1 \in Nat /\ \A i \in 1..(Len(table) - 1) : w[i] \in Lock
    BY <1>1, <1>2
  <2> QED BY <2>1
<1>5. \A i, j \in 1..Len(w) : w[i][1] = w[j][1] => i = j
  <2> SUFFICES ASSUME NEW i \in 1..(Len(table) - 1), NEW j \in 1..(Len(table) - 1), w[i][1] = w[j][1] PROVE i = j
    BY <1>4
  <2>1. \A k \in 1..(Len(table) - 1) : k \in 1..Len(table) /\ k + 1 \in 1..Len(table)
    BY <1>1
  <2>2. \A k, m \in 1..Len(table) : table[k][1] = table[m][1] => k = m
    BY DEF TableTypes
  <2>3. CASE i < p /\ j < p
    BY <2>1, <2>2, <2>3
  <2>4. CASE i < p /\ ~(j < p)
    <3>1. table[i][1] = table[j + 1][1]
      BY <2>4
    <3>2. i = j + 1
      BY <2>1, <2>2, <3>1
    <3> QED BY <1>1, <1>2, <2>4, <3>2
  <2>5. CASE ~(i < p) /\ j < p
    <3>1. table[i + 1][1] = table[j][1]
      BY <2>5
    <3>2. i + 1 = j
      BY <2>1, <2>2, <3>1
    <3> QED BY <1>1, <1>2, <2>5, <3>2
  <2>6. CASE ~(i < p) /\ ~(j < p)
    <3>1. table[i + 1][1] = table[j + 1][1]
      BY <2>6
    <3>2. i + 1 = j + 1
      BY <2>1, <2>2, <3>1
    <3> QED BY <3>2
  <2> QED BY <2>3, <2>4, <2>5, <2>6
<1>6. ASSUME NEW s, s # t, HasLock(s) PROVE \E i \in 1..Len(w) : w[i][1] = s
  <2>1. PICK k \in 1..Len(table) : table[k][1] = s
    BY <1>6 DEF HasLock
  <2>2. k # p
    BY <1>2, <1>6, <2>1
  <2>3. CASE k < p
    <3>1. k \in 1..(Len(table) - 1) /\ w[k] = table[k]
      BY <1>1, <1>2, <2>3
    <3> QED BY <1>4, <2>1, <3>1
  <2>4. CASE k > p
    <3>1. k - 1 \in 1..(Len(table) - 1) /\ w[k - 1] = table[k]
      BY <1>1, <1>2, <2>4
    <3> QED BY <1>4, <2>1, <3>1
  <2>5. k < p \/ k > p
    BY <1>1, <1>2, <2>2
  <2> QED BY <2>3, <2>4, <2>5
<1> HIDE DEF w
<1> QED BY <1>3, <1>4, <1>5, <1>6

LEMMA InsertedLemma ==
  ASSUME TableTypes, NEW k \in Lock
  PROVE  /\ Inserted(k) \in Seq(Lock) /\ Len(Inserted(k)) <= Len(table) + 1
         /\ \A i, j \in 1..Len(Inserted(k)) : Inserted(k)[i][1] = Inserted(k)[j][1] => i = j
         /\ \A s : s = k[1] \/ HasLock(s) => \E i \in 1..Len(Inserted(k)) : Inserted(k)[i][1] = s
<1>1. /\ table \in Seq(Lock) /\ Len(table) \in Nat /\ \A i \in 1..Len(table) : table[i] \in Lock
      /\ \A i, j \in 1..Len(table) : table[i][1] = table[j][1] => i = j
  BY DEF TableTypes
<1>2. CASE ~HasLock(k[1])
  <2> DEFINE t == Append(table, k)
  <2>1. Inserted(k) = t
    BY <1>2, LockOfTime DEF Inserted
  <2>2. /\ t \in Seq(Lock) /\ Len(t) = Len(table) + 1 /\ t[Len(table) + 1] = k
        /\ \A i \in 1..Len(table) : t[i] = table[i]
    BY <1>1, AppendProperties
  <2>3. \A i \in 1..Len(table) : table[i][1] # k[1]
    BY <1>2 DEF HasLock
  <2> HIDE DEF t
  <2>4. \A i, j \in 1..Len(t) : t[i][1] = t[j][1] => i = j
    BY <1>1, <2>2, <2>3
  <2>5. \A s : s = k[1] \/ HasLock(s) => \E i \in 1..Len(t) : t[i][1] = s
    BY <1>1, <2>2 DEF HasLock
  <2> QED BY <1>1, <2>1, <2>2, <2>4, <2>5
<1>3. CASE HasLock(k[1])
  <2> DEFINE t == [i \in 1..Len(table) |-> IF table[i][1] = k[1] THEN k ELSE table[i]]
  <2>1. Inserted(k) = t
    BY <1>3, LockOfTime DEF Inserted
  <2>2. t \in Seq(Lock) /\ Len(t) = Len(table) /\ \A i \in 1..Len(table) : t[i][1] = table[i][1]
    BY <1>1
  <2> HIDE DEF t
  <2>3. \A i, j \in 1..Len(t) : t[i][1] = t[j][1] => i = j
    BY <1>1, <2>2
  <2>4. \A s : s = k[1] \/ HasLock(s) => \E i \in 1..Len(t) : t[i][1] = s
    BY <1>3, <2>2 DEF HasLock
  <2> QED BY <1>1, <2>1, <2>2, <2>3, <2>4
<1> QED BY <1>2, <1>3

(* The first locks' times are in the table, and differ.                     *)
LEMMA FirstTimesLemma ==
  ASSUME TableTypes
  PROVE  /\ FirstTimes \in Seq(Time) /\ (table # <<>> => FirstTimes # <<>>)
         /\ \A i \in 1..Len(FirstTimes) : HasLock(FirstTimes[i])
         /\ \A i, j \in 1..Len(FirstTimes) : FirstTimes[i] = FirstTimes[j] => i = j
<1> DEFINE n == IF Len(table) < DroppedLocks THEN Len(table) ELSE DroppedLocks
<1>1. /\ table \in Seq(Lock) /\ Len(table) \in Nat /\ \A i \in 1..Len(table) : table[i] \in Lock
      /\ \A i, j \in 1..Len(table) : table[i][1] = table[j][1] => i = j
  BY DEF TableTypes
<1>2. n \in Nat /\ n <= Len(table) /\ (table # <<>> => n > 0)
  BY <1>1, Constants
<1>3. FirstTimes = [i \in 1..n |-> table[i][1]]
  BY DEF FirstTimes
<1> HIDE DEF n
<1>4. \A i \in 1..n : i \in 1..Len(table) /\ table[i][1] \in Time
  BY <1>1, <1>2 DEF Lock
<1>5. FirstTimes \in Seq(Time) /\ Len(FirstTimes) = n
  BY <1>2, <1>3, <1>4
<1>6. table # <<>> => FirstTimes # <<>>
  BY <1>2, <1>5
<1> QED BY <1>1, <1>3, <1>4, <1>5, <1>6 DEF HasLock

-----------------------------------------------------------------------------
LEMMA InitLemma == Init => IInv
<1> SUFFICES ASSUME Init PROVE IInv
  OBVIOUS
<1>1. IsFiniteSet({}) /\ Cardinality({}) = 0
  BY FS_EmptySet
<1>2. Updated = {} /\ Len(table) = 0 /\ InRoom = {} /\ Creating = {} /\ Setting = {}
  BY DEF Init, Updated, InRoom, Creating, Setting, Idle
<1>3. StoreTypes /\ TableTypes
  BY <1>1, <1>2 DEF Init, StoreTypes, TableTypes
<1>4. ThreadTypes /\ \A u \in User : Knows(u)
  BY DEF Init, ThreadTypes, Knows, Place, Loading, HasResult
<1>5. WorkTypes
  BY DEF Init, WorkTypes, Work, Stage, Idle
<1>6. LockInv
  BY DEF Init, LockInv, NoLockIsLost, Locked, WithTheLock
<1>7. RoomInv
  BY <1>1, <1>2, Counts DEF Init, RoomInv
<1>8. CrossInv
  BY DEF Init, CrossInv, Sure
<1>9. ReadInv
  BY DEF Init, ReadInv, Unfound, ReadsSeeTransfers
<1>10. SinkInv
  BY <1>2 DEF Init, SinkInv, TransferredIsSunk, Idle, HasResult
<1> QED BY <1>3, <1>4, <1>5, <1>6, <1>7, <1>8, <1>9, <1>10 DEF IInv, TypeInv

-----------------------------------------------------------------------------
(* A thread's step leaves the other threads as they are, and it knows what  *)
(* it must know at the place it comes to.                                   *)
Alone(u) ==
  \A v \in User \ {u} :
    /\ pc'[v] = pc[v] /\ request'[v] = request[v] /\ keys'[v] = keys[v]
    /\ result'[v] = result[v] /\ lock'[v] = lock[v] /\ owed'[v] = owed[v]

Moves(u) == ThreadTypes' /\ Alone(u) /\ Knows(u)'

LEMMA GoMoves ==
  ASSUME TypeInv, DOMAIN owed = User, NEW u \in User, NEW p \in Place, Go(u, p), UNCHANGED owed,
         pc[u] # "idle", pc[u] \notin HasResult, p \notin HasResult,
         p \in Loading => request[u] \in Snap, p \notin {"drop", "evict"},
         UNCHANGED lock \/ \E k : lock' = [lock EXCEPT ![u] = k]
  PROVE  Moves(u)
<1>1. pc \in [User -> Place] /\ lock \in [User -> Lock \cup {None}]
  BY DEF TypeInv, ThreadTypes, StoreTypes
<1>2. ThreadTypes' /\ pc'[u] = p /\ UNCHANGED <<request, keys, result>>
  BY <1>1 DEF Go, TypeInv, ThreadTypes
<1>3. Alone(u)
  BY <1>1 DEF Go, Alone
<1> QED BY <1>2, <1>3 DEF Moves, Knows, TypeInv

LEMMA RaiseMoves ==
  ASSUME TypeInv, DOMAIN owed = User, NEW u \in User, Raise(u), UNCHANGED owed,
         pc[u] # "idle", pc[u] \notin HasResult,
         UNCHANGED lock \/ \E k : lock' = [lock EXCEPT ![u] = k]
  PROVE  Moves(u) /\ pc'[u] = "raised" /\ pc' = [pc EXCEPT ![u] = "raised"]
<1>1. pc \in [User -> Place] /\ lock \in [User -> Lock \cup {None}] /\ keys \in [User -> Seq(Time)]
  BY DEF TypeInv, ThreadTypes, StoreTypes
<1>2. ThreadTypes' /\ pc'[u] = "raised" /\ UNCHANGED <<request, result>>
  BY <1>1 DEF Raise, TypeInv, ThreadTypes, Place
<1>3. Alone(u)
  BY <1>1 DEF Raise, Alone
<1> QED BY <1>2, <1>3 DEF Moves, Knows, TypeInv, Loading, HasResult, Raise

LEMMA EmptyLots == {} \in SUBSET Lot
OBVIOUS

LEMMA GotMoves ==
  ASSUME TypeInv, DOMAIN owed = User, NEW u \in User, NEW t \in Snap, NEW f \in SUBSET Lot, Got(u, t, f),
         pc[u] # "idle",
         UNCHANGED lock \/ \E k : lock' = [lock EXCEPT ![u] = k]
  PROVE  Moves(u) /\ pc' = [pc EXCEPT ![u] = "got"] /\ result'[u] = [time |-> t, lots |-> f]
<1>1. /\ pc \in [User -> Place] /\ lock \in [User -> Lock \cup {None}]
      /\ result \in [User -> Found \cup {None}] /\ exact \in [User -> BOOLEAN]
  BY DEF TypeInv, ThreadTypes, StoreTypes
<1>2. [time |-> t, lots |-> f] \in Found
  BY DEF Found
<1>3. ThreadTypes' /\ pc'[u] = "got" /\ result'[u] = [time |-> t, lots |-> f] /\ request' = request
  BY <1>1, <1>2 DEF Got, TypeInv, ThreadTypes, Place
<1>4. Alone(u)
  BY <1>1 DEF Got, Alone
<1> QED BY <1>2, <1>3, <1>4 DEF Moves, Knows, TypeInv, Loading, HasResult, Got

LEMMA ReturnMoves ==
  ASSUME TypeInv, DOMAIN owed = User, NEW u \in User, Return(u),
         UNCHANGED lock \/ \E k : lock' = [lock EXCEPT ![u] = k]
  PROVE  Moves(u) /\ pc' = [pc EXCEPT ![u] = "idle"]
<1>1. /\ pc \in [User -> Place] /\ lock \in [User -> Lock \cup {None}] /\ keys \in [User -> Seq(Time)]
      /\ result \in [User -> Found \cup {None}] /\ exact \in [User -> BOOLEAN]
      /\ request \in [User -> Time \cup {None}]
  BY DEF TypeInv, ThreadTypes, StoreTypes
<1>2. <<>> \in Seq(Time)
  OBVIOUS
<1>3. ThreadTypes' /\ pc'[u] = "idle" /\ result'[u] = None
  BY <1>1, <1>2 DEF Return, TypeInv, ThreadTypes, Place
<1>4. Alone(u)
  BY <1>1 DEF Return, Alone
<1> QED BY <1>3, <1>4 DEF Moves, Knows, Loading, HasResult, Return

(* A thread looks for an update of a snapshot it has not looked for before. *)
LEMMA LookMoves ==
  ASSUME TypeInv, DOMAIN owed = User, NEW u \in User, NEW t \in Time, LookForUpdate(u, t),
         pc[u] \in {"idle", "cache"}, UNCHANGED <<keys, result, lock>>, exact' \in [User -> BOOLEAN],
         UNCHANGED owed \/ \E o : owed' = [owed EXCEPT ![u] = o]
  PROVE  Moves(u) /\ \E p \in {"update", "cache"} : pc' = [pc EXCEPT ![u] = p]
<1>1. pc \in [User -> Place] /\ request \in [User -> Time \cup {None}]
  BY DEF TypeInv, ThreadTypes
<1>2. PICK p \in {"update", "cache"} : pc' = [pc EXCEPT ![u] = p]
  BY DEF LookForUpdate
<1>3. ThreadTypes' /\ pc'[u] = p /\ request'[u] = t
  BY <1>1, <1>2 DEF LookForUpdate, TypeInv, ThreadTypes, Place
<1>4. Alone(u)
  BY <1>1, <1>2 DEF LookForUpdate, Alone
<1>5. result[u] = None
  BY DEF TypeInv, Knows, HasResult
<1> QED BY <1>2, <1>3, <1>4, <1>5 DEF Moves, Knows, Loading, HasResult

LEMMA LookUpMoves ==
  ASSUME TypeInv, DOMAIN owed = User, NEW u \in User, LookUp(u) \/ \E t \in Request : Ask(u, t)
  PROVE  Moves(u)
<1> USE DEF observed, lockVars
<1>1. Knows(u) /\ exact \in [User -> BOOLEAN]
  BY DEF TypeInv, ThreadTypes
<1>2. ASSUME NEW t \in Request, Ask(u, t) PROVE Moves(u)
  BY <1>1, <1>2, LookMoves, Constants DEF Ask
<1>3. CASE TakeUpdate(u)
  <2>1. CASE request[u] \in Updated
    <3>1. request[u] \in Snap /\ updates[request[u]] \in SUBSET Lot
      BY <2>1 DEF TypeInv, StoreTypes
    <3> QED BY <1>3, <2>1, <3>1, GotMoves DEF TakeUpdate
  <2>2. CASE request[u] \notin Updated
    BY <1>3, <2>2, RaiseMoves DEF TakeUpdate, HasResult
  <2> QED BY <2>1, <2>2
<1>4. CASE TakeCached(u)
  <2>1. CASE request[u] \in cache
    <3>1. request[u] \in Snap
      BY <2>1 DEF TypeInv, StoreTypes
    <3> QED BY <1>4, <2>1, <3>1, EmptyLots, GotMoves DEF TakeCached
  <2>2. CASE request[u] \notin cache
    BY <1>4, <2>2, RaiseMoves DEF TakeCached, HasResult
  <2> QED BY <2>1, <2>2
<1>5. CASE LookInCache(u)
  <2>1. CASE Match(u)
    <3>1. request[u] \in Time
      BY <1>1, <1>5 DEF LookInCache, Knows
    <3>2. Near[request[u]] \in Time \/ Near[request[u]] = None
      BY <3>1, Constants
    <3>3. CASE Near[request[u]] \in Time
      BY <1>1, <1>5, <2>1, <3>3, LookMoves DEF LookInCache, Match
    <3>4. CASE Near[request[u]] = None
      <4>1. Go(u, "cached") \/ Go(u, "missing")
        BY <1>5, <3>4 DEF LookInCache, Matches
      <4> QED BY <1>5, <4>1, GoMoves DEF LookInCache, Place, Loading, HasResult
    <3> QED BY <3>2, <3>3, <3>4
  <2>2. CASE Go(u, "cached")
    BY <1>5, <2>2, GoMoves DEF LookInCache, Place, Loading, HasResult
  <2>3. CASE Go(u, "missing")
    BY <1>5, <2>3, GoMoves DEF LookInCache, Place, Loading, HasResult
  <2> QED BY <1>5, <2>1, <2>2, <2>3 DEF LookInCache
<1> QED BY <1>2, <1>3, <1>4, <1>5 DEF LookUp

LEMMA GetLockMoves ==
  ASSUME TypeInv, DOMAIN owed = User, NEW u \in User, GetLock(u)
  PROVE  Moves(u)
<1> USE DEF observed, lockVars, HasResult, Loading
<1>1. /\ Knows(u) /\ pc \in [User -> Place] /\ keys \in [User -> Seq(Time)]
      /\ exact \in [User -> BOOLEAN] /\ result \in [User -> Found \cup {None}]
  BY DEF TypeInv, ThreadTypes
<1>2. {"fetch", "unlocked", "first", "create", "wait", "inside"} \subseteq Place
  BY DEF Place
<1>3. CASE LookForLock(u)
  BY <1>2, <1>3, GoMoves DEF LookForLock
<1>4. CASE CountLocks(u)
  BY <1>2, <1>4, GoMoves DEF CountLocks
<1>5. CASE ListLocks(u)
  <2> DEFINE p == IF table = <<>> THEN "create" ELSE "drop"
  <2>1. FirstTimes \in Seq(Time) /\ (table # <<>> => FirstTimes # <<>>)
    BY FirstTimesLemma DEF TypeInv
  <2>2. /\ pc' = [pc EXCEPT ![u] = p] /\ keys' = [keys EXCEPT ![u] = FirstTimes]
        /\ UNCHANGED <<request, exact, lock, result, owed>> /\ pc[u] = "first"
    BY <1>5 DEF ListLocks
  <2>3. p \in Place
    BY DEF Place
  <2>4. ThreadTypes' /\ pc'[u] = p /\ keys'[u] = FirstTimes
    BY <1>1, <2>1, <2>2, <2>3 DEF TypeInv, ThreadTypes
  <2>5. Alone(u)
    BY <1>1, <2>2 DEF Alone
  <2> QED BY <1>1, <2>1, <2>2, <2>4, <2>5 DEF Moves, Knows
<1>6. CASE DropLock(u)
  <2>1. CASE LocksFor(Head(keys[u])) = {}
    BY <1>6, <2>1, RaiseMoves DEF DropLock
  <2>2. CASE LocksFor(Head(keys[u])) # {}
    <3> DEFINE p == IF Len(keys[u]) = 1 THEN "create" ELSE "drop"
    <3>1. keys[u] \in Seq(Time) /\ keys[u] # <<>> /\ pc[u] = "drop"
      BY <1>1, <1>6 DEF DropLock, Knows
    <3>2. Tail(keys[u]) \in Seq(Time) /\ (Len(keys[u]) # 1 => Tail(keys[u]) # <<>>)
      BY <3>1, TailLemma
    <3>3. /\ pc' = [pc EXCEPT ![u] = p] /\ keys' = [keys EXCEPT ![u] = Tail(keys[u])]
          /\ UNCHANGED <<request, exact, lock, result, owed>>
      BY <1>6, <2>2 DEF DropLock
    <3>4. p \in Place
      BY DEF Place
    <3>5. ThreadTypes' /\ pc'[u] = p /\ keys'[u] = Tail(keys[u])
      BY <1>1, <3>2, <3>3, <3>4 DEF TypeInv, ThreadTypes
    <3>6. Alone(u)
      BY <1>1, <3>3 DEF Alone
    <3> QED BY <1>1, <3>1, <3>2, <3>3, <3>5, <3>6 DEF Moves, Knows
  <2> QED BY <2>1, <2>2
<1>7. CASE InsertLock(u)
  BY <1>2, <1>7, GoMoves DEF InsertLock
<1>8. CASE FetchLock(u)
  <2>1. CASE LocksFor(request[u]) = {}
    BY <1>8, <2>1, RaiseMoves DEF FetchLock
  <2>2. CASE LocksFor(request[u]) # {}
    BY <1>2, <1>8, <2>2, GoMoves DEF FetchLock
  <2> QED BY <2>1, <2>2
<1>9. CASE Acquire(u)
  BY <1>2, <1>9, GoMoves DEF Acquire
<1> QED BY <1>3, <1>4, <1>5, <1>6, <1>7, <1>8, <1>9 DEF GetLock

LEMMA WithLockMoves ==
  ASSUME TypeInv, DOMAIN owed = User, NEW u \in User, WithLock(u)
  PROVE  Moves(u)
<1> USE DEF observed, lockVars, HasResult, Loading, Release
<1>1. /\ Knows(u) /\ pc \in [User -> Place] /\ keys \in [User -> Seq(Time)]
      /\ exact \in [User -> BOOLEAN] /\ result \in [User -> Found \cup {None}]
      /\ request \in [User -> Time \cup {None}] /\ lock \in [User -> Lock \cup {None}]
  BY DEF TypeInv, ThreadTypes, StoreTypes
<1>2. {"meanwhile", "loaded", "count", "oldest", "room", "after", "evict", "update"} \subseteq Place
  BY DEF Place
<1>3. \A t \in cache : t \in Snap
  BY DEF TypeInv, StoreTypes
<1>4. CASE LookAgain(u)
  BY <1>2, <1>4, GoMoves DEF LookAgain
<1>5. CASE TakeMeanwhile(u)
  <2>1. CASE request[u] \in cache
    BY <1>3, <1>5, <2>1, EmptyLots, GotMoves DEF TakeMeanwhile
  <2>2. CASE request[u] \notin cache
    BY <1>5, <2>2, RaiseMoves DEF TakeMeanwhile
  <2> QED BY <2>1, <2>2
<1>6. CASE LoadSnapshot(u)
  <2> USE DEF TimeLoaded
  <2>1. Load[request[u]] \in Snap /\ Snap \subseteq Time
    BY <1>1, <1>6, Constants DEF LoadSnapshot, Knows
  <2>2. /\ pc' = [pc EXCEPT ![u] = "loaded"] /\ request' = [request EXCEPT ![u] = Load[request[u]]]
        /\ UNCHANGED <<keys, exact, lock, result, owed>> /\ pc[u] = "inside"
    BY <1>6 DEF LoadSnapshot
  <2>3. ThreadTypes' /\ pc'[u] = "loaded" /\ request'[u] = Load[request[u]]
    BY <1>1, <1>2, <2>1, <2>2 DEF TypeInv, ThreadTypes
  <2>4. Alone(u)
    BY <1>1, <2>2 DEF Alone
  <2> QED BY <1>1, <2>1, <2>2, <2>3, <2>4 DEF Moves, Knows
<1>7. CASE LoadFails(u)
  BY <1>7, ReturnMoves DEF LoadFails
<1>8. CASE CheckInserted(u)
  <2>1. request[u] \in Snap /\ pc[u] = "loaded" /\ UNCHANGED owed
    BY <1>1, <1>8 DEF CheckInserted, Knows
  <2>2. UNCHANGED lock \/ \E k : lock' = [lock EXCEPT ![u] = k]
    BY <1>8 DEF CheckInserted
  <2>3. Go(u, "after") \/ Go(u, "count")
    BY <1>8 DEF CheckInserted
  <2> QED BY <1>2, <2>1, <2>2, <2>3, GoMoves
<1>9. CASE CountCache(u)
  <2>1. request[u] \in Snap /\ pc[u] = "count" /\ UNCHANGED <<owed, lock>> /\ (Go(u, "oldest") \/ Go(u, "room"))
    BY <1>1, <1>9 DEF CountCache, Knows
  <2> QED BY <1>2, <2>1, GoMoves
<1>10. CASE FindOldest(u)
  <2>1. CASE cache = {}
    BY <1>10, <2>1, RaiseMoves DEF FindOldest
  <2>2. CASE cache # {}
    <3>1. OldestOf(cache) \in cache /\ cache \subseteq Time
      <4>1. PICK t \in cache : \A v \in cache : t <= v
        BY <2>2, SmallestLemma, Constants DEF TypeInv, StoreTypes
      <4>2. cache \subseteq Time
        BY Constants DEF TypeInv, StoreTypes
      <4>3. OldestOf(cache) \in cache
        BY <4>1, Zenon DEF OldestOf
      <4> QED BY <4>2, <4>3
    <3> DEFINE k == <<OldestOf(cache)>>
    <3>2. k \in Seq(Time) /\ k # <<>>
      BY <3>1
    <3>3. /\ pc' = [pc EXCEPT ![u] = "evict"] /\ keys' = [keys EXCEPT ![u] = k]
          /\ UNCHANGED <<request, exact, lock, result, owed>> /\ pc[u] = "oldest"
      BY <1>10, <2>2 DEF FindOldest
    <3> HIDE DEF k
    <3>4. ThreadTypes' /\ pc'[u] = "evict" /\ keys'[u] = k
      BY <1>1, <1>2, <3>2, <3>3 DEF TypeInv, ThreadTypes
    <3>5. Alone(u)
      BY <1>1, <3>3 DEF Alone
    <3> QED BY <1>1, <3>2, <3>3, <3>4, <3>5 DEF Moves, Knows
  <2> QED BY <2>1, <2>2
<1>11. CASE Evict(u)
  <2>1. CASE Head(keys[u]) \notin cache
    BY <1>11, <2>1, RaiseMoves DEF Evict
  <2>2. CASE Head(keys[u]) \in cache
    <3>1. <<>> \in Seq(Time)
      OBVIOUS
    <3>2. /\ pc' = [pc EXCEPT ![u] = "count"] /\ keys' = [keys EXCEPT ![u] = <<>>]
          /\ UNCHANGED <<request, exact, lock, result, owed>> /\ pc[u] = "evict"
      BY <1>11, <2>2 DEF Evict
    <3>3. ThreadTypes' /\ pc'[u] = "count"
      BY <1>1, <1>2, <3>1, <3>2 DEF TypeInv, ThreadTypes
    <3>4. Alone(u)
      BY <1>1, <3>2 DEF Alone
    <3> QED BY <1>1, <3>2, <3>3, <3>4 DEF Moves, Knows
  <2> QED BY <2>1, <2>2
<1>12. CASE Insert(u)
  <2>1. request[u] \in Snap /\ pc[u] = "room" /\ UNCHANGED owed /\ Go(u, "after")
    BY <1>1, <1>12 DEF Insert, Knows
  <2> QED BY <1>2, <1>12, <2>1, GoMoves DEF Insert
<1>13. CASE ReturnLoaded(u)
  <2>1. request[u] \in Snap /\ pc[u] = "after" /\ UNCHANGED lock
    BY <1>1, <1>13 DEF ReturnLoaded, Knows
  <2>2. CASE Newer(u)
    BY <1>2, <1>13, <2>1, <2>2, GoMoves DEF ReturnLoaded
  <2>3. CASE ~Newer(u)
    BY <1>13, <2>1, <2>3, EmptyLots, GotMoves DEF ReturnLoaded
  <2> QED BY <2>2, <2>3
<1> QED BY <1>4, <1>5, <1>6, <1>7, <1>8, <1>9, <1>10, <1>11, <1>12, <1>13 DEF WithLock

LEMMA UseMoves ==
  ASSUME TypeInv, DOMAIN owed = User, NEW u \in User, UseSnapshot(u)
  PROVE  Moves(u)
<1> USE DEF observed, lockVars, HasResult, Loading
<1>1. CASE Done(u)
  BY <1>1, ReturnMoves DEF Done
<1>2. CASE CheckTransfer(u)
  <2>1. CASE current # None
    BY <1>2, <2>1, ReturnMoves DEF CheckTransfer
  <2>2. CASE current = None
    <3>1. /\ pc' = [pc EXCEPT ![u] = "free"] /\ owed' = [owed EXCEPT ![u] = <<>>] /\ pc[u] = "got"
          /\ UNCHANGED <<request, exact, keys, result, lock>>
      BY <1>2, <2>2 DEF CheckTransfer, Go
    <3>2. pc \in [User -> Place] /\ Knows(u)
      BY DEF TypeInv, ThreadTypes
    <3>3. ThreadTypes' /\ pc'[u] = "free"
      BY <3>1, <3>2 DEF TypeInv, ThreadTypes, Place
    <3>4. Alone(u)
      BY <3>1, <3>2 DEF Alone
    <3> QED BY <3>1, <3>2, <3>3, <3>4 DEF Moves, Knows
  <2> QED BY <2>1, <2>2
<1>3. ASSUME NEW l \in Lot, BeginTransfer(u, l) PROVE Moves(u)
  BY <1>3, ReturnMoves DEF BeginTransfer
<1> QED BY <1>1, <1>2, <1>3 DEF UseSnapshot

LEMMA ThreadMoves ==
  ASSUME TypeInv, DOMAIN owed = User, NEW u \in User, ThreadStep(u)
  PROVE  Moves(u)
BY LookUpMoves, GetLockMoves, WithLockMoves, UseMoves DEF ThreadStep, GetSnapshot

(* What a thread's step leaves alone, and the steps that do not.            *)
LEMMA ThreadChanges ==
  ASSUME NEW u \in User, ThreadStep(u)
  PROVE  /\ UNCHANGED <<updates, sink>>
         /\ UNCHANGED table \/ DropLock(u) \/ InsertLock(u)
         /\ UNCHANGED cache \/ Evict(u) \/ Insert(u)
         /\ UNCHANGED <<held, lock>> \/ FetchLock(u) \/ Acquire(u) \/ Release(u)
         /\ UNCHANGED <<current, transfer>> \/ \E l \in Lot : BeginTransfer(u, l)
<1> USE DEF lockVars, observed, transferVars, threadVars
<1>1. ASSUME LookUp(u) \/ \E t \in Request : Ask(u, t)
      PROVE  UNCHANGED <<cache, updates, table, held, lock, current, transfer, sink>>
  BY <1>1 DEF LookUp, Ask, TakeUpdate, LookInCache, TakeCached
<1>2. ASSUME GetLock(u) PROVE UNCHANGED <<cache, updates, current, transfer, sink>>
  BY <1>2 DEF GetLock, LookForLock, CountLocks, ListLocks, DropLock, InsertLock, FetchLock, Acquire
<1>3. ASSUME GetLock(u)
      PROVE  /\ UNCHANGED table \/ DropLock(u) \/ InsertLock(u)
             /\ UNCHANGED <<held, lock>> \/ FetchLock(u) \/ Acquire(u)
  BY <1>3 DEF GetLock, LookForLock, CountLocks, ListLocks, DropLock, InsertLock, FetchLock, Acquire
<1>4. ASSUME WithLock(u)
      PROVE  /\ UNCHANGED <<updates, table, current, transfer, sink>>
             /\ UNCHANGED cache \/ Evict(u) \/ Insert(u)
             /\ UNCHANGED <<held, lock>> \/ Release(u)
  BY <1>4 DEF WithLock, LookAgain, TakeMeanwhile, LoadSnapshot, LoadFails, CheckInserted, CountCache,
              FindOldest, Evict, Insert, ReturnLoaded
<1>5. ASSUME UseSnapshot(u)
      PROVE  /\ UNCHANGED <<cache, updates, table, held, lock, sink>>
             /\ UNCHANGED <<current, transfer>> \/ \E l \in Lot : BeginTransfer(u, l)
  BY <1>5 DEF UseSnapshot, Done, CheckTransfer, BeginTransfer
<1> QED BY <1>1, <1>2, <1>3, <1>4, <1>5 DEF ThreadStep, GetSnapshot

LEMMA DropLocks ==
  ASSUME TypeInv, NEW u \in User, DropLock(u)
  PROVE  \/ UNCHANGED <<table, crossed>> /\ Raise(u) /\ ~HasLock(Head(keys[u]))
         \/ /\ HasLock(Head(keys[u])) /\ table' = Without(Head(keys[u])) /\ Crosses(User \ {u})
            /\ pc'[u] \in {"create", "drop"} /\ keys'[u] = Tail(keys[u])
            /\ pc'[u] = "drop" => Len(keys[u]) # 1
<1>1. pc \in [User -> Place] /\ keys \in [User -> Seq(Time)] /\ TableTypes
  BY DEF TypeInv, ThreadTypes
<1>2. CASE HasLock(Head(keys[u]))
  BY <1>1, <1>2, LockOfTime DEF DropLock
<1>3. CASE ~HasLock(Head(keys[u]))
  BY <1>1, <1>3, LockOfTime DEF DropLock
<1> QED BY <1>2, <1>3

(* The table of locks after a thread's step.                                *)
LEMMA ThreadTable ==
  ASSUME TypeInv, LockInv, NEW u \in User, ThreadStep(u)
  PROVE  /\ TableTypes'
         /\ ~DropLock(u) => \A t : HasLock(t) => HasLock(t)'
         /\ InsertLock(u) => HasLock(request[u])'
<1>1. TableTypes
  BY DEF TypeInv
<1>2. CASE UNCHANGED table /\ ~InsertLock(u)
  BY <1>1, <1>2 DEF TableTypes, HasLock
<1>3. CASE DropLock(u)
  <2>1. ~InsertLock(u)
    BY <1>3 DEF DropLock, InsertLock
  <2>2. CASE UNCHANGED table
    BY <1>1, <1>3, <2>1, <2>2 DEF TableTypes
  <2>3. CASE HasLock(Head(keys[u])) /\ table' = Without(Head(keys[u]))
    BY <1>1, <1>3, <2>1, <2>3, WithoutLemma DEF TableTypes
  <2> QED BY <1>3, <2>2, <2>3, DropLocks
<1>4. CASE InsertLock(u)
  <2> DEFINE k == NewLock(request[u])
  <2>1. request[u] \in Time
    BY <1>4 DEF TypeInv, Knows, InsertLock
  <2>2. k \in Lock /\ k[1] = request[u]
    BY <1>1, <2>1, NewLockLemma DEF LockInv
  <2>3. table' = Inserted(k) /\ ~DropLock(u)
    BY <1>4 DEF InsertLock, DropLock
  <2> HIDE DEF k
  <2>4. /\ Inserted(k) \in Seq(Lock)
        /\ \A i, j \in 1..Len(Inserted(k)) : Inserted(k)[i][1] = Inserted(k)[j][1] => i = j
        /\ \A s : s = k[1] \/ HasLock(s) => \E i \in 1..Len(Inserted(k)) : Inserted(k)[i][1] = s
    BY <1>1, <2>2, InsertedLemma
  <2>5. TableTypes'
    BY <2>3, <2>4 DEF TableTypes
  <2>6. HasLock(request[u])' /\ \A t : HasLock(t) => HasLock(t)'
    <3>1. \A s : s = request[u] \/ HasLock(s) => \E i \in 1..Len(table') : table'[i][1] = s
      BY <2>2, <2>3, <2>4
    <3>2. request' = request
      BY <1>4 DEF InsertLock, Go
    <3> QED BY <3>1, <3>2 DEF HasLock
  <2> QED BY <1>4, <2>3, <2>5, <2>6
<1> QED BY <1>2, <1>3, <1>4, ThreadChanges

LEMMA ThreadCache ==
  ASSUME TypeInv, NEW u \in User, ThreadStep(u)
  PROVE  cache' \subseteq Snap /\ IsFiniteSet(cache') /\ (~Evict(u) => cache \subseteq cache')
<1>1. cache \subseteq Snap /\ IsFiniteSet(cache)
  BY DEF TypeInv, StoreTypes
<1>2. CASE UNCHANGED cache
  BY <1>1, <1>2
<1>3. CASE Evict(u)
  <2>1. UNCHANGED cache \/ cache' = cache \ {Head(keys[u])}
    BY <1>3 DEF Evict
  <2> QED BY <1>1, <1>3, <2>1, FS_RemoveElement
<1>4. CASE Insert(u)
  <2>1. request[u] \in Snap /\ cache' = cache \cup {request[u]}
    BY <1>4 DEF Insert, TypeInv, Knows, Loading
  <2> QED BY <1>1, <2>1, OneMoreLemma
<1> QED BY <1>2, <1>3, <1>4, ThreadChanges

LEMMA ThreadLocks ==
  ASSUME TypeInv, LockInv, NEW u \in User, ThreadStep(u)
  PROVE  held' \subseteq Lock /\ lock' \in [User -> Lock \cup {None}]
<1>1. held \subseteq Lock /\ lock \in [User -> Lock \cup {None}] /\ TableTypes
  BY DEF TypeInv, StoreTypes
<1>2. CASE UNCHANGED <<held, lock>>
  BY <1>1, <1>2
<1>3. CASE FetchLock(u)
  <2>1. CASE LocksFor(request[u]) = {}
    BY <1>1, <1>3, <2>1 DEF FetchLock, lockVars
  <2>2. CASE LocksFor(request[u]) # {}
    <3> DEFINE k == CHOOSE l \in LocksFor(request[u]) : TRUE
    <3>1. k \in LocksFor(request[u])
      BY <2>2
    <3>2. lock' = [lock EXCEPT ![u] = k] /\ held' = held
      BY <1>3, <2>2 DEF FetchLock, lockVars
    <3>3. \A i \in 1..Len(table) : table[i] \in Lock
      BY <1>1 DEF TableTypes
    <3> HIDE DEF k
    <3> QED BY <1>1, <3>1, <3>2, <3>3 DEF LocksFor, Locks
  <2> QED BY <2>1, <2>2
<1>4. CASE Acquire(u)
  <2>1. lock[u] \in Lock
    BY <1>4 DEF Acquire, LockInv, Locked
  <2> QED BY <1>1, <1>4, <2>1 DEF Acquire
<1>5. CASE Release(u)
  BY <1>1, <1>5 DEF Release
<1> QED BY <1>2, <1>3, <1>4, <1>5, ThreadChanges

LEMMA ThreadWork ==
  ASSUME TypeInv, NEW u \in User, ThreadStep(u)
  PROVE  WorkTypes' /\ current' \in Lot \cup {None}
<1>1. transfer \in [Lot -> Work] /\ current \in Lot \cup {None} /\ WorkTypes
  BY DEF TypeInv, WorkTypes, StoreTypes
<1>2. CASE UNCHANGED <<current, transfer>>
  BY <1>1, <1>2 DEF WorkTypes
<1>3. ASSUME NEW l \in Lot, BeginTransfer(u, l) PROVE WorkTypes' /\ current' \in Lot \cup {None}
  <2>1. result[u] \in Found
    BY <1>3 DEF TypeInv, Knows, HasResult, BeginTransfer
  <2> DEFINE w == [at |-> "sink", time |-> result[u].time, lots |-> result[u].lots, keys |-> <<>>]
  <2>2. w \in Work /\ w.at = "sink" /\ w.time \in Snap
    <3>1. <<>> \in Seq(Snap \cup {None})
      OBVIOUS
    <3> QED BY <2>1, <3>1 DEF Found, Work, Stage
  <2>3. transfer' = [transfer EXCEPT ![l] = w] /\ current' = l
    BY <1>3 DEF BeginTransfer
  <2> HIDE DEF w
  <2> QED BY <1>1, <2>2, <2>3 DEF WorkTypes
<1> QED BY <1>2, <1>3, ThreadChanges

LEMMA ThreadKnows ==
  ASSUME TypeInv, NEW u \in User, Moves(u), NEW v \in User
  PROVE  Knows(v)'
<1>1. CASE v = u
  BY <1>1 DEF Moves
<1>2. CASE v # u
  BY <1>2 DEF Moves, Alone, TypeInv, Knows
<1> QED BY <1>1, <1>2

LEMMA ThreadTyped ==
  ASSUME TypeInv, LockInv, DOMAIN owed = User, NEW u \in User, ThreadStep(u)
  PROVE  TypeInv'
<1>1. Moves(u) /\ \A v \in User : Knows(v)'
  BY ThreadMoves, ThreadKnows
<1>2. StoreTypes'
  <2>1. UNCHANGED <<updates, sink>>
    BY ThreadChanges
  <2>2. Updated' = Updated
    BY <2>1 DEF Updated
  <2> QED BY <2>1, <2>2, ThreadCache, ThreadLocks, ThreadWork DEF TypeInv, StoreTypes
<1> QED BY <1>1, <1>2, ThreadTable, ThreadWork DEF TypeInv, Moves

-----------------------------------------------------------------------------
(* What a thread's step does to the locks: nothing, and the thread goes on  *)
(* with what it had; it gives its lock up; it fetches one to wait for; or   *)
(* it takes it.                                                             *)
Quiet(u) ==
  /\ UNCHANGED <<held, lock>> /\ (pc[u] \in WithTheLock <=> pc'[u] \in WithTheLock)
  /\ pc'[u] \in Locked => pc[u] \in Locked
Lets(u) == Release(u) /\ pc[u] \in WithTheLock /\ pc'[u] \notin Locked
Fetches(u) ==
  /\ pc[u] = "fetch" /\ pc'[u] = "wait" /\ UNCHANGED held
  /\ \E k \in Lock : lock' = [lock EXCEPT ![u] = k]

LEMMA LockSteps ==
  ASSUME TypeInv, LockInv, DOMAIN owed = User, NEW u \in User, ThreadStep(u)
  PROVE  Quiet(u) \/ Lets(u) \/ Fetches(u) \/ Acquire(u)
<1> USE DEF lockVars, Go, Raise, Return, Got, WithTheLock, Locked
<1>1. pc \in [User -> Place]
  BY DEF TypeInv, ThreadTypes
<1>2. ASSUME LookUp(u) \/ UseSnapshot(u) \/ \E t \in Request : Ask(u, t) PROVE Quiet(u)
  BY <1>1, <1>2 DEF LookUp, UseSnapshot, Ask, TakeUpdate, LookInCache, TakeCached, LookForUpdate, Match,
                    Done, NoLotLeft, CheckTransfer, BeginTransfer, Quiet
<1>3. ASSUME LookForLock(u) \/ CountLocks(u) \/ ListLocks(u) \/ DropLock(u) \/ InsertLock(u) PROVE Quiet(u)
  BY <1>1, <1>3 DEF LookForLock, CountLocks, ListLocks, DropLock, InsertLock, Quiet
<1>4. CASE FetchLock(u)
  <2>1. CASE LocksFor(request[u]) = {}
    BY <1>1, <1>4, <2>1 DEF FetchLock, Quiet
  <2>2. CASE LocksFor(request[u]) # {}
    <3> DEFINE k == CHOOSE l \in LocksFor(request[u]) : TRUE
    <3>1. k \in Lock
      <4>1. \A i \in 1..Len(table) : table[i] \in Lock
        BY DEF TypeInv, TableTypes
      <4> QED BY <2>2, <4>1 DEF LocksFor, Locks
    <3>2. lock' = [lock EXCEPT ![u] = k]
      BY <1>4, <2>2 DEF FetchLock
    <3> HIDE DEF k
    <3> QED BY <1>1, <1>4, <2>2, <3>1, <3>2 DEF FetchLock, Fetches
  <2> QED BY <2>1, <2>2
<1>5. ASSUME LookAgain(u) \/ LoadSnapshot(u) \/ CountCache(u) \/ ReturnLoaded(u) PROVE Quiet(u)
  BY <1>1, <1>5 DEF LookAgain, LoadSnapshot, CountCache, ReturnLoaded, Quiet
<1>6. ASSUME TakeMeanwhile(u) \/ LoadFails(u) \/ Insert(u) PROVE Lets(u)
  BY <1>1, <1>6 DEF TakeMeanwhile, LoadFails, Insert, Lets
<1>7. ASSUME CheckInserted(u) \/ FindOldest(u) \/ Evict(u) PROVE Quiet(u) \/ Lets(u)
  BY <1>1, <1>7 DEF CheckInserted, FindOldest, Evict, Quiet, Lets
<1> QED BY <1>2, <1>3, <1>4, <1>5, <1>6, <1>7 DEF ThreadStep, GetSnapshot, GetLock, WithLock

LEMMA ThreadLockInv ==
  ASSUME TypeInv, LockInv, DOMAIN owed = User, NEW u \in User, ThreadStep(u)
  PROVE  LockInv'
<1>1. lock \in [User -> Lock \cup {None}] /\ \A v \in User \ {u} : pc'[v] = pc[v]
  BY ThreadMoves DEF Moves, Alone, TypeInv, StoreTypes
<1>2. held = {lock[v] : v \in {w \in User : pc[w] \in WithTheLock}} /\ WithTheLock \subseteq Locked
  BY DEF LockInv, NoLockIsLost, Locked
<1>3. CASE Quiet(u)
  <2>1. \A v \in User : /\ pc'[v] \in WithTheLock <=> pc[v] \in WithTheLock
                        /\ pc'[v] \in Locked => pc[v] \in Locked
    BY <1>1, <1>3 DEF Quiet
  <2>2. UNCHANGED <<held, lock>>
    BY <1>3 DEF Quiet
  <2>3. NoLockIsLost'
    BY <1>2, <2>1, <2>2 DEF NoLockIsLost
  <2> QED BY <2>1, <2>2, <2>3 DEF LockInv
<1>4. CASE Lets(u)
  <2>1. pc'[u] \notin Locked /\ pc[u] \in WithTheLock /\ \A v \in User \ {u} : lock'[v] = lock[v]
    BY <1>1, <1>4 DEF Lets, Release
  <2>2. held' = held \ {lock[u]} /\ \A v \in User \ {u} : pc[v] \in WithTheLock => lock[v] # lock[u]
    BY <1>4, <2>1 DEF Lets, Release, LockInv
  <2>3. \A v \in User : pc'[v] \in Locked => v # u
    BY <2>1
  <2>4. held' = {lock'[v] : v \in {w \in User : pc'[w] \in WithTheLock}}
    <3>1. ASSUME NEW k \in held' PROVE \E v \in User : pc'[v] \in WithTheLock /\ k = lock'[v]
      BY <1>1, <1>2, <2>1, <2>2, <3>1
    <3>2. ASSUME NEW v \in User, pc'[v] \in WithTheLock PROVE lock'[v] \in held'
      BY <1>1, <1>2, <2>1, <2>2, <2>3, <3>2
    <3> QED BY <3>1, <3>2
  <2> QED BY <1>1, <1>2, <2>1, <2>3, <2>4 DEF LockInv, NoLockIsLost
<1>5. CASE Fetches(u)
  <2>1. PICK k \in Lock : lock' = [lock EXCEPT ![u] = k]
    BY <1>5 DEF Fetches
  <2>2. lock'[u] = k /\ \A v \in User \ {u} : lock'[v] = lock[v]
    BY <1>1, <2>1
  <2>3. /\ pc[u] \notin WithTheLock /\ pc'[u] \notin WithTheLock /\ UNCHANGED held
    BY <1>5 DEF Fetches, WithTheLock
  <2>4. \A v \in User : pc'[v] \in WithTheLock \/ pc[v] \in WithTheLock =>
                           v # u /\ pc'[v] = pc[v] /\ lock'[v] = lock[v]
    BY <1>1, <2>2, <2>3
  <2>5. held' = {lock'[v] : v \in {w \in User : pc'[w] \in WithTheLock}}
    BY <1>2, <2>3, <2>4
  <2> QED BY <1>1, <2>2, <2>4, <2>5 DEF LockInv, NoLockIsLost
<1>6. CASE Acquire(u)
  <2>1. /\ pc[u] = "wait" /\ lock[u] \notin held /\ pc' = [pc EXCEPT ![u] = "inside"]
        /\ held' = held \cup {lock[u]} /\ UNCHANGED lock
    BY <1>6 DEF Acquire, Available, Go
  <2>2. pc'[u] = "inside" /\ pc[u] \in Locked
    BY <2>1 DEF TypeInv, ThreadTypes, Locked
  <2>3. \A v \in User : pc'[v] \in WithTheLock <=> v = u \/ pc[v] \in WithTheLock
    BY <1>1, <2>2 DEF WithTheLock
  <2>4. held' = {lock'[v] : v \in {w \in User : pc'[w] \in WithTheLock}}
    BY <1>2, <2>1, <2>3
  <2>5. \A v \in User : pc[v] \in WithTheLock => lock[v] # lock[u]
    BY <1>2, <2>1
  <2>6. \A v, w \in User : v # w /\ pc'[v] \in WithTheLock /\ pc'[w] \in WithTheLock => lock'[v] # lock'[w]
    BY <2>1, <2>3, <2>5 DEF LockInv
  <2> QED BY <1>1, <2>1, <2>2, <2>4, <2>6 DEF LockInv, NoLockIsLost
<1> QED BY <1>3, <1>4, <1>5, <1>6, LockSteps

-----------------------------------------------------------------------------
LEMMA RoomTypes ==
  ASSUME TypeInv
  PROVE  /\ IsFiniteSet(InRoom) /\ Cardinality(InRoom) \in Nat /\ Cardinality(InRoom) <= Cardinality(User)
         /\ IsFiniteSet(Creating) /\ Cardinality(Creating) \in Nat /\ Cardinality(Creating) <= Cardinality(User)
         /\ IsFiniteSet(Setting) /\ Cardinality(Setting) \in Nat /\ Cardinality(Setting) <= Cardinality(Lot)
         /\ Cardinality(cache) \in Nat /\ Cardinality(Updated) \in Nat /\ Len(table) \in Nat
         /\ IsFiniteSet(cache) /\ IsFiniteSet(Updated)
<1>1. InRoom \in SUBSET User /\ Creating \in SUBSET User /\ Setting \in SUBSET Lot
  BY DEF InRoom, Creating, Setting
<1>2. IsFiniteSet(cache) /\ IsFiniteSet(Updated) /\ Len(table) \in Nat
  BY DEF TypeInv, StoreTypes, TableTypes
<1> QED BY <1>1, <1>2, Counts, FS_Subset, FS_CardinalityType

LEMMA RoomAfter ==
  /\ Cardinality(InRoom') \in Nat /\ Cardinality(InRoom') <= Cardinality(User)
  /\ Cardinality(Creating') \in Nat /\ Cardinality(Creating') <= Cardinality(User)
  /\ Cardinality(Setting') \in Nat /\ Cardinality(Setting') <= Cardinality(Lot)
<1>1. InRoom' \in SUBSET User /\ Creating' \in SUBSET User /\ Setting' \in SUBSET Lot
  BY DEF InRoom, Creating, Setting
<1> QED BY <1>1, Counts, FS_Subset, FS_CardinalityType

LEMMA OneForOne ==
  ASSUME NEW a \in Nat, NEW b \in Nat, NEW c \in Nat, NEW d \in Nat, NEW m \in Nat, NEW n \in Nat,
         (c <= a + 1 /\ d = b - 1) \/ (c = a - 1 /\ d <= b + 1) \/ (c <= a /\ d <= b)
  PROVE  (a + b < m + n => c + d < m + n) /\ (a + b <= m + n => c + d <= m + n)
OBVIOUS

(* How many threads have found room, and how much is left of it.            *)
LEMMA CacheRoom ==
  ASSUME TypeInv, TypeInv', RoomInv, NEW u \in User, ThreadStep(u), Moves(u)
  PROVE  Cardinality(cache') + Cardinality(InRoom') < MaxCaches + Cardinality(User)
<1>0. pc \in [User -> Place] /\ IsFiniteSet(cache) /\ \A v \in User \ {u} : pc'[v] = pc[v]
  BY DEF TypeInv, StoreTypes, ThreadTypes, Moves, Alone
<1>1. CASE CountCache(u) /\ ~Full
  <2>1. cache' = cache /\ Cardinality(cache) < MaxCaches
    BY <1>1, RoomTypes, Counts DEF CountCache, Full
  <2> QED BY <2>1, RoomTypes, RoomAfter, Counts
<1>2. CASE Insert(u)
  <2>1. /\ cache' = cache \cup {request[u]} /\ u \in InRoom /\ pc'[u] = "after"
    BY <1>0, <1>2 DEF Insert, InRoom, Go
  <2>2. InRoom' = InRoom \ {u}
    BY <1>0, <2>1 DEF InRoom
  <2>3. Cardinality(cache') <= Cardinality(cache) + 1 /\ Cardinality(cache') \in Nat
    BY <1>0, <2>1, OneMoreLemma
  <2>4. Cardinality(InRoom') = Cardinality(InRoom) - 1
    BY <2>1, <2>2, RoomTypes, OneLessLemma
  <2>5. Cardinality(cache) + Cardinality(InRoom) < MaxCaches + Cardinality(User)
    BY DEF RoomInv
  <2>6. /\ Cardinality(cache) \in Nat /\ Cardinality(InRoom) \in Nat /\ Cardinality(User) \in Nat /\ MaxCaches \in Nat
        /\ Cardinality(InRoom') \in Nat
    BY RoomTypes, RoomAfter, Counts
  <2> QED BY <2>3, <2>4, <2>5, <2>6, OneForOne
<1>3. CASE ~Insert(u) /\ ~(CountCache(u) /\ ~Full)
  <2>1. cache' \in SUBSET cache
    BY <1>3, ThreadChanges DEF Evict
  <2>2. pc'[u] # "room"
    BY <1>0, <1>3 DEF Go, Raise, Return, Got, Place, ThreadStep, GetSnapshot, LookUp, GetLock, WithLock, UseSnapshot,
       Ask, TakeUpdate, LookInCache, TakeCached, LookForUpdate, Match,
       LookForLock, CountLocks, ListLocks, DropLock, InsertLock, FetchLock, Acquire,
       LookAgain, TakeMeanwhile, LoadSnapshot, LoadFails, CheckInserted, CountCache, FindOldest, Evict, ReturnLoaded,
       Done, CheckTransfer, BeginTransfer
  <2>3. InRoom' \in SUBSET InRoom
    BY <1>0, <2>2 DEF InRoom
  <2>4. Cardinality(cache') <= Cardinality(cache) /\ Cardinality(InRoom') <= Cardinality(InRoom)
    BY <2>1, <2>3, RoomTypes, FS_Subset
  <2>5. Cardinality(cache') \in Nat /\ Cardinality(InRoom') \in Nat
    BY <2>1, <2>3, RoomTypes, FS_Subset, FS_CardinalityType
  <2> QED BY <2>4, <2>5, RoomTypes, Counts DEF RoomInv
<1> QED BY <1>1, <1>2, <1>3

LEMMA TableRoom ==
  ASSUME TypeInv, TypeInv', LockInv, RoomInv, NEW u \in User, ThreadStep(u), Moves(u)
  PROVE  Len(table') + Cardinality(Creating') <= MaxLocks + Cardinality(User)
<1>0. pc \in [User -> Place] /\ TableTypes /\ \A v \in User \ {u} : pc'[v] = pc[v]
  BY DEF TypeInv, ThreadTypes, Moves, Alone
<1>1. CASE CountLocks(u) /\ ~TooManyLocks
  <2>1. table' = table /\ Len(table) <= MaxLocks
    BY <1>1, RoomTypes, Counts DEF CountLocks, TooManyLocks, lockVars
  <2> QED BY <2>1, RoomTypes, RoomAfter, Counts
<1>2. CASE ListLocks(u) /\ table = <<>>
  <2>1. table' = table /\ Len(table) = 0
    BY <1>2 DEF ListLocks, lockVars
  <2> QED BY <2>1, RoomTypes, RoomAfter, Counts
<1>3. CASE DropLock(u)
  <2>1. CASE UNCHANGED table /\ Raise(u)
    <3>1. pc'[u] # "create"
      BY <1>0, <2>1 DEF Raise
    <3>2. Creating' \in SUBSET Creating
      BY <1>0, <3>1 DEF Creating
    <3>3. Cardinality(Creating') <= Cardinality(Creating) /\ Cardinality(Creating') \in Nat
      BY <3>2, RoomTypes, FS_Subset, FS_CardinalityType
    <3> QED BY <2>1, <3>3, RoomTypes, Counts DEF RoomInv
  <2>2. CASE HasLock(Head(keys[u])) /\ table' = Without(Head(keys[u]))
    <3>1. Len(table') = Len(table) - 1
      BY <1>0, <2>2, WithoutLemma
    <3>2. Creating' \in SUBSET (Creating \cup {u})
      BY <1>0 DEF Creating
    <3>3. Cardinality(Creating') <= Cardinality(Creating \cup {u})
      BY <3>2, RoomTypes, OneMoreLemma, FS_Subset
    <3>4. Cardinality(Creating \cup {u}) <= Cardinality(Creating) + 1 /\ Cardinality(Creating \cup {u}) \in Nat
      BY RoomTypes, OneMoreLemma
    <3>5. Cardinality(Creating') <= Cardinality(Creating) + 1
      BY <3>3, <3>4, RoomTypes, RoomAfter
    <3>6. Len(table') \in Nat
      BY DEF TypeInv, TableTypes
    <3> QED BY <3>1, <3>5, <3>6, RoomTypes, RoomAfter, Counts, OneForOne DEF RoomInv
  <2> QED BY <1>3, <2>1, <2>2, DropLocks
<1>4. CASE InsertLock(u)
  <2> DEFINE k == NewLock(request[u])
  <2>1. request[u] \in Time
    BY <1>4 DEF TypeInv, Knows, InsertLock
  <2>2. k \in Lock /\ table' = Inserted(k)
    BY <1>0, <1>4, <2>1, NewLockLemma DEF LockInv, InsertLock
  <2> HIDE DEF k
  <2>3. Len(table') <= Len(table) + 1
    BY <1>0, <2>2, InsertedLemma
  <2>4. u \in Creating /\ pc'[u] = "fetch"
    BY <1>0, <1>4 DEF InsertLock, Go, Creating
  <2>5. Creating' = Creating \ {u}
    BY <1>0, <2>4 DEF Creating
  <2>6. Cardinality(Creating') = Cardinality(Creating) - 1
    BY <2>4, <2>5, RoomTypes, OneLessLemma
  <2>7. Len(table') \in Nat
    BY DEF TypeInv, TableTypes
  <2>8. Len(table) + Cardinality(Creating) <= MaxLocks + Cardinality(User)
    BY DEF RoomInv
  <2>9. /\ Len(table) \in Nat /\ Cardinality(Creating) \in Nat /\ Cardinality(User) \in Nat /\ MaxLocks \in Nat
        /\ Cardinality(Creating') \in Nat
    BY RoomTypes, RoomAfter, Counts
  <2> QED BY <2>3, <2>6, <2>7, <2>8, <2>9, OneForOne
<1>5. CASE ~(CountLocks(u) /\ ~TooManyLocks) /\ ~(ListLocks(u) /\ table = <<>>) /\ ~DropLock(u) /\ ~InsertLock(u)
  <2>1. table' = table
    BY <1>5, ThreadChanges
  <2>2. pc'[u] # "create"
    BY <1>0, <1>5 DEF Go, Raise, Return, Got, Place, ThreadStep, GetSnapshot, LookUp, GetLock, WithLock, UseSnapshot,
       Ask, TakeUpdate, LookInCache, TakeCached, LookForUpdate, Match,
       LookForLock, CountLocks, ListLocks, FetchLock, Acquire,
       LookAgain, TakeMeanwhile, LoadSnapshot, LoadFails, CheckInserted, CountCache, FindOldest, Evict, Insert, ReturnLoaded,
       Done, CheckTransfer, BeginTransfer
  <2>3. Creating' \in SUBSET Creating
    BY <1>0, <2>2 DEF Creating
  <2>4. Cardinality(Creating') <= Cardinality(Creating) /\ Cardinality(Creating') \in Nat
    BY <2>3, RoomTypes, FS_Subset, FS_CardinalityType
  <2> QED BY <2>1, <2>4, RoomTypes, Counts DEF RoomInv
<1> QED BY <1>1, <1>2, <1>3, <1>4, <1>5

LEMMA ThreadRoomInv ==
  ASSUME TypeInv, TypeInv', LockInv, RoomInv, NEW u \in User, ThreadStep(u), Moves(u)
  PROVE  RoomInv'
<1>1. Updated' = Updated
  BY ThreadChanges DEF Updated
<1>2. Setting' \in SUBSET Setting
  <2>1. CASE UNCHANGED transfer
    BY <2>1 DEF Setting
  <2>2. ASSUME NEW l \in Lot, BeginTransfer(u, l) PROVE Setting' \in SUBSET Setting
    <3>1. transfer \in [Lot -> Work]
      BY DEF TypeInv, WorkTypes
    <3>2. transfer'[l].at = "sink" /\ \A k \in Lot \ {l} : transfer'[k] = transfer[k]
      BY <2>2, <3>1 DEF BeginTransfer
    <3> QED BY <3>2 DEF Setting
  <2> QED BY <2>1, <2>2, ThreadChanges
<1>3. Cardinality(Setting') <= Cardinality(Setting) /\ Cardinality(Setting') \in Nat
  BY <1>2, RoomTypes, FS_Subset, FS_CardinalityType
<1> QED BY <1>1, <1>3, CacheRoom, TableRoom, RoomTypes, Counts DEF RoomInv

-----------------------------------------------------------------------------
(* Only a step that drops something, or ends a thread's request, changes    *)
(* what is observed of the threads.                                         *)
Ended == {"idle", "got", "free"}

LEMMA ThreadCrossed ==
  ASSUME CrossInv, NEW u \in User, ThreadStep(u)
  PROVE  \/ UNCHANGED crossed
         \/ Crosses(User \ {u}) /\ (DropLock(u) \/ Evict(u))
         \/ crossed' = [crossed EXCEPT ![u] = FALSE]
<1> USE DEF observed, Got, Return
<1>1. ASSUME LookUp(u) \/ \E t \in Request : Ask(u, t)
      PROVE  UNCHANGED crossed \/ crossed' = [crossed EXCEPT ![u] = FALSE]
  BY <1>1 DEF LookUp, Ask, TakeUpdate, LookInCache, TakeCached
<1>2. ASSUME GetLock(u)
      PROVE  UNCHANGED crossed \/ (DropLock(u) /\ Crosses(User \ {u}))
  BY <1>2 DEF GetLock, LookForLock, CountLocks, ListLocks, DropLock, InsertLock, FetchLock, Acquire
<1>3. ASSUME WithLock(u)
      PROVE  \/ UNCHANGED crossed \/ crossed' = [crossed EXCEPT ![u] = FALSE]
             \/ Evict(u) /\ Crosses(User \ {u})
  BY <1>3 DEF WithLock, LookAgain, TakeMeanwhile, LoadSnapshot, LoadFails, CheckInserted, CountCache,
              FindOldest, Evict, Insert, ReturnLoaded
<1>4. ASSUME UseSnapshot(u)
      PROVE  UNCHANGED crossed \/ crossed' = [crossed EXCEPT ![u] = FALSE]
  BY <1>4 DEF UseSnapshot, Done, CheckTransfer, BeginTransfer
<1> QED BY <1>1, <1>2, <1>3, <1>4 DEF ThreadStep, GetSnapshot

LEMMA OthersSure ==
  ASSUME TypeInv, LockInv, CrossInv, NEW u \in User, ThreadStep(u), Moves(u), NEW v \in User \ {u}
  PROVE  crossed'[v] \/ Sure(v)'
<1>1. pc'[v] = pc[v] /\ request'[v] = request[v] /\ keys'[v] = keys[v]
  BY DEF Moves, Alone
<1>2. CASE pc[v] \in Ended
  BY <1>1, <1>2 DEF Sure, Ended
<1>3. CASE Crosses(User \ {u}) /\ pc[v] \notin Ended
  BY <1>3 DEF Crosses, Ended
<1>4. CASE ~Crosses(User \ {u})
  <2>1. crossed'[v] = crossed[v]
    BY <1>4, ThreadCrossed DEF CrossInv
  <2>2. cache \subseteq cache' /\ Updated' = Updated
    <3>1. CASE ~Evict(u)
      BY <3>1, ThreadCache, ThreadChanges DEF Updated
    <3>2. CASE Evict(u)
      BY <1>4, <3>2 DEF Evict, Updated
    <3> QED BY <3>1, <3>2
  <2>3. \A t : HasLock(t) => HasLock(t)'
    <3>1. CASE ~DropLock(u)
      BY <3>1, ThreadTable
    <3>2. CASE DropLock(u)
      BY <1>4, <3>2, DropLocks DEF HasLock
    <3> QED BY <3>1, <3>2
  <2>4. crossed[v] \/ Sure(v)
    BY DEF CrossInv
  <2>5. ASSUME Sure(v) PROVE Sure(v)'
    <3> DEFINE HasStill(t) == \E i \in 1..Len(table') : table'[i][1] = t
    <3>0. \A t : HasLock(t) => HasStill(t)
      BY <2>3 DEF HasLock
    <3> HIDE DEF HasStill
    <3>1. pc[v] = "drop" => \A i \in 1..Len(keys[v]) : HasStill(keys[v][i])
      BY <2>5, <3>0 DEF Sure
    <3>2. pc[v] = "fetch" => HasStill(request[v])
      BY <2>5, <3>0 DEF Sure
    <3>3. /\ pc[v] = "update" => request[v] \in Updated'
          /\ pc[v] \in {"cached", "meanwhile"} => request[v] \in cache'
          /\ pc[v] = "oldest" => cache' # {}
          /\ pc[v] = "evict" => Head(keys[v]) \in cache'
          /\ pc[v] # "raised"
          /\ pc[v] = "drop" => \A i, j \in 1..Len(keys[v]) : keys[v][i] = keys[v][j] => i = j
      BY <2>2, <2>5 DEF Sure
    <3> QED BY <1>1, <3>1, <3>2, <3>3 DEF Sure, HasLock, HasStill
  <2> QED BY <2>1, <2>4, <2>5
<1> QED BY <1>2, <1>3, <1>4

(* Where a thread relies on nothing.                                        *)
LEMMA SureAnywhere ==
  ASSUME NEW u \in User,
         pc'[u] \notin {"update", "cached", "meanwhile", "fetch", "drop", "oldest", "evict", "raised"}
  PROVE  Sure(u)'
BY DEF Sure

LEMMA LookUpSure ==
  ASSUME TypeInv, CrossInv, NEW u \in User, LookUp(u) \/ \E t \in Request : Ask(u, t)
  PROVE  crossed'[u] \/ Sure(u)'
<1>1. pc \in [User -> Place] /\ request \in [User -> Time \cup {None}] /\ (crossed[u] \/ Sure(u))
  BY DEF TypeInv, ThreadTypes, CrossInv
<1>2. ASSUME NEW t \in Request, Ask(u, t) PROVE Sure(u)'
  BY <1>1, <1>2 DEF Ask, LookForUpdate, Sure, Updated
<1>3. CASE TakeUpdate(u)
  BY <1>1, <1>3 DEF TakeUpdate, Got, Raise, observed, Sure
<1>4. CASE TakeCached(u)
  BY <1>1, <1>4 DEF TakeCached, Got, Raise, observed, Sure
<1>5. CASE LookInCache(u)
  BY <1>1, <1>5 DEF LookInCache, Match, LookForUpdate, Go, Sure, Updated
<1> QED BY <1>2, <1>3, <1>4, <1>5 DEF LookUp

LEMMA GetLockSure ==
  ASSUME TypeInv, LockInv, CrossInv, NEW u \in User, GetLock(u)
  PROVE  crossed'[u] \/ Sure(u)'
<1>1. pc \in [User -> Place] /\ TableTypes /\ keys \in [User -> Seq(Time)] /\ (crossed[u] \/ Sure(u))
  BY DEF TypeInv, ThreadTypes, CrossInv
<1>2. CASE LookForLock(u)
  <2>1. CASE LocksFor(request[u]) # {}
    BY <1>1, <1>2, <2>1, LockOfTime DEF LookForLock, Go, Sure, lockVars, HasLock
  <2>2. CASE LocksFor(request[u]) = {}
    BY <1>1, <1>2, <2>2 DEF LookForLock, Go, Sure
  <2> QED BY <2>1, <2>2
<1>3. CASE CountLocks(u)
  BY <1>1, <1>3 DEF CountLocks, Go, Sure
<1>4. CASE ListLocks(u)
  <2>1. /\ pc'[u] \in {"create", "drop"} /\ keys'[u] = FirstTimes /\ UNCHANGED table
    BY <1>1, <1>4 DEF ListLocks, lockVars
  <2>2. /\ \A i \in 1..Len(FirstTimes) : HasLock(FirstTimes[i])
        /\ \A i, j \in 1..Len(FirstTimes) : FirstTimes[i] = FirstTimes[j] => i = j
    BY <1>1, FirstTimesLemma
  <2> HIDE DEF FirstTimes
  <2> QED BY <2>1, <2>2 DEF Sure, HasLock
<1>5. CASE DropLock(u)
  <2> SUFFICES ASSUME Sure(u) PROVE crossed'[u] \/ Sure(u)'
    BY <1>1, <1>5 DEF DropLock, Crosses
  <2>1. pc[u] = "drop" /\ keys[u] \in Seq(Time) /\ keys[u] # <<>>
    BY <1>1, <1>5 DEF DropLock, TypeInv, Knows
  <2>2. /\ 1 \in 1..Len(keys[u]) /\ Head(keys[u]) = keys[u][1]
        /\ \A i \in 1..Len(Tail(keys[u])) : i + 1 \in 1..Len(keys[u]) /\ Tail(keys[u])[i] = keys[u][i + 1]
    BY <2>1, TailLemma
  <2>3. /\ \A i \in 1..Len(keys[u]) : HasLock(keys[u][i])
        /\ \A i, j \in 1..Len(keys[u]) : keys[u][i] = keys[u][j] => i = j
    BY <2>1 DEF Sure
  <2>4. /\ HasLock(Head(keys[u])) /\ table' = Without(Head(keys[u]))
        /\ pc'[u] \in {"create", "drop"} /\ keys'[u] = Tail(keys[u])
    BY <1>5, <2>2, <2>3, DropLocks
  <2> DEFINE rest == Tail(keys[u])
  <2>5. \A i \in 1..Len(rest) : \E j \in 1..Len(table') : table'[j][1] = rest[i]
    <3> SUFFICES ASSUME NEW i \in 1..Len(rest) PROVE \E j \in 1..Len(table') : table'[j][1] = rest[i]
      OBVIOUS
    <3>1. i + 1 # 1
      OBVIOUS
    <3>2. rest[i] # Head(keys[u]) /\ HasLock(rest[i])
      BY <2>2, <2>3, <3>1
    <3> HIDE DEF rest
    <3> QED BY <1>1, <2>4, <3>2, WithoutLemma
  <2>6. \A i, j \in 1..Len(rest) : rest[i] = rest[j] => i = j
    <3> SUFFICES ASSUME NEW i \in 1..Len(rest), NEW j \in 1..Len(rest), rest[i] = rest[j] PROVE i = j
      OBVIOUS
    <3>1. i + 1 = j + 1
      BY <2>2, <2>3
    <3> QED BY <3>1
  <2> HIDE DEF rest
  <2>7. keys'[u] = rest
    BY <2>4 DEF rest
  <2> QED BY <2>4, <2>5, <2>6, <2>7 DEF Sure, HasLock
<1>6. CASE InsertLock(u)
  <2>1. HasLock(request[u])' /\ pc'[u] = "fetch"
    BY <1>1, <1>6, ThreadTable DEF ThreadStep, GetSnapshot, GetLock, InsertLock, Go
  <2> QED BY <2>1 DEF Sure, HasLock
<1>7. CASE FetchLock(u)
  BY <1>1, <1>7, LockOfTime DEF FetchLock, Go, Raise, observed, Sure
<1>8. CASE Acquire(u)
  BY <1>1, <1>8 DEF Acquire, Go, Sure
<1> QED BY <1>2, <1>3, <1>4, <1>5, <1>6, <1>7, <1>8 DEF GetLock

LEMMA WithLockSure ==
  ASSUME TypeInv, CrossInv, NEW u \in User, WithLock(u)
  PROVE  crossed'[u] \/ Sure(u)'
<1>1. pc \in [User -> Place] /\ keys \in [User -> Seq(Time)] /\ (crossed[u] \/ Sure(u))
  BY DEF TypeInv, ThreadTypes, CrossInv
<1>2. CASE LookAgain(u)
  BY <1>1, <1>2 DEF LookAgain, Go, Sure
<1>3. CASE TakeMeanwhile(u)
  BY <1>1, <1>3 DEF TakeMeanwhile, Got, Raise, observed, Sure
<1>4. CASE LoadSnapshot(u) \/ CheckInserted(u) \/ Insert(u)
  BY <1>1, <1>4 DEF LoadSnapshot, CheckInserted, Insert, Go, Sure
<1>5. CASE LoadFails(u)
  BY <1>1, <1>5 DEF LoadFails, Return, Sure
<1>6. CASE CountCache(u)
  <2>1. CASE Full
    <3>1. cache # {}
      BY <2>1, Counts, FS_EmptySet DEF Full
    <3> QED BY <1>1, <1>6, <2>1, <3>1 DEF CountCache, Go, Sure
  <2>2. CASE ~Full
    BY <1>1, <1>6, <2>2 DEF CountCache, Go, Sure
  <2> QED BY <2>1, <2>2
<1>7. CASE FindOldest(u)
  <2>1. CASE cache = {}
    BY <1>1, <1>7, <2>1 DEF FindOldest, Raise, observed, Sure
  <2>2. CASE cache # {}
    <3>1. OldestOf(cache) \in cache
      <4>1. PICK t \in cache : \A v \in cache : t <= v
        BY <2>2, SmallestLemma, Constants DEF TypeInv, StoreTypes
      <4> QED BY <4>1, Zenon DEF OldestOf
    <3> DEFINE k == <<OldestOf(cache)>>
    <3>2. pc' = [pc EXCEPT ![u] = "evict"] /\ keys' = [keys EXCEPT ![u] = k] /\ UNCHANGED cache
      BY <1>7, <2>2 DEF FindOldest
    <3>3. Head(k) \in cache
      BY <3>1
    <3> HIDE DEF k
    <3> QED BY <1>1, <3>2, <3>3 DEF Sure
  <2> QED BY <2>1, <2>2
<1>8. CASE Evict(u)
  <2>1. CASE Head(keys[u]) \notin cache
    BY <1>1, <1>8, <2>1 DEF Evict, Raise, Sure
  <2>2. CASE Head(keys[u]) \in cache
    BY <1>1, <1>8, <2>2 DEF Evict, Sure
  <2> QED BY <2>1, <2>2
<1>9. CASE ReturnLoaded(u)
  BY <1>1, <1>9 DEF ReturnLoaded, Newer, Go, Got, observed, Sure, Updated
<1> QED BY <1>2, <1>3, <1>4, <1>5, <1>6, <1>7, <1>8, <1>9 DEF WithLock

LEMMA ThreadCrossInv ==
  ASSUME TypeInv, LockInv, CrossInv, NEW u \in User, ThreadStep(u), Moves(u)
  PROVE  CrossInv'
<1>1. crossed' \in [User -> BOOLEAN]
  BY ThreadCrossed DEF CrossInv, Crosses
<1>2. ASSUME UseSnapshot(u) PROVE Sure(u)'
  <2>1. pc'[u] \in {"idle", "free"}
    BY <1>2 DEF UseSnapshot, Done, CheckTransfer, BeginTransfer, Return, Go, TypeInv, ThreadTypes
  <2> QED BY <2>1, SureAnywhere
<1>3. crossed'[u] \/ Sure(u)'
  BY <1>2, LookUpSure, GetLockSure, WithLockSure DEF ThreadStep, GetSnapshot
<1>4. \A v \in User : crossed'[v] \/ Sure(v)'
  <2> SUFFICES ASSUME NEW v \in User PROVE crossed'[v] \/ Sure(v)'
    OBVIOUS
  <2>1. CASE v = u
    BY <1>3, <2>1
  <2>2. CASE v # u
    BY <2>2, OthersSure
  <2> QED BY <2>1, <2>2
<1> QED BY <1>1, <1>4 DEF CrossInv

-----------------------------------------------------------------------------
(* What a thread is owed after its step, and what it has found.             *)
LEMMA ThreadOwed ==
  ASSUME TypeInv, ReadInv, NEW u \in User, ThreadStep(u)
  PROVE  \/ /\ UNCHANGED owed /\ (pc'[u] \in Unfound => pc[u] \in Unfound)
            /\ pc'[u] \in Unfound => request'[u] = request[u] \/ request'[u] \notin Updated
         \/ /\ owed' = [owed EXCEPT ![u] = updates]
            /\ pc'[u] \in Unfound => request'[u] \notin Updated
         \/ owed' = [owed EXCEPT ![u] = <<>>] /\ pc'[u] \notin Unfound
<1> USE DEF observed, Go, Got, Raise, Return, Unfound
<1>1. pc \in [User -> Place] /\ request \in [User -> Time \cup {None}] /\ DOMAIN owed = User
  BY DEF TypeInv, ThreadTypes, ReadInv
<1>2. ASSUME NEW t \in Request, Ask(u, t)
      PROVE  owed' = [owed EXCEPT ![u] = updates] /\ (pc'[u] \in Unfound => request'[u] \notin Updated)
  BY <1>1, <1>2 DEF Ask, LookForUpdate
<1> DEFINE Same == /\ UNCHANGED owed /\ (pc'[u] \in Unfound => pc[u] \in Unfound)
                   /\ pc'[u] \in Unfound => request'[u] = request[u] \/ request'[u] \notin Updated
           None0 == owed' = [owed EXCEPT ![u] = <<>>] /\ pc'[u] \notin Unfound
<1>3. ASSUME LookUp(u) PROVE Same
  BY <1>1, <1>3 DEF LookUp, TakeUpdate, LookInCache, TakeCached, LookForUpdate, Match
<1>4. ASSUME GetLock(u) PROVE Same
  BY <1>1, <1>4 DEF GetLock, LookForLock, CountLocks, ListLocks, DropLock, InsertLock, FetchLock, Acquire
<1>5. ASSUME LookAgain(u) \/ TakeMeanwhile(u) \/ LoadSnapshot(u) \/ CheckInserted(u) \/ CountCache(u) PROVE Same
  BY <1>1, <1>5 DEF LookAgain, TakeMeanwhile, LoadSnapshot, CheckInserted, CountCache
<1>6. ASSUME FindOldest(u) \/ Evict(u) \/ Insert(u) \/ ReturnLoaded(u) PROVE Same
  BY <1>1, <1>6 DEF FindOldest, Evict, Insert, ReturnLoaded
<1>7. ASSUME UseSnapshot(u) \/ LoadFails(u) PROVE None0
  BY <1>1, <1>7 DEF UseSnapshot, LoadFails, Done, CheckTransfer, BeginTransfer
<1> QED BY <1>2, <1>3, <1>4, <1>5, <1>6, <1>7 DEF ThreadStep, GetSnapshot, WithLock

(* What a thread finds is an updated snapshot, or one it is owed nothing of.*)
Finds(u, t, lots) ==
  /\ result'[u] = [time |-> t, lots |-> lots] /\ UNCHANGED owed
  /\ \/ t \in Updated /\ lots = updates[t]
     \/ lots = {} /\ t \notin DOMAIN owed[u]

LEMMA ThreadResult ==
  ASSUME TypeInv, ReadInv, NEW u \in User, ThreadStep(u)
  PROVE  \/ result'[u] = None /\ pc'[u] \notin HasResult
         \/ UNCHANGED <<result, owed>> /\ (pc'[u] \in HasResult => pc[u] \in HasResult)
         \/ result'[u] = result[u] /\ owed' = [owed EXCEPT ![u] = <<>>] /\ pc[u] \in HasResult
         \/ \E t \in Snap, lots \in SUBSET Lot : Finds(u, t, lots)
<1> USE DEF observed, HasResult
<1>1. /\ result \in [User -> Found \cup {None}] /\ DOMAIN owed = User /\ pc \in [User -> Place]
      /\ \A t \in Updated : t \in Snap /\ updates[t] \in SUBSET Lot
      /\ \A t \in cache : t \in Snap
      /\ {} \in SUBSET Lot
  BY DEF TypeInv, ThreadTypes, StoreTypes, ReadInv
<1>2. CASE TakeUpdate(u)
  <2>1. CASE request[u] \in Updated
    BY <1>1, <1>2, <2>1 DEF TakeUpdate, Got, Finds
  <2>2. CASE request[u] \notin Updated
    BY <1>1, <1>2, <2>2 DEF TakeUpdate, Raise
  <2> QED BY <2>1, <2>2
<1>3. CASE TakeCached(u) \/ TakeMeanwhile(u)
  <2>1. CASE request[u] \in cache
    <3>1. request[u] \notin DOMAIN owed[u]
      BY <1>3 DEF ReadInv, Unfound, TakeCached, TakeMeanwhile
    <3> QED BY <1>1, <1>3, <2>1, <3>1 DEF TakeCached, TakeMeanwhile, Got, Finds
  <2>2. CASE request[u] \notin cache
    BY <1>1, <1>3, <2>2 DEF TakeCached, TakeMeanwhile, Raise
  <2> QED BY <2>1, <2>2
<1>4. CASE ReturnLoaded(u)
  <2>1. CASE Newer(u)
    BY <1>1, <1>4, <2>1 DEF ReturnLoaded, Go
  <2>2. CASE ~Newer(u)
    <3>1. request[u] \notin DOMAIN owed[u] /\ request[u] \in Snap
      BY <1>4, <2>2 DEF ReadInv, Newer, ReturnLoaded, TypeInv, Knows, Loading
    <3> QED BY <1>1, <1>4, <2>2, <3>1 DEF ReturnLoaded, Got, Finds
  <2> QED BY <2>1, <2>2
<1>5. CASE LookInCache(u) \/ GetLock(u)
  BY <1>1, <1>5 DEF LookInCache, Match, LookForUpdate, Go, Raise, GetLock, LookForLock, CountLocks, ListLocks, DropLock, InsertLock,
              FetchLock, Acquire
<1>6. CASE LookAgain(u) \/ LoadSnapshot(u) \/ CheckInserted(u) \/ CountCache(u) \/ FindOldest(u) \/ Evict(u) \/ Insert(u)
  BY <1>1, <1>6 DEF LookAgain, LoadSnapshot, CheckInserted, CountCache, FindOldest, Evict, Insert, Go, Raise
<1>7. CASE LoadFails(u) \/ Done(u) \/ \E l \in Lot : BeginTransfer(u, l)
  BY <1>1, <1>7 DEF LoadFails, Done, BeginTransfer, Return
<1>8. CASE CheckTransfer(u)
  BY <1>1, <1>8 DEF CheckTransfer, Return, Go, HasResult
<1>9. ASSUME NEW t \in Request, Ask(u, t) PROVE result'[u] = None /\ pc'[u] \notin HasResult
  BY <1>1, <1>9 DEF Ask, LookForUpdate, TypeInv, Knows
<1> QED BY <1>2, <1>3, <1>4, <1>5, <1>6, <1>7, <1>8, <1>9 DEF ThreadStep, GetSnapshot, LookUp, WithLock, UseSnapshot

LEMMA ThreadReadInv ==
  ASSUME TypeInv, ReadInv, NEW u \in User, ThreadStep(u), Moves(u)
  PROVE  ReadInv'
<1>1. /\ DOMAIN owed = User /\ UNCHANGED updates
      /\ \A v \in User \ {u} : /\ pc'[v] = pc[v] /\ request'[v] = request[v]
                               /\ result'[v] = result[v] /\ owed'[v] = owed[v]
  BY ThreadChanges DEF ReadInv, Moves, Alone
<1>2. Updated' = Updated
  BY <1>1 DEF Updated
<1>3. DOMAIN owed' = User /\ (owed'[u] = owed[u] \/ owed'[u] = updates \/ owed'[u] = <<>>)
  BY <1>1, ThreadOwed
<1>4. \A t \in DOMAIN <<>> : FALSE
  OBVIOUS
<1>5. \A v \in User : \A t \in DOMAIN owed'[v] : t \in Updated /\ owed'[v][t] \subseteq updates[t]
  <2>1. \A t \in DOMAIN owed'[u] : t \in Updated /\ owed'[u][t] \subseteq updates[t]
    <3>1. CASE owed'[u] = owed[u]
      BY <3>1 DEF ReadInv
    <3>2. CASE owed'[u] = updates
      BY <3>2 DEF Updated
    <3>3. CASE owed'[u] = <<>>
      BY <1>4, <3>3
    <3> QED BY <1>3, <3>1, <3>2, <3>3
  <2> QED BY <1>1, <2>1 DEF ReadInv
<1>6. pc'[u] \in Unfound => request'[u] \notin DOMAIN owed'[u]
  <2>1. \A t \in DOMAIN owed[u] : t \in Updated
    BY DEF ReadInv
  <2>2. CASE UNCHANGED owed
    BY <1>1, <2>1, <2>2, ThreadOwed DEF ReadInv, Updated
  <2>3. CASE owed' = [owed EXCEPT ![u] = updates]
    BY <1>1, <2>1, <2>3, ThreadOwed DEF ReadInv, Updated
  <2>4. CASE owed' = [owed EXCEPT ![u] = <<>>]
    BY <1>1, <1>4, <2>4
  <2> QED BY <2>2, <2>3, <2>4, ThreadOwed
<1>7. result'[u] # None =>
        \A t : t = result'[u].time /\ t \in DOMAIN owed'[u] => owed'[u][t] \subseteq result'[u].lots
  <2>1. CASE UNCHANGED <<result, owed>>
    BY <2>1 DEF ReadInv, ReadsSeeTransfers
  <2>2. CASE owed' = [owed EXCEPT ![u] = <<>>]
    BY <1>1, <1>4, <2>2
  <2>3. ASSUME NEW t \in Snap, NEW lots \in SUBSET Lot, Finds(u, t, lots)
        PROVE  t \in DOMAIN owed'[u] => owed'[u][t] \subseteq lots
    BY <2>3 DEF Finds, ReadInv
  <2>4. ASSUME NEW t \in Snap, NEW lots \in SUBSET Lot, Finds(u, t, lots)
        PROVE  result'[u].time = t /\ result'[u].lots = lots
    BY <2>4 DEF Finds
  <2> QED BY <2>1, <2>2, <2>3, <2>4, ThreadResult
<1>8. ReadsSeeTransfers'
  <2> SUFFICES ASSUME NEW v \in User, result'[v] # None, result'[v].time \in DOMAIN owed'[v]
               PROVE  owed'[v][result'[v].time] \subseteq result'[v].lots
    BY DEF ReadsSeeTransfers
  <2>1. CASE v = u
    BY <1>7, <2>1
  <2>2. CASE v # u
    BY <1>1, <2>2 DEF ReadInv, ReadsSeeTransfers
  <2> QED BY <2>1, <2>2
<1>9. \A v \in User : pc'[v] \in Unfound => request'[v] \notin DOMAIN owed'[v]
  BY <1>1, <1>6 DEF ReadInv
<1> QED BY <1>1, <1>2, <1>3, <1>5, <1>8, <1>9 DEF ReadInv

LEMMA ThreadSinkInv ==
  ASSUME TypeInv, ReadInv, SinkInv, NEW u \in User, ThreadStep(u), Moves(u)
  PROVE  SinkInv'
<1>1. UNCHANGED <<updates, sink>> /\ TransferredIsSunk'
  <2>1. UNCHANGED <<updates, sink>>
    BY ThreadChanges
  <2> QED BY <2>1 DEF SinkInv, TransferredIsSunk, Updated
<1>2. \A v \in User : pc'[v] \in HasResult => result'[v].lots \subseteq sink
  <2>3. ASSUME NEW t \in Snap, NEW lots \in SUBSET Lot, Finds(u, t, lots)
        PROVE  result'[u].lots \subseteq sink
    BY <2>3 DEF Finds, SinkInv, TransferredIsSunk
  <2>4. pc'[u] \in HasResult => result'[u].lots \subseteq sink
    BY <2>3, ThreadResult DEF SinkInv
  <2>5. \A v \in User \ {u} : pc'[v] = pc[v] /\ result'[v] = result[v]
    BY DEF Moves, Alone
  <2> QED BY <2>4, <2>5 DEF SinkInv
<1>3. \A l \in Lot : /\ transfer'[l].lots \subseteq sink
                     /\ transfer'[l].at \in {"list", "drop", "set"} => l \in sink
  <2>1. CASE UNCHANGED transfer
    BY <2>1 DEF SinkInv
  <2>2. ASSUME NEW l \in Lot, BeginTransfer(u, l), NEW k \in Lot
        PROVE  /\ transfer'[k].lots \subseteq sink
               /\ transfer'[k].at \in {"list", "drop", "set"} => k \in sink
    <3>1. transfer \in [Lot -> Work] /\ pc[u] \in HasResult
      BY <2>2 DEF TypeInv, WorkTypes, BeginTransfer, HasResult
    <3>2. transfer'[l].lots = result[u].lots /\ transfer'[l].at = "sink" /\ (k # l => transfer'[k] = transfer[k])
      BY <2>2, <3>1 DEF BeginTransfer
    <3> QED BY <3>1, <3>2 DEF SinkInv
  <2> QED BY <2>1, <2>2, ThreadChanges
<1> QED BY <1>1, <1>2, <1>3 DEF SinkInv

-----------------------------------------------------------------------------
(* The steps of a transfer.                                                 *)
Drops(l) ==
  LET t == Head(transfer[l].keys)
  IN /\ t \in Updated /\ updates' = [v \in Updated \ {t} |-> updates[v]]
     /\ owed' = [u \in User |-> [v \in DOMAIN owed[u] \ {t} |-> owed[u][v]]] /\ Crosses(User)

LEMMA TransferChanges ==
  ASSUME NEW l \in Lot, Transfer(l)
  PROVE  /\ UNCHANGED <<cache, table, held, pc, request, exact, lock, keys, result, current>>
         /\ UNCHANGED sink \/ sink' = sink \cup {l}
         /\ UNCHANGED <<updates, owed, crossed>> \/ (DropUpdate(l) /\ Drops(l)) \/ SetUpdate(l)
<1> USE DEF lockVars, threadVars, observed
<1>1. UNCHANGED <<cache, lockVars, threadVars, current>>
  BY DEF Transfer, WriteLot, WriteFails, ListUpdates, DropUpdate, SetUpdate
<1>2. UNCHANGED sink \/ sink' = sink \cup {l}
  BY DEF Transfer, WriteLot, WriteFails, ListUpdates, DropUpdate, SetUpdate
<1>3. CASE WriteLot(l) \/ WriteFails(l) \/ ListUpdates(l)
  <2>1. UNCHANGED <<updates, owed, crossed>>
    BY <1>3 DEF WriteLot, WriteFails, ListUpdates
  <2> QED BY <1>1, <1>2, <2>1
<1>4. CASE DropUpdate(l)
  <2>1. UNCHANGED <<updates, owed, crossed>> \/ Drops(l)
    BY <1>4 DEF DropUpdate, Drops
  <2> QED BY <1>1, <1>2, <1>4, <2>1
<1>5. CASE SetUpdate(l)
  BY <1>1, <1>2, <1>5
<1> QED BY <1>3, <1>4, <1>5 DEF Transfer

LEMMA OldestTypes == Updated \subseteq Snap => OldestUpdates \in Seq(Snap \cup {None}) /\ OldestUpdates # <<>>
<1> SUFFICES ASSUME Updated \subseteq Snap PROVE OldestUpdates \in Seq(Snap \cup {None}) /\ OldestUpdates # <<>>
  OBVIOUS
<1>1. DroppedUpdates \in Nat \ {0}
  BY Constants
<1> DEFINE Nth(i) == IF \E t \in Updated : Cardinality(Older(t)) = i - 1
                     THEN CHOOSE t \in Updated : Cardinality(Older(t)) = i - 1 ELSE None
<1>2. \A i \in 1..DroppedUpdates : Nth(i) \in Snap \cup {None}
  OBVIOUS
<1>3. OldestUpdates = [i \in 1..DroppedUpdates |-> Nth(i)]
  BY DEF OldestUpdates
<1> HIDE DEF Nth
<1>4. OldestUpdates \in Seq(Snap \cup {None}) /\ Len(OldestUpdates) = DroppedUpdates
  BY <1>1, <1>2, <1>3
<1>5. OldestUpdates # <<>>
  BY <1>1, <1>4, EmptySeq
<1> QED BY <1>4, <1>5

LEMMA TransferWork ==
  ASSUME TypeInv, NEW l \in Lot, Transfer(l)
  PROVE  WorkTypes'
<1>1. transfer \in [Lot -> Work] /\ WorkTypes /\ <<>> \in Seq(Snap \cup {None})
  BY DEF TypeInv, WorkTypes
<1>2. ASSUME NEW w \in Work, transfer' = [transfer EXCEPT ![l] = w],
             w.at \in {"sink", "list", "drop", "set"} => w.time \in Snap, w.at = "drop" => w.keys # <<>>
      PROVE  WorkTypes'
  BY <1>1, <1>2 DEF WorkTypes
<1>3. transfer[l] \in Work /\ (transfer[l].at \in {"sink", "list", "drop", "set"} => transfer[l].time \in Snap)
  BY <1>1 DEF WorkTypes
<1>4. ASSUME NEW how \in {"done", "failed"}, Ends(l, how) PROVE WorkTypes'
  <2>1. Idle(how) \in Work /\ Idle(how).at \in {"done", "failed"}
    BY <1>1 DEF Idle, Work, Stage
  <2> QED BY <1>2, <1>4, <2>1 DEF Ends
<1>5. ASSUME transfer[l].at = "sink", NEW p \in {"list", "set"}, Goes(l, p) PROVE WorkTypes'
  <2> DEFINE w == [transfer[l] EXCEPT !.at = p]
  <2>1. w \in Work /\ w.at = p /\ w.time \in Snap
    BY <1>3, <1>5 DEF Work, Stage
  <2>2. transfer' = [transfer EXCEPT ![l] = w]
    BY <1>1, <1>5 DEF Goes
  <2> HIDE DEF w
  <2> QED BY <1>2, <2>1, <2>2
<1>6. CASE WriteLot(l)
  BY <1>4, <1>5, <1>6 DEF WriteLot
<1>7. CASE WriteFails(l)
  BY <1>4, <1>7 DEF WriteFails
<1>8. CASE ListUpdates(l)
  <2> DEFINE w == [transfer[l] EXCEPT !.at = "drop", !.keys = OldestUpdates]
  <2>1. OldestUpdates \in Seq(Snap \cup {None}) /\ OldestUpdates # <<>>
    BY OldestTypes DEF TypeInv, StoreTypes
  <2>2. w \in Work /\ w.time \in Snap /\ w.keys # <<>>
    BY <1>3, <1>8, <2>1 DEF Work, Stage, ListUpdates
  <2>3. transfer' = [transfer EXCEPT ![l] = w]
    BY <1>1, <1>8 DEF ListUpdates
  <2> HIDE DEF w
  <2> QED BY <1>2, <2>2, <2>3
<1>9. CASE DropUpdate(l)
  <2> DEFINE rest == Tail(transfer[l].keys)
             w == [transfer[l] EXCEPT !.at = IF rest = <<>> THEN "set" ELSE "drop", !.keys = rest]
  <2>1. transfer[l].at = "drop" /\ transfer[l].keys # <<>> /\ transfer[l].keys \in Seq(Snap \cup {None})
    BY <1>1, <1>3, <1>9 DEF DropUpdate, WorkTypes, Work
  <2>2. rest \in Seq(Snap \cup {None})
    BY <2>1, TailLemma
  <2>3. w \in Work /\ w.time \in Snap /\ (w.at = "drop" => w.keys # <<>>)
    <3> HIDE DEF rest
    <3> QED BY <1>3, <2>1, <2>2 DEF Work, Stage
  <2>4. Ends(l, "failed") \/ transfer' = [transfer EXCEPT ![l] = w]
    BY <1>1, <1>9 DEF DropUpdate
  <2> HIDE DEF w
  <2> QED BY <1>2, <1>4, <2>3, <2>4
<1>10. CASE SetUpdate(l)
  BY <1>4, <1>10 DEF SetUpdate
<1> QED BY <1>6, <1>7, <1>8, <1>9, <1>10 DEF Transfer

(* The updated snapshots after a step of a transfer.                        *)
LEMMA TransferUpdates ==
  ASSUME TypeInv, NEW l \in Lot, Transfer(l)
  PROVE  Updated' \subseteq Snap /\ IsFiniteSet(Updated') /\ updates' \in [Updated' -> SUBSET Lot]
<1>1. Updated \subseteq Snap /\ IsFiniteSet(Updated) /\ updates \in [Updated -> SUBSET Lot]
  BY DEF TypeInv, StoreTypes
<1>2. CASE UNCHANGED updates
  BY <1>1, <1>2 DEF Updated
<1>3. CASE Drops(l)
  <2> DEFINE s == Updated \ {Head(transfer[l].keys)}
  <2>1. updates' = [v \in s |-> updates[v]] /\ s \in SUBSET Updated
    BY <1>3 DEF Drops
  <2>2. \A v \in s : updates[v] \in SUBSET Lot
    BY <1>1
  <2> HIDE DEF s
  <2>3. updates' \in [s -> SUBSET Lot] /\ Updated' = s
    BY <2>1, <2>2 DEF Updated
  <2> QED BY <1>1, <2>1, <2>3, FS_Subset
<1>4. CASE SetUpdate(l)
  <2> DEFINE t == transfer[l].time
             s == Updated \cup {t}
             f(v) == IF v = t THEN NewSnapshot(l) ELSE updates[v]
  <2>1. t \in Snap /\ NewSnapshot(l) \in SUBSET Lot
    BY <1>4 DEF TypeInv, WorkTypes, Work, SetUpdate, NewSnapshot
  <2>2. updates' = [v \in s |-> f(v)]
    BY <1>4 DEF SetUpdate
  <2>3. \A v \in s : f(v) \in SUBSET Lot
    BY <1>1, <2>1
  <2>4. s \subseteq Snap /\ IsFiniteSet(s)
    BY <1>1, <2>1, OneMoreLemma
  <2> HIDE DEF s, f
  <2>5. updates' \in [s -> SUBSET Lot] /\ Updated' = s
    BY <2>2, <2>3 DEF Updated
  <2> QED BY <2>4, <2>5
<1> QED BY <1>2, <1>3, <1>4, TransferChanges

LEMMA TransferTyped ==
  ASSUME TypeInv, LockInv, NEW l \in Lot, Transfer(l)
  PROVE  TypeInv' /\ LockInv'
<1>1. UNCHANGED <<cache, table, held, pc, request, exact, lock, keys, result, current>> /\ sink' \subseteq Lot
  BY TransferChanges DEF TypeInv, StoreTypes
<1>2. StoreTypes'
  BY <1>1, TransferUpdates DEF TypeInv, StoreTypes
<1>3. ThreadTypes' /\ TableTypes' /\ \A u \in User : Knows(u)'
  BY <1>1 DEF TypeInv, ThreadTypes, TableTypes, Knows
<1>4. LockInv'
  BY <1>1 DEF LockInv, NoLockIsLost
<1> QED BY <1>2, <1>3, <1>4, TransferWork DEF TypeInv

LEMMA TransferRoomInv ==
  ASSUME TypeInv, TypeInv', RoomInv, NEW l \in Lot, Transfer(l)
  PROVE  RoomInv'
<1>1. UNCHANGED <<cache, table, pc>> /\ InRoom' = InRoom /\ Creating' = Creating
  BY TransferChanges DEF InRoom, Creating
<1>2. transfer \in [Lot -> Work]
  BY DEF TypeInv, WorkTypes
<1>3. Cardinality(Updated') \in Nat
  BY FS_CardinalityType DEF TypeInv, StoreTypes
<1>4. Cardinality(Updated') + Cardinality(Setting') <= MaxUpdates + Cardinality(Lot)
  <2>1. CASE WriteLot(l) /\ ~TooManyUpdates
    <3>1. Updated' = Updated /\ Cardinality(Updated) <= MaxUpdates
      BY <2>1, RoomTypes, Counts DEF WriteLot, TooManyUpdates, Updated
    <3> QED BY <3>1, RoomTypes, RoomAfter, Counts
  <2>2. CASE (WriteLot(l) /\ TooManyUpdates) \/ WriteFails(l) \/ ListUpdates(l)
    <3>1. Updated' = Updated
      BY <2>2 DEF WriteLot, WriteFails, ListUpdates, Updated
    <3>2. transfer'[l].at # "set" /\ \A k \in Lot \ {l} : transfer'[k] = transfer[k]
      BY <1>2, <2>2 DEF WriteLot, WriteFails, ListUpdates, Ends, Goes, Idle, Work
    <3>3. Setting' \in SUBSET Setting
      BY <3>2 DEF Setting
    <3>4. Cardinality(Setting') <= Cardinality(Setting)
      BY <3>3, RoomTypes, FS_Subset
    <3>5. Cardinality(Updated) + Cardinality(Setting) <= MaxUpdates + Cardinality(Lot)
      BY DEF RoomInv
    <3>6. /\ Cardinality(Updated) \in Nat /\ Cardinality(Setting) \in Nat /\ Cardinality(Setting') \in Nat
          /\ MaxUpdates \in Nat /\ Cardinality(Lot) \in Nat
      BY RoomTypes, RoomAfter, Counts
    <3> QED BY <3>1, <3>4, <3>5, <3>6, OneForOne
  <2>3. CASE DropUpdate(l)
    <3>1. \A k \in Lot \ {l} : transfer'[k] = transfer[k]
      BY <1>2, <2>3 DEF DropUpdate, Ends
    <3>2. Setting' \in SUBSET (Setting \cup {l})
      BY <3>1 DEF Setting
    <3>3. CASE Drops(l)
      <4>1. Updated' = Updated \ {Head(transfer[l].keys)} /\ Head(transfer[l].keys) \in Updated
        BY <3>3 DEF Drops, Updated
      <4>2. Cardinality(Updated') = Cardinality(Updated) - 1
        BY <4>1, RoomTypes, OneLessLemma
      <4>3. Cardinality(Setting') <= Cardinality(Setting \cup {l})
        BY <3>2, RoomTypes, OneMoreLemma, FS_Subset
      <4>4. Cardinality(Setting \cup {l}) <= Cardinality(Setting) + 1 /\ Cardinality(Setting \cup {l}) \in Nat
        BY RoomTypes, OneMoreLemma
      <4>5. Cardinality(Setting') <= Cardinality(Setting) + 1
        BY <4>3, <4>4, RoomTypes, RoomAfter
      <4>6. Cardinality(Updated) + Cardinality(Setting) <= MaxUpdates + Cardinality(Lot)
        BY DEF RoomInv
      <4>7. /\ Cardinality(Updated) \in Nat /\ Cardinality(Setting) \in Nat /\ Cardinality(Setting') \in Nat
            /\ MaxUpdates \in Nat /\ Cardinality(Lot) \in Nat
        BY RoomTypes, RoomAfter, Counts
      <4> QED BY <1>3, <4>2, <4>5, <4>6, <4>7, OneForOne
    <3>4. CASE ~Drops(l)
      <4>1. Updated' = Updated /\ Ends(l, "failed")
        BY <2>3, <3>4 DEF DropUpdate, Drops, Updated
      <4>2. transfer'[l].at # "set"
        BY <1>2, <4>1 DEF Ends, Idle
      <4>3. Setting' \in SUBSET Setting
        BY <3>1, <4>2 DEF Setting
      <4>4. Cardinality(Setting') <= Cardinality(Setting)
        BY <4>3, RoomTypes, FS_Subset
      <4>5. Cardinality(Updated) + Cardinality(Setting) <= MaxUpdates + Cardinality(Lot)
        BY DEF RoomInv
      <4>6. /\ Cardinality(Updated) \in Nat /\ Cardinality(Setting) \in Nat /\ Cardinality(Setting') \in Nat
            /\ MaxUpdates \in Nat /\ Cardinality(Lot) \in Nat
        BY RoomTypes, RoomAfter, Counts
      <4> QED BY <4>1, <4>4, <4>5, <4>6, OneForOne
    <3> QED BY <3>3, <3>4
  <2>4. CASE SetUpdate(l)
    <3>1. transfer'[l].at # "set" /\ transfer[l].at = "set" /\ \A k \in Lot \ {l} : transfer'[k] = transfer[k]
      BY <1>2, <2>4 DEF SetUpdate, Ends, Idle
    <3>2. Setting' = Setting \ {l} /\ l \in Setting
      BY <3>1 DEF Setting
    <3>3. Updated' = Updated \cup {transfer[l].time}
      BY <2>4 DEF SetUpdate, Updated
    <3>4. Cardinality(Updated') <= Cardinality(Updated) + 1
      BY <3>3, RoomTypes, OneMoreLemma
    <3>5. Cardinality(Setting') = Cardinality(Setting) - 1
      BY <3>2, RoomTypes, OneLessLemma
    <3>6. Cardinality(Updated) + Cardinality(Setting) <= MaxUpdates + Cardinality(Lot)
      BY DEF RoomInv
    <3>7. /\ Cardinality(Updated) \in Nat /\ Cardinality(Setting) \in Nat /\ Cardinality(Setting') \in Nat
          /\ MaxUpdates \in Nat /\ Cardinality(Lot) \in Nat
      BY RoomTypes, RoomAfter, Counts
    <3> QED BY <1>3, <3>4, <3>5, <3>6, <3>7, OneForOne
  <2> QED BY <2>1, <2>2, <2>3, <2>4 DEF Transfer
<1> QED BY <1>1, <1>4 DEF RoomInv

LEMMA TransferCrossInv ==
  ASSUME TypeInv, CrossInv, NEW l \in Lot, Transfer(l)
  PROVE  CrossInv'
<1>1. UNCHANGED <<cache, table, pc, request, keys>>
  BY TransferChanges
<1>2. ASSUME UNCHANGED crossed, Updated \subseteq Updated' PROVE CrossInv'
  BY <1>1, <1>2 DEF CrossInv, Sure, HasLock
<1>3. CASE UNCHANGED <<updates, owed, crossed>>
  BY <1>2, <1>3 DEF Updated
<1>4. CASE SetUpdate(l)
  BY <1>2, <1>4 DEF SetUpdate, Updated
<1>5. CASE Drops(l)
  <2>1. Crosses(User)
    BY <1>5 DEF Drops
  <2>2. \A u \in User : pc[u] \in Ended => Sure(u)'
    BY <1>1 DEF Sure, Ended
  <2>3. \A u \in User : pc[u] \notin Ended => crossed'[u]
    BY <2>1 DEF Crosses, Ended
  <2> QED BY <2>1, <2>2, <2>3 DEF CrossInv, Crosses
<1> QED BY <1>3, <1>4, <1>5, TransferChanges

LEMMA TransferReadInv ==
  ASSUME TypeInv, ReadInv, NEW l \in Lot, Transfer(l)
  PROVE  ReadInv'
<1>1. UNCHANGED <<pc, request, result>>
  BY TransferChanges
<1>2. DOMAIN owed = User /\ \A u \in User : \A t \in DOMAIN owed[u] : t \in Updated /\ owed[u][t] \subseteq updates[t]
  BY DEF ReadInv
<1>3. CASE UNCHANGED <<updates, owed>>
  BY <1>1, <1>3 DEF ReadInv, ReadsSeeTransfers, Updated
<1>4. ASSUME DOMAIN owed' = User,
             \A u \in User : \A t \in DOMAIN owed'[u] :
               /\ t \in Updated' /\ owed'[u][t] \subseteq updates'[t]
               /\ t \in DOMAIN owed[u] /\ owed'[u][t] \subseteq owed[u][t]
      PROVE  ReadInv'
  BY <1>1, <1>4 DEF ReadInv, ReadsSeeTransfers
<1>5. CASE Drops(l)
  <2> DEFINE t == Head(transfer[l].keys)
  <2>1. /\ owed' = [u \in User |-> [v \in DOMAIN owed[u] \ {t} |-> owed[u][v]]]
        /\ updates' = [v \in Updated \ {t} |-> updates[v]]
    BY <1>5 DEF Drops
  <2> HIDE DEF t
  <2>2. /\ \A u \in User : DOMAIN owed'[u] = DOMAIN owed[u] \ {t} /\ \A v \in DOMAIN owed'[u] : owed'[u][v] = owed[u][v]
        /\ Updated' = Updated \ {t} /\ \A v \in Updated \ {t} : updates'[v] = updates[v]
        /\ DOMAIN owed' = User
    BY <2>1 DEF Updated
  <2> QED BY <1>2, <1>4, <2>2
<1>6. CASE SetUpdate(l)
  <2> DEFINE t == transfer[l].time
  <2>1. /\ updates' = [v \in Updated \cup {t} |-> IF v = t THEN NewSnapshot(l) ELSE updates[v]]
        /\ owed' = [u \in User |-> [v \in DOMAIN owed[u] |->
                      IF v = t THEN owed[u][v] \cap NewSnapshot(l) ELSE owed[u][v]]]
    BY <1>6 DEF SetUpdate
  <2> HIDE DEF t
  <2>2. /\ DOMAIN owed' = User
        /\ \A u \in User : /\ DOMAIN owed'[u] = DOMAIN owed[u]
                           /\ \A v \in DOMAIN owed[u] :
                                owed'[u][v] = IF v = t THEN owed[u][v] \cap NewSnapshot(l) ELSE owed[u][v]
        /\ Updated' = Updated \cup {t}
        /\ \A v \in Updated \cup {t} : updates'[v] = IF v = t THEN NewSnapshot(l) ELSE updates[v]
    BY <2>1 DEF Updated
  <2> SUFFICES ASSUME NEW u \in User, NEW v \in DOMAIN owed'[u]
               PROVE  /\ v \in Updated' /\ owed'[u][v] \subseteq updates'[v]
                      /\ v \in DOMAIN owed[u] /\ owed'[u][v] \subseteq owed[u][v]
    BY <1>4, <2>2
  <2>3. v \in DOMAIN owed[u] /\ v \in Updated /\ owed[u][v] \subseteq updates[v]
    BY <1>2, <2>2
  <2>4. CASE v = t
    <3>1. owed'[u][v] = owed[u][v] \cap NewSnapshot(l) /\ updates'[v] = NewSnapshot(l) /\ v \in Updated'
      BY <2>2, <2>3, <2>4
    <3> QED BY <2>3, <3>1
  <2>5. CASE v # t
    BY <2>2, <2>3, <2>5
  <2> QED BY <2>4, <2>5
<1> QED BY <1>3, <1>5, <1>6, TransferChanges

LEMMA TransferSinkInv ==
  ASSUME TypeInv, SinkInv, NEW l \in Lot, Transfer(l)
  PROVE  SinkInv'
<1>1. UNCHANGED <<pc, result>> /\ sink \subseteq sink'
  BY TransferChanges
<1>2. transfer \in [Lot -> Work] /\ \A k \in Lot : transfer[k].lots \subseteq sink
  BY DEF TypeInv, WorkTypes, SinkInv
<1>3. \A k \in Lot \ {l} : transfer'[k] = transfer[k]
  BY <1>2 DEF Transfer, WriteLot, WriteFails, ListUpdates, DropUpdate, SetUpdate, Ends, Goes
<1>4. transfer'[l].lots \subseteq sink'
  BY <1>1, <1>2 DEF Transfer, WriteLot, WriteFails, ListUpdates, DropUpdate, SetUpdate, Ends, Goes, Idle, Work
<1>5. transfer'[l].at \in {"list", "drop", "set"} => l \in sink'
  <2>1. CASE WriteLot(l)
    BY <2>1 DEF WriteLot
  <2>2. CASE WriteFails(l) \/ SetUpdate(l)
    BY <1>2, <2>2 DEF WriteFails, SetUpdate, Ends, Idle
  <2>3. CASE ListUpdates(l) \/ DropUpdate(l)
    <3>1. l \in sink
      BY <2>3 DEF ListUpdates, DropUpdate, SinkInv
    <3> QED BY <1>1, <3>1
  <2> QED BY <2>1, <2>2, <2>3 DEF Transfer
<1>6. TransferredIsSunk'
  <2>1. CASE UNCHANGED updates
    BY <1>1, <2>1 DEF SinkInv, TransferredIsSunk, Updated
  <2>2. CASE Drops(l)
    <3>1. \A t \in Updated' : t \in Updated /\ updates'[t] = updates[t]
      BY <2>2 DEF Drops, Updated
    <3> QED BY <1>1, <3>1 DEF SinkInv, TransferredIsSunk
  <2>3. CASE SetUpdate(l)
    <3> DEFINE time == transfer[l].time
    <3>1. updates' = [v \in Updated \cup {time} |-> IF v = time THEN NewSnapshot(l) ELSE updates[v]]
      BY <2>3 DEF SetUpdate
    <3>2. NewSnapshot(l) \subseteq sink
      BY <1>2, <2>3 DEF SetUpdate, NewSnapshot, SinkInv
    <3> HIDE DEF time
    <3>3. \A t \in Updated' : updates'[t] = NewSnapshot(l) \/ (t \in Updated /\ updates'[t] = updates[t])
      BY <3>1 DEF Updated
    <3> QED BY <1>1, <3>2, <3>3 DEF SinkInv, TransferredIsSunk
  <2> QED BY <2>1, <2>2, <2>3, TransferChanges
<1>7. \A u \in User : pc'[u] \in HasResult => result'[u].lots \subseteq sink'
  BY <1>1 DEF SinkInv
<1>8. \A k \in Lot : transfer'[k].lots \subseteq sink' /\ (transfer'[k].at \in {"list", "drop", "set"} => k \in sink')
  <2> SUFFICES ASSUME NEW k \in Lot
               PROVE  transfer'[k].lots \subseteq sink' /\ (transfer'[k].at \in {"list", "drop", "set"} => k \in sink')
    OBVIOUS
  <2>1. CASE k = l
    BY <1>4, <1>5, <2>1
  <2>2. CASE k # l
    BY <1>1, <1>3, <2>2 DEF SinkInv
  <2> QED BY <2>1, <2>2
<1> QED BY <1>6, <1>7, <1>8 DEF SinkInv

-----------------------------------------------------------------------------
LEMMA ThreadKeeps ==
  ASSUME IInv, NEW u \in User, ThreadStep(u)
  PROVE  IInv'
<1>1. TypeInv /\ LockInv /\ RoomInv /\ CrossInv /\ ReadInv /\ SinkInv /\ DOMAIN owed = User
  BY DEF IInv, ReadInv
<1>2. Moves(u) /\ TypeInv'
  BY <1>1, ThreadMoves, ThreadTyped
<1>3. LockInv' /\ RoomInv' /\ CrossInv'
  BY <1>1, <1>2, ThreadLockInv, ThreadRoomInv, ThreadCrossInv
<1>4. ReadInv' /\ SinkInv'
  BY <1>1, <1>2, ThreadReadInv, ThreadSinkInv
<1> QED BY <1>2, <1>3, <1>4 DEF IInv

LEMMA TransferKeeps ==
  ASSUME IInv, NEW l \in Lot, Transfer(l)
  PROVE  IInv'
<1>1. TypeInv /\ LockInv /\ RoomInv /\ CrossInv /\ ReadInv /\ SinkInv
  BY DEF IInv
<1>2. TypeInv' /\ LockInv'
  BY <1>1, TransferTyped
<1> QED BY <1>1, <1>2, TransferRoomInv, TransferCrossInv, TransferReadInv, TransferSinkInv DEF IInv

(* Collecting a transfer that is over, or no step at all.                   *)
LEMMA CollectKeeps ==
  ASSUME IInv, Collect \/ UNCHANGED vars
  PROVE  IInv'
<1>1. /\ UNCHANGED <<cache, updates, table, held, pc, request, exact, lock, keys, result, owed, crossed, transfer, sink>>
      /\ current' \in {current, None}
  BY DEF Collect, vars, lockVars, threadVars, observed, transferVars
<1>2. TypeInv'
  BY <1>1 DEF IInv, TypeInv, StoreTypes, ThreadTypes, WorkTypes, TableTypes, Knows, Updated
<1>3. LockInv' /\ RoomInv'
  BY <1>1 DEF IInv, LockInv, NoLockIsLost, RoomInv, InRoom, Creating, Setting, Updated
<1>4. CrossInv' /\ ReadInv'
  BY <1>1 DEF IInv, CrossInv, Sure, HasLock, ReadInv, ReadsSeeTransfers, Updated
<1>5. SinkInv'
  BY <1>1 DEF IInv, SinkInv, TransferredIsSunk, Updated
<1> QED BY <1>2, <1>3, <1>4, <1>5 DEF IInv

LEMMA Inductive == Spec => []IInv
<1>1. IInv /\ [Next]_vars => IInv'
  <2> SUFFICES ASSUME IInv, [Next]_vars PROVE IInv'
    OBVIOUS
  <2>1. ASSUME NEW u \in User, ThreadStep(u) PROVE IInv'
    BY <2>1, ThreadKeeps
  <2>2. ASSUME NEW l \in Lot, Transfer(l) PROVE IInv'
    BY <2>2, TransferKeeps
  <2>3. CASE Collect \/ UNCHANGED vars
    BY <2>3, CollectKeeps
  <2> QED BY <2>1, <2>2, <2>3 DEF Next, ThreadStep
<1> QED BY <1>1, InitLemma, PTL DEF Spec

LEMMA TypesFollow == IInv => SnapshotTypeOK
<1> SUFFICES ASSUME IInv PROVE SnapshotTypeOK
  OBVIOUS
<1>1. TypeInv /\ RoomInv
  BY DEF IInv
<1>2. /\ Cardinality(cache) < MaxCaches + Cardinality(User)
      /\ Cardinality(Updated) <= MaxUpdates + Cardinality(Lot)
      /\ Len(table) <= MaxLocks + Cardinality(User)
  BY <1>1, RoomTypes, Counts DEF RoomInv
<1>3. Locks \subseteq Lock
  BY <1>1 DEF TypeInv, TableTypes, Locks
<1>4. \A u \in User : result[u] = None \/ result[u] \in [time : Snap, lots : SUBSET Lot]
  BY <1>1 DEF TypeInv, ThreadTypes, Found
<1>5. \A l \in Lot : transfer[l].at \in {"none", "sink", "list", "drop", "set", "done", "failed"}
  BY <1>1 DEF TypeInv, WorkTypes, Work, Stage
<1> QED BY <1>1, <1>2, <1>3, <1>4, <1>5 DEF SnapshotTypeOK, TypeInv, StoreTypes, ThreadTypes

(* Every variable keeps its type: the cache, the updates and the table of   *)
(* locks grow beyond their sizes only by the threads and transfers that may *)
(* have found the same room, although nothing guards a test and its use.    *)
THEOREM SnapshotsTyped == Spec => []SnapshotTypeOK
BY Inductive, TypesFollow, PTL

(* A lock is taken only by a thread that goes on with it.                   *)
THEOREM LocksAreReturned == Spec => []NoLockIsLost
<1>1. IInv => NoLockIsLost
  BY DEF IInv, LockInv
<1> QED BY <1>1, Inductive, PTL

(* A request raises only if another thread has dropped something from the   *)
(* caches or from the table of locks since the request began.               *)
THEOREM FailuresAreCrossed == Spec => []FailsOnlyCrossed
<1>1. IInv => FailsOnlyCrossed
  BY DEF IInv, CrossInv, Sure, FailsOnlyCrossed
<1> QED BY <1>1, Inductive, PTL

(* A request's answer has every lot that the snapshot showed when the       *)
(* request began, unless the update has been dropped since, or replaced by  *)
(* one without the lot.                                                     *)
THEOREM TransfersAreRead == Spec => []ReadsSeeTransfers
<1>1. IInv => ReadsSeeTransfers
  BY DEF IInv, ReadInv
<1> QED BY <1>1, Inductive, PTL

(* What stands in a snapshot has been written to its sink.                  *)
THEOREM TransfersAreSunk == Spec => []TransferredIsSunk
<1>1. IInv => TransferredIsSunk
  BY DEF IInv, SinkInv
<1> QED BY <1>1, Inductive, PTL
=============================================================================
