------------------------ MODULE ProductionAggregation ------------------------
(***************************************************************************)
(* The thread that sums up, per aggregation level and interval, what was   *)
(* produced between snapshots, and what is stored where in each of them,   *)
(* and the files it keeps the sums in.                                     *)
(* (DynReActBase/dynreact/base/impl/AggregationProviderImpl.py,            *)
(*  MaterialAggregation.py, FileAggregationPersistence.py)                 *)
(*                                                                         *)
(* Time is counted in units longer than the three minutes within which     *)
(* snapshots are taken for one; intervals have a fixed length per level.   *)
(* The snapshots are those their provider lists at the time.  The service  *)
(* crashes between any two writes; a write of the production may fail.     *)
(* The index the persistence keeps of its files is left out.               *)
(***************************************************************************)
EXTENDS Integers, Sequences, FiniteSetsExt, Functions

CONSTANTS
  None,
  Level,      \* the aggregation levels, in order
  Length,     \* [level -> units of its intervals]
  Order, Weight,      \* [Order -> its weight in the snapshot of each unit]
  Equipment, At,      \* [Order -> the equipment its material is at, or None]
  Unit, UnitOf,       \* [Unit -> equipments]: the processes, or the storages
  MaxTime, MaxCrashes, MaxFailures  \* bounds

Levels == {Level[i] : i \in DOMAIN Level}
Times == 0 .. MaxTime

AggregationAssumption ==
  /\ Length \in [Levels -> Nat \ {0}] /\ Weight \in [Order -> [Times -> Nat]]
  /\ At \in [Order -> [Times -> Equipment \cup {None}]] /\ UnitOf \in [Unit -> SUBSET Equipment]
  /\ {MaxCrashes, MaxFailures} \subseteq Nat

VARIABLES
  now, snapshots,  \* the times there are snapshots of
  up,
  at,              \* the snapshot that is processed
  todo,            \* the levels still to be updated for it
  closing,         \* the first of them is yet to close the interval before
  storing,         \* its storage is to be updated
  lastProd, lastStg,  \* last processed snapshots
  cache,           \* the aggregations of each level in memory
  compare,            \* snapshot the next one is compared with
  files, stored,      \* what is on disk: productions by level and start; storages
  asked,              \* storages computed for the frontend before the thread
  crashes, failures

vars == <<now, snapshots, up, at, todo, closing, storing, lastProd, lastStg, cache, compare, files, stored,
          asked, crashes, failures>>

disk == <<files, stored>>
none == [l \in Levels |-> None]

-----------------------------------------------------------------------------
(* MaterialAggregation: the weight at each equipment, and of the equipments *)
(* of a unit.                                                               *)
ByEquipment(t) == [e \in Equipment |-> FoldSet(LAMBDA o, sum : Weight[o][t] + sum, 0, {o \in Order : At[o][t] = e})]
Merged(by) == [u \in Unit |-> FoldSet(LAMBDA e, sum : by[e] + sum, 0, UnitOf[u])]
Content(t) == LET by == ByEquipment(t) IN [equipment |-> by, unit |-> Merged(by)]

(* _update_aggregation_internal: what an order lost of its weight is        *)
(* produced; what it gained is ignored.                                     *)
Produced(s, t) ==
  FoldSet(LAMBDA o, sum : sum + (IF Weight[o][t] < Weight[o][s] THEN Weight[o][s] - Weight[o][t] ELSE 0), 0, Order)

StartOf(l, t) == (t \div Length[l]) * Length[l]
Previous(t) == LET before == {s \in snapshots : s < t} IN IF before = {} THEN None ELSE Max(before)

(* What the aggregation of the interval of t is, in memory or on disk.      *)
Known(l, t) ==
  LET start == StartOf(l, t) IN
  IF t < 0 THEN None
  ELSE IF start \in DOMAIN cache[l] THEN cache[l][start]
  ELSE IF start \in DOMAIN files[l] THEN files[l][start] ELSE None

Put(f, start, agg) == [x \in DOMAIN f \cup {start} |-> IF x = start THEN agg ELSE f[x]]

-----------------------------------------------------------------------------
(* production_values and storage_values, last ones first.                   *)
LastFile(l) == IF DOMAIN files[l] = {} THEN None ELSE files[l][Max(DOMAIN files[l])].last

(* start, _init_from_persistence.                                           *)
Boot ==
  /\ ~up /\ up' = TRUE
  /\ lastStg' = IF DOMAIN stored = {} THEN None ELSE Max(DOMAIN stored)
  /\ lastProd' = [l \in Levels |-> LastFile(l)]
  /\ UNCHANGED <<now, snapshots, at, todo, closing, storing, cache, compare, disk, asked, crashes, failures>>

Crash ==
  /\ up /\ crashes < MaxCrashes /\ crashes' = crashes + 1 /\ up' = FALSE
  /\ at' = None /\ todo' = <<>> /\ closing' = FALSE /\ storing' = FALSE /\ lastProd' = none /\ lastStg' = None
  /\ cache' = [l \in Levels |-> <<>>] /\ compare' = none /\ asked' = {}
  /\ UNCHANGED <<now, snapshots, disk, failures>>

(* A new snapshot, or a unit without one.                                   *)
Tick ==
  /\ now < MaxTime /\ now' = now + 1 /\ snapshots' \in {snapshots, snapshots \cup {now'}}
  /\ UNCHANGED <<up, at, todo, closing, storing, lastProd, lastStg, cache, compare, disk, asked, crashes, failures>>

Behind(last, s) == last # None => last < s
UpdateProd(s) == \E l \in Levels : Behind(lastProd[l], s)
Pending == {s \in snapshots : UpdateProd(s) \/ Behind(lastStg, s)}

(* _run_internal.                                                           *)
Take ==
  /\ up /\ at = None /\ Pending # {}
  /\ LET s == Min(Pending) IN
       /\ at' = s /\ storing' = Behind(lastStg, s)
       /\ todo' = IF UpdateProd(s) THEN Level ELSE <<>>
  /\ UNCHANGED <<now, snapshots, up, closing, lastProd, lastStg, cache, compare, disk, asked, crashes, failures>>

-----------------------------------------------------------------------------
StoreProduction(l, start, agg) ==
  files' = [files EXCEPT ![l] = Put(@, start, agg)]
Fail == failures < MaxFailures /\ failures' = failures + 1 /\ UNCHANGED files

(* The last level done, all of them count as processed.                     *)
Passed(l, s) ==
  /\ todo' = Tail(todo)
  /\ lastProd' = IF Len(todo) = 1 THEN [k \in Levels |-> s] ELSE [lastProd EXCEPT ![l] = s]

Skip(l, s) ==
  /\ ~Behind(lastProd[l], s)
  /\ todo' = Tail(todo) /\ lastProd' = IF Len(todo) = 1 THEN [k \in Levels |-> s] ELSE lastProd
  /\ UNCHANGED <<closing, cache, compare, files, failures>>

(* _update_aggregation: a failed write is only reported.  When the snapshot *)
(* last processed is not in memory, or of another interval, the one before  *)
(* is asked for, but not by name: load takes the newest one there is.  The  *)
(* snapshot that began the aggregation, or a later one, precedes this one.  *)
LoadPositional(id) == IF id = None THEN None ELSE Max(snapshots)
Inside(l, c, s) == c # None /\ StartOf(l, s) <= c /\ c <= StartOf(l, s) + Length[l]
ComparedWith(l, s) == IF Inside(l, compare[l], s) THEN compare[l] ELSE LoadPositional(Previous(s))
Continue(l, s) ==
  LET agg == Known(l, s)
      start == StartOf(l, s)
      other == ComparedWith(l, s)
      updated == [agg EXCEPT !.total = @ + Produced(other, s), !.last = s]
  IN
  /\ Behind(lastProd[l], s) /\ agg # None
  /\ Passed(l, s) /\ compare' = [compare EXCEPT ![l] = s] /\ UNCHANGED closing
  /\ cache' = [cache EXCEPT ![l] = Put(@, start, updated)]
  /\ \/ StoreProduction(l, start, updated) /\ UNCHANGED failures
     \/ Fail

(* The first snapshot of an interval begins a new aggregation, and then     *)
(* closes the one of the interval before; what was produced since the last  *)
(* one of that interval is in neither.                                      *)
NewAggregation(s) == [total |-> 0, last |-> s, closed |-> FALSE]
Begin(l, s) ==
  /\ Behind(lastProd[l], s) /\ Known(l, s) = None
  /\ StoreProduction(l, StartOf(l, s), NewAggregation(s))
  /\ cache' = [cache EXCEPT ![l] = Put(@, StartOf(l, s), NewAggregation(s))]
  /\ compare' = [compare EXCEPT ![l] = s] /\ closing' = TRUE
  /\ UNCHANGED <<todo, lastProd, failures>>

CloseBefore(l, s) ==
  LET before == Known(l, s - Length[l])
      start == StartOf(l, s) - Length[l]
      closed == [before EXCEPT !.closed = TRUE]
  IN
  /\ closing /\ closing' = FALSE /\ Passed(l, s) /\ UNCHANGED compare
  /\ IF before = None \/ before.closed THEN UNCHANGED <<cache, files, failures>>
     ELSE /\ cache' = [cache EXCEPT ![l] = Put(@, start, closed)]
          /\ \/ StoreProduction(l, start, closed) /\ UNCHANGED failures
             \/ Fail

(* A new aggregation that cannot be written: the remaining levels pass the  *)
(* snapshot too.                                                            *)
BeginFails(l, s) ==
  /\ Behind(lastProd[l], s) /\ Known(l, s) = None /\ Fail
  /\ todo' = <<>> /\ lastProd' = [k \in Levels |-> s]
  /\ UNCHANGED <<closing, cache, compare>>

UpdateLevel ==
  /\ up /\ at # None /\ todo # <<>>
  /\ LET l == Head(todo) IN
       \/ ~closing /\ (Skip(l, at) \/ Continue(l, at) \/ Begin(l, at) \/ BeginFails(l, at))
       \/ CloseBefore(l, at)
  /\ UNCHANGED <<now, snapshots, up, at, storing, lastStg, stored, asked, crashes>>

(* _update_storage_aggregations.                                            *)
UpdateStorage ==
  /\ up /\ at # None /\ todo = <<>> /\ storing
  /\ stored' = Put(stored, at, Content(at)) /\ asked' = asked \ {at}
  /\ lastStg' = at /\ storing' = FALSE
  /\ UNCHANGED <<now, snapshots, up, at, todo, closing, lastProd, cache, compare, files, crashes, failures>>

Leave ==
  /\ up /\ at # None /\ todo = <<>> /\ ~storing /\ at' = None
  /\ UNCHANGED <<now, snapshots, up, todo, closing, storing, lastProd, lastStg, cache, compare, disk, asked, crashes, failures>>

(* aggregated_storage_content, of a snapshot the thread has not come to.    *)
AskStorage(s) ==
  /\ up /\ s \notin DOMAIN stored \cup asked /\ asked' = asked \cup {s}
  /\ UNCHANGED <<now, snapshots, up, at, todo, closing, storing, lastProd, lastStg, cache, compare, disk, crashes, failures>>

-----------------------------------------------------------------------------
Init ==
  /\ now = 0 /\ snapshots = {0} /\ up = FALSE /\ at = None /\ todo = <<>> /\ closing = FALSE /\ storing = FALSE
  /\ lastProd = none /\ lastStg = None
  /\ cache = [l \in Levels |-> <<>>] /\ compare = none
  /\ files = [l \in Levels |-> <<>>] /\ stored = <<>> /\ asked = {} /\ crashes = 0 /\ failures = 0

Next ==
  \/ Boot \/ Crash \/ Tick \/ Take \/ UpdateLevel \/ UpdateStorage \/ Leave
  \/ \E s \in snapshots : AskStorage(s)

Spec == Init /\ [][Next]_vars

-----------------------------------------------------------------------------
(* Every variable keeps its type.                                           *)
AggregationTypeOK ==
  /\ now \in Times /\ snapshots \subseteq Times /\ {up, closing, storing} \subseteq BOOLEAN
  /\ at \in snapshots \cup {None} /\ asked \subseteq snapshots
  /\ \A l \in Levels :
       /\ {lastProd[l], compare[l]} \subseteq snapshots \cup {None} /\ DOMAIN files[l] \subseteq Times
       /\ \A i \in DOMAIN files[l] : files[l][i].total \in Nat /\ files[l][i].closed \in BOOLEAN

(* Without a failed write the sum on disk is what was produced from         *)
(* snapshot to snapshot within the interval, each step counted once; but a  *)
(* crash costs each level the first step after it within an interval: that  *)
(* snapshot is compared with itself, or with a later one.                   *)
Steps(start, last) == {s \in snapshots : start < s /\ s <= last /\ \E r \in snapshots : start <= r /\ r < s}
StepBefore(s) == Max({r \in snapshots : r < s})
SumOfSteps(start, last, with) ==
  FoldSet(LAMBDA s, sum : sum + Produced(IF s \in DOMAIN with THEN with[s] ELSE StepBefore(s), s), 0, Steps(start, last))
ProductionCountedOnce ==
  failures = 0 => \A l \in Levels :
    \E lost \in {ls \in SUBSET snapshots : Cardinality(ls) <= crashes} :
      \E with \in {w \in [lost -> snapshots] : \A s \in lost : s <= w[s]} :
        \A i \in DOMAIN files[l] : files[l][i].total = SumOfSteps(i, files[l][i].last, with)

(* The content of the equipments is that of the units they belong to.       *)
StorageAddsUp ==
  \A s \in DOMAIN stored :
    FoldSet(LAMBDA u, sum : sum + stored[s].unit[u], 0, Unit)
      = FoldSet(LAMBDA o, sum : sum + (IF At[o][s] = None THEN 0 ELSE Weight[o][s]), 0, Order)
=============================================================================
