--------------------------- MODULE PlanningTargets ---------------------------
(***************************************************************************)
(* From the targets of the long term planning to those of a lot creation,  *)
(* from the orders it assigns to lots with times, and from these, once     *)
(* they are transferred, to the targets of the next lot creation           *)
(* (DynReActBase/dynreact/base/impl/ModelUtils.py).  Times are integers.   *)
(* Material structures are not nested, and amounts and durations such that *)
(* the shares of a period and the durations of orders are whole numbers.   *)
(***************************************************************************)
EXTENDS Integers, Sequences, SequencesExt, FiniteSetsExt, Functions, TLC

CONSTANTS
  None, Equipment, Order, Material,
  OrderOf,      \* [Material -> Order]
  MatWeight,    \* [Material -> weight]
  ClassesOf,    \* [Order -> a class of each category]
  Categories,   \* a set of disjoint sets of classes
  SubPeriods,   \* a sequence of periods <<start, end>> that follow one another
  SubTargets,   \* [index of a period -> [equipment, if it is planned -> [class -> weight]]]
  Throughput,   \* [Equipment -> weight per unit of time]
  Horizon, MaxHorizon, NumShifts,
  StorageIn,    \* [Equipment -> a storage]
  FirstLots,    \* [Equipment -> the lots of the snapshot]
  MaxTime       \* bound

Classes == UNION Categories
SumOf(f, S) == MapThenSumSet(LAMBDA x : f[x], S)
Weight == [o \in Order |-> SumOf(MatWeight, {m \in Material : OrderOf[m] = o})]

TargetsAssumption ==
  /\ OrderOf \in [Material -> Order] /\ \A m \in Material : MatWeight[m] \in Nat \ {0}
  /\ \A c, d \in Categories : c # d => c \cap d = {}
  /\ \A i \in DOMAIN SubTargets : \A e \in DOMAIN SubTargets[i] : \A c, d \in Categories :
       SumOf(SubTargets[i][e], c) = SumOf(SubTargets[i][e], d)
  /\ \A e \in Equipment : \A i \in DOMAIN FirstLots[e] : FirstLots[e][i].start <= FirstLots[e][i].end
  /\ {Horizon, MaxHorizon, MaxTime, NumShifts} \subseteq Nat

VARIABLES
  now,      \* the time of the snapshot
  lots,     \* [Equipment -> its active lots, as [start, end, status, orders]]
  at,       \* [Material -> the equipment it is at]
  planned,  \* None, or the targets: [some equipments -> [total, start, mats]]
  exact     \* [some equipments -> no target was cut off at zero]; not in the code

vars == <<now, lots, at, planned, exact>>

-----------------------------------------------------------------------------
(* applicable_periods: of each period, the part that is in an interval.     *)
Overlap(i, from, to) == Max({0, Min({SubPeriods[i][2], to}) - Max({SubPeriods[i][1], from})})
ShareOf(w, i, from, to) == (w * Overlap(i, from, to)) \div (SubPeriods[i][2] - SubPeriods[i][1])

LotWeight(lot) == SumOf(Weight, ToSet(lot.orders))
Existing(e) ==
  [c \in Classes |-> FoldSeq(LAMBDA lot, n : n + SumOf(Weight, {o \in ToSet(lot.orders) : c \in ClassesOf[o]}), 0, lots[e])]
EquipmentHorizon(e) == Max({lots[e][i].end : i \in DOMAIN lots[e]} \cup IF lots[e] = <<>> THEN {now} ELSE {})
PlanningEnd(e) == Min({EquipmentHorizon(e) + Horizon, now + MaxHorizon})

(* The targets of the periods from now on, also those of the existing lots. *)
Targeted(e) ==
  [c \in Classes |->
     MapThenSumSet(LAMBDA i : IF e \in DOMAIN SubTargets[i] THEN ShareOf(SubTargets[i][e][c], i, now, PlanningEnd(e)) ELSE 0,
                   DOMAIN SubPeriods)]
ACategory == CHOOSE c \in Categories : TRUE
PlannedProduction(e) == SumOf(Targeted(e), ACategory) - SumOf(Existing(e), ACategory)
CapacityOf(e) == Throughput[e] * (PlanningEnd(e) - EquipmentHorizon(e))

BestNumberOfShifts(e) ==
  LET off(n) == LET d == CapacityOf(e) * n - PlannedProduction(e) * NumShifts IN Max({d, -d})
  IN CHOOSE n \in 0 .. NumShifts : \A m \in 0 .. NumShifts : off(n) < off(m) \/ (off(n) = off(m) /\ n <= m)

(* Plans of more than 8 % of the capacity are scaled to all of it, smaller  *)
(* ones to shifts, and those of less than 5 % left out.                     *)
TotalWeight(e) ==
  IF 100 * PlannedProduction(e) >= 8 * CapacityOf(e) THEN CapacityOf(e)
  ELSE (CapacityOf(e) * BestNumberOfShifts(e)) \div NumShifts

IsPlanned(e) ==
  /\ EquipmentHorizon(e) < now + MaxHorizon
  /\ \E i \in DOMAIN SubPeriods : Overlap(i, now, PlanningEnd(e)) > 0
  /\ 100 * PlannedProduction(e) > 5 * CapacityOf(e) /\ TotalWeight(e) > 0

(* What is in lots beyond its target is taken from the other classes of its *)
(* category, in proportion to their targets; fractions, before the scaling. *)
Over(e) == {c \in Classes : Existing(e)[c] > Targeted(e)[c]}
CategoryOf(c) == CHOOSE cat \in Categories : c \in cat
Available(e, c) == SumOf(Targeted(e), CategoryOf(c) \ Over(e))
SurplusAt(e, c) == MapThenSumSet(LAMBDA d : Existing(e)[d] - Targeted(e)[d], CategoryOf(c) \cap Over(e))

Correction(e, c) ==
  LET target == Targeted(e)[c]
      available == Available(e, c)
  IN IF c \in Over(e) \/ available = 0 THEN <<target, 1>>
     ELSE <<Max({target * (available - SurplusAt(e, c)), 0}), available>>

(* The proportions of targets that are all zero cannot be told.             *)
CannotCorrect(e) == \E c \in Over(e) : ~ CategoryOf(c) \subseteq Over(e) /\ Available(e, c) = 0

Missing(e, c) == LET t == Correction(e, c) IN <<t[1] - Existing(e)[c] * t[2], t[2]>>

Plan ==
  /\ planned = None
  /\ LET es == {e \in Equipment : IsPlanned(e)} IN
     /\ \A e \in es : ~ CannotCorrect(e)
     /\ planned' = [e \in es |->
          [total |-> TotalWeight(e), start |-> EquipmentHorizon(e), production |-> PlannedProduction(e),
           mats |-> [c \in Classes |-> <<Max({Missing(e, c)[1], 0}) * TotalWeight(e), Missing(e, c)[2] * PlannedProduction(e)>>]]]
     /\ exact' = {e \in es : \A c \in Classes \ Over(e) : Missing(e, c)[1] >= 0
                                 /\ SurplusAt(e, c) <= Available(e, c)}
  /\ UNCHANGED <<now, lots, at>>

-----------------------------------------------------------------------------
(* lots_for_assignments: one equipment after the other.  One without lots   *)
(* begins where the last lot of the one before began, if there was one.     *)
Free == Order \ UNION {UNION {ToSet(lots[e][i].orders) : i \in DOMAIN lots[e]} : e \in Equipment}

LotsAfter(e, from, groups) ==
  LET add(acc, orders) ==
        LET end == acc.at + SumOf(Weight, ToSet(orders)) \div Throughput[e] IN
        [at |-> end, lots |-> Append(acc.lots, [start |-> acc.at, end |-> end, status |-> 0, orders |-> orders])]
  IN FoldLeft(add, [at |-> from, lots |-> <<>>], groups).lots

NewLots(es, groupsOf, start) ==
  LET add(acc, e) ==
        LET from == IF lots[e] = <<>> THEN acc.start ELSE EquipmentHorizon(e)
            new == LotsAfter(e, from, groupsOf[e])
        IN [start |-> Last(new).start, lots |-> e :> lots[e] \o new @@ acc.lots]
  IN FoldLeft(add, [start |-> start, lots |-> lots], es).lots

(* A lot creation assigns some orders, and its lots are transferred.        *)
Groups(orders) == {<<s>> : s \in SetToSeqs(orders)} \cup IF Cardinality(orders) < 2 THEN {} ELSE {[i \in DOMAIN s |-> <<s[i]>>] : s \in SetToSeqs(orders)}

Assign ==
  /\ planned # None
  /\ \E to \in UNION {[S -> DOMAIN planned] : S \in SUBSET Free} :
       LET es == Range(to)
           start == Min({planned[e].start : e \in DOMAIN planned})
           orders(e) == {o \in DOMAIN to : to[o] = e}
       IN /\ es # {}
          /\ \E seq \in SetToSeqs(es) : \E groups \in [es -> UNION {Groups(orders(e)) : e \in es}] :
               /\ \A e \in es : groups[e] \in Groups(orders(e))
               /\ lots' = NewLots(seq, groups, start)
  /\ planned' = None /\ exact' = {}
  /\ UNCHANGED <<now, at>>

Discard == planned # None /\ planned' = None /\ exact' = {} /\ UNCHANGED <<now, lots, at>>

(* A later snapshot, in which materials have moved.                         *)
Tick ==
  /\ planned = None /\ now < MaxTime /\ now' = now + 1
  /\ \E m \in Material, e \in Equipment : at' = [at EXCEPT ![m] = e]
  /\ UNCHANGED <<lots, planned, exact>>

-----------------------------------------------------------------------------
(* lots_horizon, of the batch job: lots with a status above 1.              *)
Fixed(e) == {i \in DOMAIN lots[e] : lots[e][i].status > 1}
CommonHorizon ==
  IF \E e \in Equipment : Fixed(e) = {} THEN None
  ELSE Min({Max({lots[e][i].end : i \in Fixed(e)}) : e \in Equipment})

(* get_order_lot_times_with_fallback.                                       *)
OrderTimes(lot) ==
  LET length == lot.end - lot.start
      before(i) == SumOf(Weight, {lot.orders[k] : k \in 1 .. i - 1})
      time(w) == lot.start + (w * length) \div LotWeight(lot)
  IN [i \in DOMAIN lot.orders |-> <<time(before(i)), time(before(i + 1))>>]

(* storage_content_from_snapshot.  A storage is in the list once for each   *)
(* equipment the order is at.                                               *)
EquipmentsOf(o) == {at[m] : m \in {m \in Material : OrderOf[m] = o}}
InStorage(o, s) == SumOf(MatWeight, {m \in Material : OrderOf[m] = o /\ StorageIn[at[m]] = s})
Content(s) ==
  MapThenSumSet(LAMBDA o : LET times == Cardinality({e \in EquipmentsOf(o) : StorageIn[e] = s}) IN
                           IF Cardinality(EquipmentsOf(o)) = 1 THEN times * Weight[o] ELSE times * InStorage(o, s), Order)

Init ==
  /\ now = 0 /\ lots = FirstLots /\ planned = None /\ exact = {}
  /\ at \in [Material -> Equipment]

Next == Plan \/ Assign \/ Discard \/ Tick

Spec == Init /\ [][Next]_vars

-----------------------------------------------------------------------------
(* Every variable keeps its type.                                           *)
TargetsTypeOK ==
  /\ now \in 0 .. MaxTime /\ at \in [Material -> Equipment]
  /\ \A e \in Equipment : \A i \in DOMAIN lots[e] : ToSet(lots[e][i].orders) \subseteq Order
  /\ planned # None => DOMAIN planned \subseteq Equipment
  /\ exact \subseteq Equipment

(* The classes of a category add up to what the equipment is to produce; to *)
(* more than that if a target was cut off at zero.                          *)
MaterialsAddUp ==
  planned # None => \A e \in DOMAIN planned : \A cat \in Categories :
    LET mats == planned[e].mats
        by == ProductSet({mats[c][2] : c \in cat})
        sum == MapThenSumSet(LAMBDA c : mats[c][1] * (by \div mats[c][2]), cat)
    IN /\ by > 0 /\ sum >= planned[e].total * by
       /\ e \in exact => sum = planned[e].total * by

(* However often it is planned: an equipment works on one order at a time,  *)
(* targets begin where the lots end, no earlier than the batch job thinks,  *)
(* and an order is in one lot.                                              *)
OrdersFollowOneAnother ==
  /\ \A e \in Equipment : \A i, j \in DOMAIN lots[e] : i < j =>
       \A x \in Range(OrderTimes(lots[e][i])), y \in Range(OrderTimes(lots[e][j])) : x[2] <= y[1] \/ y[2] <= x[1]
  /\ planned # None => \A e \in DOMAIN planned : \A i \in DOMAIN lots[e] :
       /\ lots[e][i].end <= planned[e].start
       /\ OrderTimes(lots[e][i])[Len(lots[e][i].orders)][2] = lots[e][i].end
  /\ CommonHorizon # None => \A e \in Equipment : CommonHorizon <= EquipmentHorizon(e)
  /\ \A o \in Order : Cardinality({<<e, i>> \in Equipment \X (1 .. Cardinality(Order)) :
                                     i \in DOMAIN lots[e] /\ o \in ToSet(lots[e][i].orders)}) <= 1

(* Storages hold what lies there, while no order is at two equipments that  *)
(* share one.                                                               *)
StoragesHoldTheirMaterial ==
  \A s \in Range(StorageIn) :
    (\A o \in Order : Cardinality({e \in EquipmentsOf(o) : StorageIn[e] = s}) <= 1)
      => Content(s) = SumOf(MatWeight, {m \in Material : StorageIn[at[m]] = s})

=============================================================================
