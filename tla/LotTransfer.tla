---------------------------- MODULE LotTransfer ----------------------------
(***************************************************************************)
(* What the transfer of a lot does to the snapshot in memory: the lot is   *)
(* added, its orders leave the other lots of the process, and orders and   *)
(* material are told where they are now.                                   *)
(* (DynReActService/dynreact/SnapshotUpdate.py)                            *)
(*                                                                         *)
(* Orders are the order objects, which hold the lots they are in and their *)
(* positions, by process; lots hold orders; nothing but this code keeps    *)
(* the two in step.  Which version of a snapshot is the current one is the *)
(* matter of SnapshotStore.                                                *)
(***************************************************************************)
EXTENDS Integers, FiniteSets, Sequences, SequencesExt

CONSTANTS
  None,
  Order, Material, Equipment, Process, LotId,
  OrderOf,      \* [Material -> Order]
  ProcessOf,    \* [Equipment -> Process]
  MaxTransfers  \* bound

TransferAssumption ==
  /\ IsFiniteSet(Order) /\ IsFiniteSet(Material)
  /\ OrderOf \in [Material -> Order] /\ ProcessOf \in [Equipment -> Process]
  /\ MaxTransfers \in Nat

VARIABLES
  lots,        \* [equipment -> its lots, in order]
  orderLots,   \* Order.lots
  positions,   \* Order.lot_positions: None, a number, or a mapping
  matPosition, \* Material.order_positions
  transfers

vars == <<lots, orderLots, positions, matPosition, transfers>>

NoLot == [p \in Process |-> None]
Numbers == [p \in Process |-> 0]  \* 0: no entry
Mapping(f) == [is |-> "mapping", at |-> f]
Number(n) == [is |-> "number", at |-> n]
NoPosition == [is |-> "none"]

LotsOf(e) == ToSet(lots[e])
EquipmentOf(p) == {e \in Equipment : ProcessOf[e] = p}
Affected(e) == EquipmentOf(ProcessOf[e])
(* What is at the places I of a sequence, in the same order.                *)
AtPlaces(s, I) ==
  [j \in 1 .. Cardinality(I) |-> s[CHOOSE i \in I : Cardinality({k \in I : k <= i}) = j]]

(* The lots that hold a transferred order shrink, or go when empty.         *)
Shrunk(lot, orders) ==
  [lot EXCEPT !.orders = AtPlaces(lot.orders, {i \in DOMAIN lot.orders : lot.orders[i] \notin ToSet(orders)})]
ShrunkLots(ls, orders) ==
  AtPlaces([i \in DOMAIN ls |-> Shrunk(ls[i], orders)], {i \in DOMAIN ls : Shrunk(ls[i], orders).orders # <<>>})
Loses(lot, orders) == ToSet(lot.orders) \cap ToSet(orders) # {}

(* Of an order that stays behind, the mapping of positions is replaced by   *)
(* its number in the lot.                                                   *)
Left(e, orders) ==
  UNION {{Shrunk(l, orders)} \X DOMAIN Shrunk(l, orders).orders :
           l \in {k \in UNION {LotsOf(f) : f \in Affected(e)} : Loses(k, orders)}}

Renumbered(o, e, orders) ==
  IF positions[o] # NoPosition /\ \E x \in Left(e, orders) : x[1].orders[x[2]] = o
  THEN Number((CHOOSE x \in Left(e, orders) : x[1].orders[x[2]] = o)[2])
  ELSE positions[o]

IndexOf(o, orders) == CHOOSE i \in DOMAIN orders : orders[i] = o
Moved(o, p, orders) ==
  Mapping([(IF positions[o].is = "mapping" THEN positions[o].at ELSE Numbers)
             EXCEPT ![p] = IndexOf(o, orders)])

InNewLot(o, p, id) == [orderLots[o] EXCEPT ![p] = id]

(* Material that has no position in the process gets one, from 1 on.        *)
Unnumbered(o, p) == {m \in Material : OrderOf[m] = o /\ matPosition[m][p] = 0}
InSomeOrder(ms) == CHOOSE s \in SetToSeqs(ms) : TRUE

(* update_snapshot.                                                         *)
Transfer(e, id, orders) ==
  /\ transfers < MaxTransfers /\ transfers' = transfers + 1
  /\ lots' = [f \in Equipment |->
       LET rest == IF f \in Affected(e) THEN ShrunkLots(lots[f], orders) ELSE lots[f]
       IN IF f = e THEN Append(rest, [id |-> id, orders |-> orders]) ELSE rest]
  /\ orderLots' = [o \in Order |->
       IF o \in ToSet(orders) THEN InNewLot(o, ProcessOf[e], id) ELSE orderLots[o]]
  /\ positions' = [o \in Order |->
       IF o \in ToSet(orders) THEN Moved(o, ProcessOf[e], orders) ELSE Renumbered(o, e, orders)]
  /\ matPosition' = [m \in Material |->
       LET p == ProcessOf[e]
           unnumbered == Unnumbered(OrderOf[m], p)
       IN IF OrderOf[m] \in ToSet(orders) /\ m \in unnumbered
          THEN [matPosition[m] EXCEPT ![p] = IndexOf(m, InSomeOrder(unnumbered))]
          ELSE matPosition[m]]

(* A snapshot of the provider: lots without common orders in a process, and *)
(* orders that know them, or orders that know of no positions.              *)
Loaded(ls, known) ==
  LET at(o, p) == {x \in UNION {{e} \X (DOMAIN ls[e]) \X {1, 2} : e \in EquipmentOf(p)} : ls[x[1]][x[2]].orders[x[3]] = o}
      place(o, p) == CHOOSE x \in at(o, p) : TRUE
  IN /\ lots = ls
     /\ orderLots = [o \in Order |-> [p \in Process |->
          IF at(o, p) = {} THEN None ELSE ls[place(o, p)[1]][place(o, p)[2]].id]]
     /\ positions = [o \in Order |->
          IF known THEN Mapping([p \in Process |-> IF at(o, p) = {} THEN 0 ELSE place(o, p)[3]]) ELSE NoPosition]

(* Its material has positions in every process, or in none.                 *)
Numbered(numbered) ==
  matPosition = [m \in Material |-> [p \in Process |->
    IF numbered THEN IndexOf(m, InSomeOrder({k \in Material : OrderOf[k] = OrderOf[m]})) ELSE 0]]

Sequences == UNION {SetToSeqs(s) : s \in SUBSET Order \ {{}}}

FirstLots ==
  {first \in [Equipment -> {<<>>} \cup {<<[id |-> l, orders |-> os]>> : l \in LotId, os \in {s \in Sequences : Len(s) = 2}}] :
     \A e, f \in Equipment : e # f /\ ProcessOf[e] = ProcessOf[f] => first[e] = <<>> \/ first[f] = <<>>}

Init ==
  /\ \E first \in FirstLots, known \in BOOLEAN : Loaded(first, known)
  /\ \E numbered \in BOOLEAN : Numbered(numbered)
  /\ transfers = 0

Next == \E e \in Equipment, id \in LotId, orders \in Sequences : Transfer(e, id, orders)

Spec == Init /\ [][Next]_vars

-----------------------------------------------------------------------------
(* Every variable keeps its type.                                           *)
TransferTypeOK ==
  /\ \A e \in Equipment : \A lot \in LotsOf(e) : lot.id \in LotId /\ lot.orders \in Sequences
  /\ orderLots \in [Order -> [Process -> LotId \cup {None}]]
  /\ \A o \in Order : positions[o].is \in {"none", "number", "mapping"}
  /\ matPosition \in [Material -> [Process -> 0 .. 9]]

(* Whatever is transferred where, once or again: an order is in one lot of  *)
(* a process at most, which is the lot the order names, and the material of *)
(* an order has a sequence.                                                 *)
Holding(o, p) ==
  {x \in UNION {{e} \X DOMAIN lots[e] : e \in EquipmentOf(p)} : o \in ToSet(lots[x[1]][x[2]].orders)}
OrdersKnowTheirLots ==
  \A o \in Order, p \in Process :
    LET holding == Holding(o, p) IN
    /\ \A x, y \in holding : x = y
    /\ orderLots[o][p] = IF holding = {} THEN None
                         ELSE LET x == CHOOSE x \in holding : TRUE IN lots[x[1]][x[2]].id
    /\ \A m, k \in Material :
         m # k /\ OrderOf[m] = o /\ OrderOf[k] = o /\ matPosition[m][p] # 0 => matPosition[m][p] # matPosition[k][p]
=============================================================================
