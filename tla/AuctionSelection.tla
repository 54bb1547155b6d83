-------------------------- MODULE AuctionSelection --------------------------
(***************************************************************************)
(* Which materials an auction is held for and what is made of its results: *)
(* the script that plans selects them for each equipment, a user from what *)
(* the page offers, and both reduce the assignments the LOG has recorded,  *)
(* which are of materials, to one for an order.                            *)
(* (ShortTermPlanning/dynreact/shortterm/short_term_planning.py,           *)
(*  common/data/data_setup.py, gui_stp/agentsPage.py, and Snapshot in      *)
(*  DynReActBase/dynreact/base/model.py)                                   *)
(*                                                                         *)
(* How an auction comes to its assignments is the matter of Auction: here  *)
(* any bidder that may process the order of a material gets it, or nobody. *)
(***************************************************************************)
EXTENDS Integers, Sequences, SequencesExt, FiniteSetsExt

CONSTANTS
  None, Equipment, Order, Material,
  Listed,     \* the materials of the snapshot, in their order
  OrderOf,    \* [Material -> Order]
  Allowed,    \* [Order -> SUBSET Equipment]
  At,         \* [Material -> Equipment, or None]
  StorageOf,  \* of a material
  StorageIn,  \* of an equipment
  Numbers     \* what nmaterials may be; 0 is all

SelectionAssumption ==
  /\ Listed \in SetToSeqs(Material) /\ OrderOf \in [Material -> Order]
  /\ Allowed \in [Order -> SUBSET Equipment] /\ At \in [Material -> Equipment \cup {None}]
  /\ DOMAIN StorageOf = Material /\ DOMAIN StorageIn = Equipment /\ Numbers \subseteq Nat

VARIABLES
  byPlanner,     \* the script, or else the page
  participating, \* equipments
  nmaterials,
  matype,        \* what the user selects
  clones,        \* the materials that have an agent
  assignments,   \* [Equipment -> what the LOG has recorded for it]
  reported,      \* [Equipment -> its results]
  stage

vars == <<byPlanner, participating, nmaterials, matype, clones, assignments, reported, stage>>

-----------------------------------------------------------------------------
(* _select_materials_for_equipment: a material for each order, first those  *)
(* whose order no other participant may process.                            *)
MaterialsAt(e) == SelectSeq(Listed, LAMBDA m : At[m] = e)
Place(m) == CHOOSE i \in DOMAIN Listed : Listed[i] = m
FirstOfOrders(ms) ==
  SelectSeq(ms, LAMBDA m : \A k \in ToSet(ms) : OrderOf[k] = OrderOf[m] => Place(m) <= Place(k))
FirstOf(ms, n) == SubSeq(ms, 1, Min({n, Len(ms)}))

Candidates(m) == Allowed[OrderOf[m]] \cap participating
IsStable(m, e) == Candidates(m) = {e}

Selected(e) ==
  LET firsts == FirstOfOrders(MaterialsAt(e))
      stable == SelectSeq(firsts, LAMBDA m : IsStable(m, e))
      shared == SelectSeq(firsts, LAMBDA m : ~IsStable(m, e))
      competing == Cardinality(participating) > 1
  IN IF nmaterials = 0 THEN ToSet(MaterialsAt(e))
     ELSE ToSet(FirstOf(stable \o IF competing THEN <<>> ELSE shared, nmaterials))

(* An equipment without material is not found, before the auction starts.   *)
PlannerCreates ==
  /\ byPlanner /\ stage = "new"
  /\ IF \E e \in participating : MaterialsAt(e) = <<>>
     THEN stage' = "failed" /\ UNCHANGED clones
     ELSE stage' = "auction" /\ clones' = UNION {Selected(e) : e \in participating}
  /\ UNCHANGED <<byPlanner, participating, nmaterials, matype, assignments, reported>>

(* What the page offers: materials, or orders, where they are now, and, if  *)
(* they are wanted, materials in front of an equipment that are assigned to *)
(* another, or orders that are wholly at it.                                *)
MaterialsInFront(e) ==
  {m \in Material : /\ e \in Allowed[OrderOf[m]] /\ StorageOf[m] = StorageIn[e]
                    /\ At[m] \notin {None, e}}
OrdersAt(e) == {OrderOf[m] : m \in ToSet(MaterialsAt(e))}
OrdersWhollyAt(e) == {o \in OrdersAt(e) : \A m \in Material : OrderOf[m] = o => At[m] = e}
OfferedMaterials == UNION {ToSet(MaterialsAt(e)) \cup MaterialsInFront(e) : e \in participating}
OfferedOrders == UNION {OrdersAt(e) \cup OrdersWhollyAt(e) : e \in participating}

(* An order is represented by its first material.                           *)
Representing(orders) == {m \in ToSet(FirstOfOrders(Listed)) : OrderOf[m] \in orders}

PageCreates ==
  /\ ~byPlanner /\ stage = "new"
  /\ \/ matype = "Materials" /\ clones' \in SUBSET OfferedMaterials
     \/ matype = "Orders" /\ \E orders \in SUBSET OfferedOrders : clones' = Representing(orders)
  /\ stage' = "auction"
  /\ UNCHANGED <<byPlanner, participating, nmaterials, matype, assignments, reported>>

-----------------------------------------------------------------------------
Assigned == UNION {{a.material : a \in ToSet(assignments[e])} : e \in Equipment}

(* The rounds of an equipment are numbered.                                 *)
Confirm(e, m) ==
  /\ stage = "auction"
  /\ m \in clones \ Assigned /\ e \in Candidates(m)
  /\ assignments' = [assignments EXCEPT ![e] =
       Append(@, [material |-> m, order |-> OrderOf[m], round |-> Len(@)])]
  /\ UNCHANGED <<byPlanner, participating, nmaterials, matype, clones, reported, stage>>

(* normalize_auction_results: of an order the latest assignment, at the     *)
(* place of its first.  The page asks with no scope, and keeps the          *)
(* equipments it has chosen.                                                *)
Scope(e) == IF byPlanner THEN {OrderOf[m] : m \in Selected(e)} ELSE Order
InScope(e) ==
  SelectSeq(assignments[e], LAMBDA a : a.order \in Scope(e) /\ (Allowed[a.order] # {} => e \in Allowed[a.order]))
FirstEntries(as) ==
  SelectSeq(as, LAMBDA a : \A b \in ToSet(as) : b.order = a.order => a.round <= b.round)
Earliest(as, o) == CHOOSE a \in ToSet(as) : a.order = o /\ a \in ToSet(FirstEntries(as))
Latest(as, o) ==
  CHOOSE a \in ToSet(as) : a.order = o /\ \A b \in ToSet(as) : b.order = o => b.round <= a.round
Normalized(e) ==
  LET as == InScope(e)
      firsts == FirstEntries(as)
  IN [i \in DOMAIN firsts |-> Latest(as, firsts[i].order)]

Report ==
  /\ stage = "auction" /\ stage' = "reported"
  /\ reported' = [e \in participating |-> Normalized(e)]
  /\ UNCHANGED <<byPlanner, participating, nmaterials, matype, clones, assignments>>

Init ==
  /\ byPlanner \in BOOLEAN /\ participating \in SUBSET Equipment \ {{}}
  /\ IF byPlanner THEN nmaterials \in Numbers /\ matype = None
     ELSE nmaterials = 0 /\ matype \in {"Materials", "Orders"}
  /\ clones = {} /\ assignments = [e \in Equipment |-> <<>>] /\ reported = <<>>
  /\ stage = "new"

Next ==
  \/ PlannerCreates \/ PageCreates \/ Report
  \/ \E e \in Equipment, m \in Material : Confirm(e, m)

Spec == Init /\ [][Next]_vars

-----------------------------------------------------------------------------
(* Every variable keeps its type.                                           *)
SelectionTypeOK ==
  /\ byPlanner \in BOOLEAN /\ participating \subseteq Equipment /\ nmaterials \in Numbers \cup {0}
  /\ matype \in {None, "Materials", "Orders"}
  /\ clones \subseteq Material /\ stage \in {"new", "failed", "auction", "reported"}
  /\ \A e \in Equipment : \A a \in ToSet(assignments[e]) : a.material \in clones /\ a.order \in Order

(* What an auction reports: of an order, one assignment per equipment, and  *)
(* the latest one.  Nothing assigned is withheld, unless the script has let *)
(* several equipments compete for all material.  If it selects a number of  *)
(* materials for each of several equipments, none reports more orders than  *)
(* that, and no two report the same, as if a user had selected orders.      *)
Orders(e) == {a.order : a \in ToSet(reported[e])}
ReportsAreSound ==
  stage = "reported" => \A e \in participating :
    /\ Cardinality(Orders(e)) = Len(reported[e])
    /\ \A a \in ToSet(assignments[e]), b \in ToSet(reported[e]) : a.order = b.order => a.round <= b.round
    /\ ~byPlanner \/ nmaterials > 0 \/ participating = {e} =>
         Orders(e) = {a.order : a \in ToSet(assignments[e])}
    /\ byPlanner /\ nmaterials > 0 => Len(reported[e]) <= nmaterials
    /\ (byPlanner /\ nmaterials > 0) \/ matype = "Orders" =>
         \A f \in participating \ {e} : Orders(e) \cap Orders(f) = {}
=============================================================================
