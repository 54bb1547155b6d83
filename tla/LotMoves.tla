------------------------------ MODULE LotMoves ------------------------------
(***************************************************************************)
(* The plannings the tabu search moves through: which order is on which    *)
(* equipment, in which lot and at which position, the neighbourhood of a   *)
(* planning, the tabu list and the shuffle.  LotCreation has the loop of   *)
(* the search and its objective values; here the objective is left out, so *)
(* that any candidate of a step may be the best one.                       *)
(* (MidTermPlanning/dynreact/lotcreation/LotsOptimizerImpl.py)             *)
(***************************************************************************)
EXTENDS Integers, Sequences, SequencesExt, FiniteSetsExt, Functions

CONSTANTS
  None,                   \* equipment -1
  Order, Plants,          \* Plants: the equipments, in their order
  Starts,                 \* initial solutions: where the lots of the snapshot have the orders
  Allowed,                \* [Order -> SUBSET Equipment], temporary restrictions applied
  Slow, Poor,             \* [Equipment -> SUBSET Order], performance below 1 and below 0.3
  Forced,
  Prohibitive,            \* pairs of orders whose transition costs exceed TAllowed
  WeightOf, Target,       \* of an order, of an equipment
  MinLot, MaxLot,         \* lot_weight_range
  Expiration, ExpirationAfterShuffle, NParallel, MaxTsps,
  MaxSteps                \* bound

Equipment == ToSet(Plants)
Move == [order : Order, from : Equipment \cup {None}, to : Equipment \cup {None}]

MovesAssumption ==
  /\ IsFiniteSet(Order) /\ None \notin Equipment
  /\ Starts \subseteq [Order -> Equipment \cup {None}]
  /\ Allowed \in [Order -> SUBSET Equipment]
  /\ Slow \in [Equipment -> SUBSET Order] /\ \A e \in Equipment : Poor[e] \subseteq Slow[e]
  /\ Forced \subseteq Order /\ Prohibitive \subseteq Order \X Order
  /\ WeightOf \in [Order -> Nat \ {0}] /\ Target \in [Equipment -> Nat \ {0}]
  /\ {MinLot, MaxLot, MaxTsps} \subseteq Nat /\ {Expiration, ExpirationAfterShuffle, NParallel} \subseteq Nat \ {0}

VARIABLES
  start,     \* initial_solution: [Order -> Equipment, or None]
  finalTsp,  \* tsp_solver_final_tsp
  pc,        \* "start", "search", or "failed": run has raised
  rows,      \* [Equipment -> Seq([order, lot, idx])], the order assignments
  open,      \* orders of the planning that no equipment has
  forbidden, \* _forbidden_assignments
  tabu,      \* _tabu_list with the expirations: a function on some moves
  steps,
  past       \* the moves since the last shuffle, the latest first; not in the code

vars == <<start, finalTsp, pc, rows, open, forbidden, tabu, steps, past>>

-----------------------------------------------------------------------------
(* From a route to lots.                                                    *)
Numbered(route, startsLot) ==
  LET first(i) == Max({1} \cup {j \in 2 .. i : startsLot[j]}) IN
  [i \in DOMAIN route |-> [order |-> route[i],
                           lot |-> Cardinality({j \in 2 .. i : startsLot[j]}),
                           idx |-> i - first(i) + 1]]

Total(orders) == MapThenSumSet(LAMBDA o : WeightOf[o], orders)

(* A lot ends where a transition is too dear.  One that is too heavy is cut *)
(* where the next order would exceed MaxLot.                                *)
Sequenced(route) ==
  LET apart == [i \in DOMAIN route |-> i > 1 /\ <<route[i - 1], route[i]>> \in Prohibitive]
      weightOfLot(i) ==
        Total({route[j] : j \in {j \in DOMAIN route : \A k \in Min({i, j}) + 1 .. Max({i, j}) : ~apart[k]}})
      tooHeavy(i) == /\ weightOfLot(i) > MaxLot
                     /\ 50 * (weightOfLot(i) - MaxLot) > MaxLot
                     /\ weightOfLot(i) >= 2 * MinLot
      subLotWeight[i \in DOMAIN route] ==
        LET weight == WeightOf[route[i]] IN
        IF i = 1 \/ apart[i] THEN weight
        ELSE IF tooHeavy(i) /\ subLotWeight[i - 1] + weight > MaxLot /\ subLotWeight[i - 1] >= MinLot
             THEN weight
             ELSE subLotWeight[i - 1] + weight
  IN Numbered(route, [i \in DOMAIN route |-> apart[i] \/ subLotWeight[i] = WeightOf[route[i]]])

(* assign_lots for one equipment: the solver may return any route.          *)
Sequences == [orders \in SUBSET Order |-> {Sequenced(route) : route \in SetToSeqs(orders)}]

OrdersOf(row) == {row[i].order : i \in DOMAIN row}
Route(row) == [i \in DOMAIN row |-> row[i].order]
LotsOf(row) == [i \in DOMAIN row |-> <<row[i].order, row[i].idx>>]
Changes(row, i) == i > 1 /\ row[i].lot # row[i - 1].lot

Planned == open \cup UNION {OrdersOf(rows[e]) : e \in Equipment}
Place(o) == IF \E e \in Equipment : o \in OrdersOf(rows[e])
            THEN CHOOSE e \in Equipment : o \in OrdersOf(rows[e]) ELSE None
Assignments == [o \in Planned |-> Place(o)]
At(assigned, e) == {o \in DOMAIN assigned : assigned[o] = e}

-----------------------------------------------------------------------------
(* _init_performance_models, equipment by equipment.  An order is dropped   *)
(* from the planning where its equipment is forbidden, and looked up without*)
(* it being there for the next equipment with a restriction.                *)
Restricted(e) == {o \in Order : e \in Allowed[o] /\ o \in Slow[e]}
Forbids == [o \in Order |-> {e \in Allowed[o] : o \in Poor[e]}]
Dropped(assigned) == {o \in Order : assigned[o] \in Forbids[o]}
MissedLater(assigned) ==
  \E o \in Dropped(assigned), i, j \in DOMAIN Plants :
    i < j /\ Plants[i] = assigned[o] /\ Restricted(Plants[j]) # {}

(* Forced orders that nobody has planned get an equipment.                  *)
WithForced(assigned) ==
  {a \in [Order -> Equipment \cup {None}] : \A o \in Order :
     IF o \in Forced /\ assigned[o] = None /\ Allowed[o] # {} THEN a[o] \in Allowed[o] ELSE a[o] = assigned[o]}

(* optimize_lots: every equipment anew.                                     *)
Plannings(assigned) ==
  LET sequences == [e \in Equipment |-> Sequences[At(assigned, e)]]
  IN {r \in [Equipment -> UNION Range(sequences)] : \A e \in Equipment : r[e] \in sequences[e]}

Begin ==
  /\ pc = "start"
  /\ \E withForced \in WithForced(start) :
       IF MissedLater(withForced)
       THEN pc' = "failed" /\ UNCHANGED <<rows, open>>
       ELSE LET assigned == Restrict(withForced, Order \ Dropped(withForced)) IN
            pc' = "search" /\ open' = At(assigned, None) /\ rows' \in Plannings(assigned)
  /\ forbidden' = Forbids
  /\ UNCHANGED <<start, finalTsp, tabu, steps, past>>

-----------------------------------------------------------------------------
(* _get_swaps: the moves of an order that are not tabu.                     *)
Targets(o) ==
  (Allowed[o] \ forbidden[o]) \cup IF Place(o) # None /\ o \notin Forced THEN {None} ELSE {}
Swaps(orders) ==
  UNION {{[order |-> o, from |-> Place(o), to |-> e] : e \in Targets(o) \ {Place(o)}} : o \in orders}
NotTabu(swaps) == swaps \ DOMAIN tabu

(* The orders of the planning are dealt out to the workers, as they are     *)
(* listed; any order of the list may occur.                                 *)
Shares ==
  {worker \in [Planned -> 1 .. NParallel] :
     \A i, j \in 1 .. NParallel :
       i < j => Cardinality(At(worker, i)) - Cardinality(At(worker, j)) \in {0, 1}}

(* A swap evaluated with the solver: both equipments are sequenced anew.    *)
SolvedSwap(m) ==
  LET assigned == [Assignments EXCEPT ![m.order] = m.to]
      sequences == [e \in Equipment |-> IF e \in {m.from, m.to} THEN Sequences[At(assigned, e)] ELSE {rows[e]}]
  IN {r \in [Equipment -> UNION Range(sequences)] : \A e \in Equipment : r[e] \in sequences[e]}

(* _eval_dummy_swap: the order is inserted where it costs least, at any     *)
(* place, and removed where it was; lots change where they did, except at   *)
(* the order itself.                                                        *)
InsertedIntoLot(row, o, place) ==
  LET route == InsertAt(Route(row), place, o)
      startsLot == [i \in DOMAIN route |->
                      IF i = place THEN i > 1 /\ <<route[i - 1], route[i]>> \in Prohibitive
                      ELSE Changes(row, IF i < place THEN i ELSE i - 1)]
  IN Numbered(route, startsLot)
Inserted(row, o, place) ==
  LET route == InsertAt(Route(row), place, o)
      startsLot == [i \in DOMAIN route |->
                      IF i \in {place, place + 1} THEN i > 1 /\ <<route[i - 1], route[i]>> \in Prohibitive
                      ELSE Changes(row, IF i < place THEN i ELSE i - 1)]
  IN IF row = <<>> THEN <<[order |-> o, lot |-> 1, idx |-> 1]>> ELSE Numbered(route, startsLot)
Removed(row, o) ==
  LET place == CHOOSE i \in DOMAIN row : row[i].order = o
      route == RemoveAt(Route(row), place)
      startsLot == [i \in DOMAIN route |->
                      IF i = place THEN i > 1 /\ <<route[i - 1], route[i]>> \in Prohibitive
                      ELSE Changes(row, IF i < place THEN i ELSE i + 1)]
  IN Numbered(route, startsLot)
DummySwap(m) ==
  {[e \in Equipment |-> IF e = m.to THEN Inserted(rows[e], m.order, place)
                        ELSE IF e = m.from THEN Removed(rows[e], m.order) ELSE rows[e]] :
     place \in IF m.to = None THEN {1} ELSE 1 .. Len(rows[m.to]) + 1}

(* The last solver run of a worker, if its best candidate was not solved in *)
(* time: where it finds other lots it compares the candidate with a         *)
(* planning that has no order assigned.                                     *)
LotsMayDiffer(newRows) ==
  \E e \in Equipment : \E row \in Sequences[OrdersOf(newRows[e])] : LotsOf(row) # LotsOf(newRows[e])

(* A worker without a swap fails.                                           *)
WorkerFails(worker) == \E w \in 1 .. NParallel : NotTabu(Swaps(At(worker, w))) = {}
WayBack(m) == [m EXCEPT !.from = m.to, !.to = m.from]
(* The expirations count down and the move and its way back are added; one  *)
(* that is still in the list keeps its expiration.                          *)
Aged == LET kept == {m \in DOMAIN tabu : tabu[m] > 1} IN [m \in kept |-> tabu[m] - 1]
AddTo(list, moves, expiration) ==
  [m \in DOMAIN list \cup moves |-> IF m \in DOMAIN list THEN list[m] ELSE expiration]
TabuAfter(m) == AddTo(Aged, {m, WayBack(m)}, Expiration)

(* The budget of its worker decides how the best move was evaluated.        *)
Steps(worker) ==
  IF WorkerFails(worker) THEN {}
  ELSE UNION {LET swaps == NotTabu(Swaps(At(worker, w)))
              IN {[move |-> m, solved |-> MaxTsps > 0, dummy |-> Cardinality(swaps) > MaxTsps] : m \in swaps} :
                w \in 1 .. NParallel}
NextSteps == UNION {Steps(worker) : worker \in Shares}
Candidates(step) ==
  (IF step.solved THEN SolvedSwap(step.move) ELSE {}) \cup IF step.dummy THEN DummySwap(step.move) ELSE {}

(* The best candidate becomes the current planning.                         *)
Advance ==
  /\ pc = "search" /\ steps < MaxSteps
  /\ \E step \in NextSteps : LET m == step.move IN
       /\ \E r \in Candidates(step) :
            \/ rows' = r /\ open' = (open \ {m.order}) \cup IF m.to = None THEN {m.order} ELSE {}
            \/ /\ finalTsp /\ LotsMayDiffer(r)
               /\ rows' = [e \in Equipment |-> <<>>] /\ open' = Planned
       /\ tabu' = TabuAfter(m)
       /\ past' = <<m>> \o past
  /\ steps' = steps + 1
  /\ UNCHANGED <<start, finalTsp, pc, forbidden>>

-----------------------------------------------------------------------------
(* _shuffle: orders are taken off their equipments at random, and the gaps  *)
(* filled from those that have none, cheapest first, which may be any; for  *)
(* a gap of five percent of the target or less none is taken.  Only for     *)
(* forced orders the probability is zero.                                   *)
MayLeave == (Planned \ open) \ Forced
Gap(removed, e) == Target[e] - Total(OrdersOf(rows[e]) \ removed)
IsGap(weight, e) == 20 * weight > Target[e]
MayFill(removed, o, e) ==
  /\ o \in open \cup removed
  /\ e \in Allowed[o]
  /\ ~(o \in removed /\ o \in OrdersOf(rows[e]))
Refills(removed) ==
  {fill \in [open \cup removed -> Equipment \cup {None}] :
     /\ \A o \in DOMAIN fill : fill[o] # None => MayFill(removed, o, fill[o])
     /\ \A e \in Equipment :
          LET left == Gap(removed, e) - Total(At(fill, e))
          IN /\ ~IsGap(left, e) \/ \A o \in At(fill, None) : ~MayFill(removed, o, e)
             /\ At(fill, e) # {} => \E o \in At(fill, e) : IsGap(left + WeightOf[o], e)}

(* What nobody had before and nobody gets now is dropped from the planning. *)
Shuffled(removed, fill) ==
  [o \in Planned \ {o \in open : fill[o] = None} |-> IF o \in DOMAIN fill THEN fill[o] ELSE Place(o)]

Shuffle ==
  /\ pc = "search" /\ steps < MaxSteps
  /\ \E m \in {step.move : step \in NextSteps}, removed \in SUBSET MayLeave :
       /\ \E fill \in Refills(removed) :
            open' = At(Shuffled(removed, fill), None) /\ rows' \in Plannings(Shuffled(removed, fill))
       /\ tabu' = AddTo(TabuAfter(m), {[order |-> o, from |-> Place(o), to |-> None] : o \in removed},
                        ExpirationAfterShuffle)
  /\ steps' = steps + 1 /\ past' = <<>>
  /\ UNCHANGED <<start, finalTsp, pc, forbidden>>

(* BestN sets an attribute of the best solution it has not found.           *)
Fail ==
  /\ pc = "search" /\ steps < MaxSteps
  /\ \E worker \in Shares : WorkerFails(worker)
  /\ pc' = "failed"
  /\ UNCHANGED <<start, finalTsp, rows, open, forbidden, tabu, steps, past>>

Init ==
  /\ start \in Starts
  /\ finalTsp \in BOOLEAN
  /\ pc = "start" /\ rows = [e \in Equipment |-> <<>>] /\ open = {}
  /\ forbidden = [o \in Order |-> {}]
  /\ tabu = <<>>
  /\ steps = 0 /\ past = <<>>

Next == Begin \/ Advance \/ Shuffle \/ Fail
Spec == Init /\ [][Next]_vars

-----------------------------------------------------------------------------
(* Every variable keeps its type.                                           *)
MovesTypeOK ==
  /\ start \in Starts /\ finalTsp \in BOOLEAN
  /\ pc \in {"start", "search", "failed"}
  /\ DOMAIN rows = Equipment /\ \A e \in Equipment : OrdersOf(rows[e]) \subseteq Order
  /\ open \subseteq Order /\ forbidden \in [Order -> SUBSET Equipment]
  /\ DOMAIN tabu \subseteq Move /\ Range(tabu) \subseteq 1 .. Max({Expiration, ExpirationAfterShuffle})
  /\ steps \in 0 .. MaxSteps /\ Len(past) <= steps

(* An order is on one equipment at most, one that may process it or had it  *)
(* at the start; the lots of an equipment are numbered one after the other, *)
(* the orders of a lot from one, and no lot has a transition that is too    *)
(* dear.  (check_solution demands the last two in strict mode.)             *)
PlansAreSound ==
  \A e \in Equipment : LET row == rows[e] IN
    /\ \A f \in Equipment \ {e} : OrdersOf(row) \cap OrdersOf(rows[f]) = {}
    /\ OrdersOf(row) \cap open = {} /\ IsInjective(Route(row))
    /\ \A o \in OrdersOf(row) : e \in Allowed[o] \cup {start[o]}
    /\ \A i \in DOMAIN row :
         IF i = 1 \/ Changes(row, i)
         THEN row[i].idx = 1 /\ (i > 1 => row[i].lot = row[i - 1].lot + 1)
         ELSE row[i].idx = row[i - 1].idx + 1 /\ <<row[i - 1].order, row[i].order>> \notin Prohibitive

(* A forced order of the planning that some equipment may process is not    *)
(* taken off again, unless the solver's last run does so.                   *)
ForcedStayIn ==
  pc = "search" /\ ~finalTsp => \A o \in open \cap Forced : Allowed[o] = {}

(* Between two shuffles no move of the last Expiration ones is repeated;    *)
(* none is undone at once, and before the first shuffle none of these is.   *)
(* After a shuffle the way back may be tabu already: then it keeps the      *)
(* fewer steps it has left.                                                 *)
NoWayBack ==
  \A i, j \in DOMAIN past : i < j /\ j - i <= Expiration =>
    /\ past[i] # past[j]
    /\ past[i] = WayBack(past[j]) => j - i > 1 /\ Len(past) < steps
=============================================================================
