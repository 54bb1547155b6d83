--------------------------- MODULE StartSolutions ---------------------------
(***************************************************************************)
(* The plans a lot creation starts from: the heuristic one, the one by due *)
(* dates and the one of the snapshot (DynReActBase/dynreact/base/          *)
(* LotsOptimizer.py), and what they are said to cost: the status of an     *)
(* equipment, evaluated as a whole and order by order                      *)
(* (SampleUseCase/dynreact/cost/CostCalculatorImpl.py).  The search that   *)
(* goes on from there is in LotMoves and LotCreation.                      *)
(***************************************************************************)
EXTENDS Integers, Sequences, SequencesExt, FiniteSetsExt, Functions, TLC

CONSTANTS
  None,
  Order, Plants,           \* Plants: the equipments of the process, in their order
  Requests,                \* what may be asked for: sets of orders
  AllowedAt, Restricted,   \* [Order -> Seq(Equipment)]; pairs a temporary restriction excludes
  Weight, Targets,         \* of an order; what may be given for the equipments
  Transition, Infinity,    \* [Equipment -> [Order -> [Order -> Nat]]]; costs from Infinity on: inf, NaN
  AssignmentCost, TAllowed,
  ClassOf, ClassTarget,    \* a material category: [Order -> Class], [Class -> Nat]
  Due,                     \* [Order -> Nat, or None]
  SnapshotLots,            \* [Equipment -> Seq([active, orders])], of the snapshot
  Previous                 \* previous_orders: functions from some equipments to orders

Equipment == ToSet(Plants)

StartsAssumption ==
  /\ Requests \subseteq SUBSET Order
  /\ AllowedAt \in [Order -> Seq(Equipment)] /\ Restricted \subseteq Order \X Equipment
  /\ Weight \in [Order -> Nat \ {0}] /\ Targets \subseteq [Equipment -> Nat]
  /\ Transition \in [Equipment -> [Order -> [Order -> Nat]]] /\ AssignmentCost \in [Equipment -> [Order -> Nat]]
  /\ ClassOf \in [Order -> DOMAIN ClassTarget] /\ DOMAIN Due = Order

VARIABLES
  method,    \* "heuristic", "duedate", "snapshot", or "empty": a sequence an agent asks for
  structured, previous, requested,
  phase,     \* "begin", "classes", "fill", "dates", "sequence", "done", or "failed"
  targets,   \* [Equipment -> Nat], given, or the weights of the snapshot's lots
  rows,      \* assignments_by_plant: [Equipment -> Seq(Order)]
  open, left, available, missing,   \* plants, order_objects, the tons by plant
  todo,      \* orders_sorted
  routes,    \* [Equipment -> Seq(Order)], as far as the solver has evaluated it
  status,    \* [Equipment -> status, or None], the status by increments
  lots       \* [Equipment -> Seq(Seq(Order))], the lots of the result

vars == <<method, structured, previous, requested, phase, targets, rows, open, left,
          available, missing, todo, routes, status, lots>>

EquipmentsOf(o) == SelectSeq(AllowedAt[o], LAMBDA e : <<o, e>> \notin Restricted)
MayBeAt(o, e) == e \in ToSet(EquipmentsOf(o))
Tons(orders) == MapThenSumSet(LAMBDA o : Weight[o], orders)
Sum(seq) == FoldLeft(LAMBDA x, y : x + y, 0, seq)
Assigned == UNION {ToSet(rows[e]) : e \in Equipment}
NothingAt == [e \in Equipment |-> <<>>]

-----------------------------------------------------------------------------
(* What a status says of an equipment: evaluate_equipment_assignments with  *)
(* all of its lots, update_transition_costs with one more order.            *)
Distance(x, y) == IF x > y THEN x - y ELSE y - x

(* The status before any order is there.                                    *)
EmptyStatus(target) ==
  [delta |-> target, lots |-> 0, weights |-> <<>>, orders |-> 0, transition |-> 0,
   current |-> None, previous |-> None]

Evaluated(e, target, ls) ==
  LET route == FlattenSeq(ls)
      n == Len(route)
  IN IF n = 0 THEN EmptyStatus(target)
     ELSE [delta |-> Distance(target, Tons(ToSet(route))),
           lots |-> Len(ls),
           weights |-> [i \in DOMAIN ls |-> Tons(ToSet(ls[i]))],
           orders |-> n,
           transition |-> Sum([i \in 1 .. n - 1 |-> Transition[e][route[i]][route[i + 1]]]),
           current |-> route[n],
           previous |-> IF n > 1 THEN route[n - 1] ELSE None]

(* current is None: the first order at an equipment.                        *)
FirstOrder(s, o) ==
  [s EXCEPT !.delta = @ - Weight[o], !.orders = @ + 1, !.lots = @ + 1, !.weights = Append(@, Weight[o]),
            !.current = o, !.previous = None]

Updated(s, e, o, newLot) ==
  [delta |-> s.delta - Weight[o],
   lots |-> IF newLot THEN s.lots + 1 ELSE s.lots,
   weights |-> IF newLot THEN Append(s.weights, Weight[o]) ELSE [s.weights EXCEPT ![s.lots] = @ + Weight[o]],
   orders |-> s.orders + 1,
   transition |-> s.transition + Transition[e][s.current][o],
   current |-> o,
   previous |-> s.current]

NewLot(e, o1, o2) == Transition[e][o1][o2] > TAllowed

(* The lots of a route: a new one where the transition is too dear.         *)
LotsOf(e, route) ==
  LET more(ls, i) == IF i = 1 \/ NewLot(e, route[i - 1], route[i]) THEN Append(ls, <<route[i]>>)
                     ELSE [ls EXCEPT ![Len(ls)] = Append(@, route[i])]
  IN FoldLeft(more, <<>>, [i \in DOMAIN route |-> i])

-----------------------------------------------------------------------------
(* heuristic_solution.                                                      *)
Considered == requested \ Range(previous)

BeginHeuristic ==
  /\ phase = "begin" /\ method = "heuristic"
  /\ left' = Considered
  /\ open' = Equipment
  /\ available' = [e \in Equipment |-> Tons({o \in Considered : MayBeAt(o, e)})]
  /\ missing' = targets
  /\ phase' = "classes"
  /\ UNCHANGED <<method, structured, previous, requested, targets, rows, todo, routes, status, lots>>

(* Orders of the classes that make up a quarter of the targets: each goes to*)
(* the free equipment with the highest target, those with the fewest        *)
(* equipments first.                                                        *)
Relevant == {c \in DOMAIN ClassTarget :
               4 * ClassTarget[c] >= MapThenSumSet(LAMBDA d : ClassTarget[d], DOMAIN ClassTarget)}

OneOfEach ==
  LET ofClass(c) == {o \in left : ClassOf[o] = c}
  IN {chosen \in SUBSET left : /\ \A c \in Relevant : Cardinality(chosen \cap ofClass(c)) = Min({1, Cardinality(ofClass(c))})
                               /\ \A o \in chosen : ClassOf[o] \in Relevant}

Free(starts, o) == {e \in Equipment \ DOMAIN starts : MayBeAt(o, e)}

FewestFirst(s) == \A i, j \in DOMAIN s : i < j => Cardinality(Free(<<>>, s[i])) <= Cardinality(Free(<<>>, s[j]))

PlaceStart(starts, o) ==
  IF Free(starts, o) = {} THEN starts
  ELSE (CHOOSE e \in Free(starts, o) : \A f \in Free(starts, o) : targets[e] >= targets[f]) :> o @@ starts

(* The equipments that are left take the order that is cheapest after the   *)
(* previous one, or the one that is cheapest to have there.                 *)
Costs(e, current, o) ==
  AssignmentCost[e][o] + IF current = None THEN 0 ELSE Transition[e][current][o]

Cheapest(e, current, orders) == {o \in orders : \A p \in orders : Costs(e, current, o) <= Costs(e, current, p)}

AddStart(starts, e) ==
  LET orders == {o \in left \ Range(starts) : MayBeAt(o, e)}
      before == IF e \in DOMAIN previous THEN previous[e] ELSE None
  IN IF e \in DOMAIN starts \/ orders = {} THEN starts
     ELSE e :> (CHOOSE o \in Cheapest(e, before, orders) : TRUE) @@ starts

(* assign_to_plant, for several orders.                                     *)
Assign(placed) ==
  LET orders == Range(placed) IN
  /\ rows' = [e \in Equipment |-> IF e \in DOMAIN placed THEN Append(rows[e], placed[e]) ELSE rows[e]]
  /\ left' = left \ orders
  /\ missing' = [e \in Equipment |-> missing[e] - IF e \in DOMAIN placed THEN Weight[placed[e]] ELSE 0]
  /\ available' = [e \in Equipment |-> available[e] - Tons({o \in orders : MayBeAt(o, e)})]

StartOrders ==
  /\ phase = "classes"
  /\ \E chosen \in IF structured THEN OneOfEach ELSE {{}} :
       \E sorted \in {s \in SetToSeqs(chosen) : FewestFirst(s)} :
         LET starts == FoldLeft(AddStart, FoldLeft(PlaceStart, <<>>, sorted), Plants)
         IN Assign(starts) /\ open' = DOMAIN starts
  /\ phase' = "fill"
  /\ UNCHANGED <<method, structured, previous, requested, targets, todo, routes, status, lots>>

(* The main loop, for the equipment most in need of more orders.  Without a *)
(* finite transition, the message refers to an attribute of a number.       *)
Neediest == {e \in open : \A f \in open : available[e] - missing[e] <= available[f] - missing[f]}

Fill ==
  /\ phase = "fill" /\ open # {} /\ left # {}
  /\ \E e \in Neediest :
       LET current == Last(rows[e])
           applicable == {o \in left : MayBeAt(o, e)}
           finite == {o \in applicable : Transition[e][current][o] < Infinity}
       IN IF available[e] = 0
          THEN open' = open \ {e} /\ UNCHANGED <<rows, left, available, missing, phase>>
          ELSE IF finite = {}
          THEN phase' = "failed" /\ UNCHANGED <<rows, open, left, available, missing>>
          ELSE /\ \E o \in Cheapest(e, current, finite) : Assign(e :> o)
               /\ open' = IF missing'[e] <= 0 THEN open \ {e} ELSE open
               /\ UNCHANGED phase
  /\ UNCHANGED <<method, structured, previous, requested, targets, todo, routes, status, lots>>

EndFill ==
  /\ phase = "fill" /\ (open = {} \/ left = {})
  /\ phase' = "sequence"
  /\ UNCHANGED <<method, structured, previous, requested, targets, rows, open, left, available, missing,
                 todo, routes, status, lots>>

-----------------------------------------------------------------------------
(* due_dates_solution: the first equipment that still needs something.      *)
BeginDates ==
  /\ phase = "begin" /\ method = "duedate"
  /\ \E s \in SetToSeqs({o \in requested : Due[o] # None}) :
       /\ \A i, j \in DOMAIN s : i < j => Due[s[i]] <= Due[s[j]]
       /\ todo' = s
  /\ phase' = "dates"
  /\ UNCHANGED <<method, structured, previous, requested, targets, rows, open, left, available, missing,
                 routes, status, lots>>

NextDate ==
  /\ phase = "dates" /\ todo # <<>>
  /\ LET o == Head(todo)
         eligible == SelectSeq(EquipmentsOf(o), LAMBDA e : rows[e] = <<>> \/ Tons(ToSet(rows[e])) < targets[e])
     IN rows' = IF eligible = <<>> THEN rows ELSE [rows EXCEPT ![Head(eligible)] = Append(@, o)]
  /\ todo' = Tail(todo)
  /\ UNCHANGED <<method, structured, previous, requested, phase, targets, open, left, available, missing,
                 routes, status, lots>>

EndDates ==
  /\ phase = "dates" /\ todo = <<>>
  /\ phase' = "sequence"
  /\ UNCHANGED <<method, structured, previous, requested, targets, rows, open, left, available, missing,
                 todo, routes, status, lots>>

-----------------------------------------------------------------------------
(* snapshot_solution, without targets of its own: the active lots as they   *)
(* are, which are then the targets, too.                                    *)
ActiveOrders(e) ==
  LET active == SelectSeq(SnapshotLots[e], LAMBDA lot : lot.active)
      orders == [i \in DOMAIN active |-> SelectSeq(active[i].orders, LAMBDA o : o \in requested)]
  IN SelectSeq(orders, LAMBDA s : s # <<>>)

Snapshot ==
  /\ phase = "begin" /\ method = "snapshot"
  /\ lots' = [e \in Equipment |-> ActiveOrders(e)]
  /\ rows' = [e \in Equipment |-> FlattenSeq(ActiveOrders(e))]
  /\ targets' = [e \in Equipment |-> Tons(ToSet(rows'[e]))]
  /\ status' = [e \in Equipment |-> Evaluated(e, targets'[e], lots'[e])]
  /\ routes' = rows'
  /\ phase' = "done"
  /\ UNCHANGED <<method, structured, previous, requested, open, left, available, missing, todo>>

(* An auction knows an equipment by its status: the first order arrives at  *)
(* an empty one.                                                            *)
Empty ==
  /\ phase = "begin" /\ method = "empty"
  /\ \E e \in Equipment :
       /\ rows' = [rows EXCEPT ![e] = SetToSeq({o \in requested : MayBeAt(o, e)})]
       /\ status' = [status EXCEPT ![e] = EmptyStatus(targets[e])]
  /\ phase' = "sequence"
  /\ UNCHANGED <<method, structured, previous, requested, targets, open, left, available, missing, todo,
                 routes, lots>>

-----------------------------------------------------------------------------
(* assign_lots: the solver evaluates routes order by order; the one it      *)
(* returns may be any of them.                                              *)
Unfinished == SelectSeq(Plants, LAMBDA e : Len(routes[e]) < Len(rows[e]))

Sequence ==
  /\ phase = "sequence" /\ Unfinished # <<>>
  /\ LET e == Head(Unfinished)
         route == routes[e]
     IN \E o \in ToSet(rows[e]) \ ToSet(route) :
          /\ routes' = [routes EXCEPT ![e] = Append(route, o)]
          /\ status' = [status EXCEPT ![e] =
                          IF route # <<>> THEN Updated(@, e, o, NewLot(e, Last(route), o))
                          ELSE IF method = "empty" THEN FirstOrder(@, o)
                          ELSE Evaluated(e, targets[e], <<<<o>>>>)]
  /\ UNCHANGED <<method, structured, previous, requested, phase, targets, rows, open, left, available,
                 missing, todo, lots>>

Finish ==
  /\ phase = "sequence" /\ Unfinished = <<>>
  /\ lots' = [e \in Equipment |-> LotsOf(e, routes[e])]
  /\ phase' = "done"
  /\ UNCHANGED <<method, structured, previous, requested, targets, rows, open, left, available, missing,
                 todo, routes, status>>

Init ==
  /\ method \in {"heuristic", "duedate", "snapshot", "empty"}
  /\ structured \in (IF method = "heuristic" THEN BOOLEAN ELSE {FALSE})
  /\ previous \in (IF method \in {"heuristic", "duedate"} THEN Previous ELSE {<<>>})
  /\ requested \in Requests
  /\ phase = "begin" /\ targets \in Targets
  /\ rows = NothingAt /\ routes = NothingAt /\ lots = NothingAt
  /\ status = [e \in Equipment |-> None]
  /\ open = {} /\ left = {} /\ todo = <<>>
  /\ available = [e \in Equipment |-> 0] /\ missing = [e \in Equipment |-> 0]

Next == \/ BeginHeuristic \/ StartOrders \/ Fill \/ EndFill
        \/ BeginDates \/ NextDate \/ EndDates
        \/ Snapshot \/ Empty
        \/ Sequence \/ Finish

Spec == Init /\ [][Next]_vars

-----------------------------------------------------------------------------
StartsTypeOK ==
  /\ requested \in Requests /\ previous \in Previous \cup {<<>>}
  /\ phase \in {"begin", "classes", "fill", "dates", "sequence", "done", "failed"}
  /\ targets \in [Equipment -> Nat]
  /\ \A e \in Equipment : rows[e] \in Seq(requested) /\ routes[e] \in Seq(requested)
  /\ open \subseteq Equipment /\ left \subseteq requested
  /\ available \in [Equipment -> Int] /\ missing \in [Equipment -> Int]

(* However the orders are taken away, what the heuristic believes to be     *)
(* available and missing is what the orders and the equipments say.         *)
TonsAddUp ==
  phase \in {"fill", "failed"} =>
    \A e \in Equipment :
      /\ available[e] = Tons({o \in left : MayBeAt(o, e)})
      /\ missing[e] = targets[e] - Tons(ToSet(rows[e]))

(* An order is planned once, at an equipment it may go to; nobody plans what*)
(* was not asked for, and the heuristic nothing that is produced already.   *)
StartsWhereAllowed ==
  method # "empty" =>
    /\ \A e, f \in Equipment : \A i \in DOMAIN rows[e] : \A j \in DOMAIN rows[f] :
         rows[e][i] = rows[f][j] => e = f /\ i = j
    /\ method # "snapshot" => \A e \in Equipment : \A o \in ToSet(rows[e]) : MayBeAt(o, e)
    /\ method = "heuristic" => Assigned \cap Range(previous) = {} /\ Assigned \cap left = {}

(* No equipment is given an order it does not need any more, except for the *)
(* first two of the heuristic: whether the start order was enough is not    *)
(* asked.                                                                   *)
NothingBeyondTheTarget ==
  method \in {"heuristic", "duedate"} =>
    \A e \in Equipment : Len(rows[e]) > (IF method = "heuristic" THEN 2 ELSE 1) =>
      Tons(ToSet(Front(rows[e]))) < targets[e]

(* The status by increments is that of the lots as a whole, up to the sign  *)
(* of the deviation, unless the first order alone exceeds the target; and   *)
(* the lots of the snapshot meet their own targets.                         *)
Comparable(s) == [s EXCEPT !.delta = Distance(@, 0)]

IncrementsAddUp ==
  /\ \A e \in Equipment :
       (routes[e] # <<>> /\ (method # "empty" => Weight[routes[e][1]] <= targets[e])) =>
         Comparable(status[e]) = Evaluated(e, targets[e], IF phase = "done" THEN lots[e] ELSE LotsOf(e, routes[e]))
  /\ (method = "snapshot" /\ phase = "done") => \A e \in Equipment : status[e].delta = 0

=============================================================================
