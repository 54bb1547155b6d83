----------------------------- MODULE Sequencing -----------------------------
(***************************************************************************)
(* The order of the orders inside a lot: a travelling salesman problem     *)
(* whose costs depend on the whole way so far, solved by branch and bound, *)
(* for many orders by several searches in turns, each from a start route   *)
(* of its own.                                                             *)
(* (MidTermPlanning/dynreact/lotcreation/globaltsp, LotsOptimizerImpl.py)  *)
(*                                                                         *)
(* A search visits the prefixes of routes in lexicographic order of its    *)
(* own coordinates, in which its start route is the first; where it is, is *)
(* the prefix it has visited last.  The costs of the planning are replaced *)
(* by small ones with the same parts: local transitions, a surcharge that  *)
(* depends on the way, and one that only a complete route has.             *)
(***************************************************************************)
EXTENDS Integers, Sequences, SequencesExt, FiniteSetsExt

CONSTANTS
  None,
  N,        \* number of orders
  Width,    \* what transition costs depend on
  Factors,  \* bound_factor_upcoming_costs, in quarters: 0 is an exact search
  Batches   \* iterations of a search before it is the next one's turn

(* LowerMean is that of the code for up to six orders.                      *)
SequencingAssumption ==
  N \in 4 .. 6 /\ Width \subseteq Nat /\ Factors \subseteq Nat /\ Batches \subseteq Nat \ {0} /\ Batches # {}

VARIABLES
  width,    \* [Node -> Width]
  factor,
  ensemble, \* GlobalSearchDefault, for more than five orders; else GlobalSearchBB
  starts,   \* the start routes, the cheapest first
  search,   \* the searches that are not exhausted, in their order
  turn,     \* whose turn it is
  start,    \* the first round
  best,     \* best route and its costs
  timeout,  \* timeout_reached
  finished

vars == <<width, factor, ensemble, starts, search, turn, start, best, timeout, finished>>

Node == 1 .. N
Routes == {r \in [Node -> Node] : \A i, j \in Node : r[i] = r[j] => i = j}
Unlimited == 1000

-----------------------------------------------------------------------------
(* global_costs and eval_costs.                                             *)
Transition(i, j) == IF width[i] < width[j] THEN 2 * (width[j] - width[i]) ELSE width[i] - width[j]
OfTheSame(route, i) == i > 2 /\ width[route[i]] = width[route[i - 1]] /\ width[route[i]] = width[route[i - 2]]
Additive(route) ==
  MapThenSumSet(LAMBDA i : Transition(route[i - 1], route[i]) + IF OfTheSame(route, i) THEN 1 ELSE 0,
                2 .. Len(route))
Costs(route, isFinal) ==
  Additive(route) + IF isFinal /\ \E i \in Node : width[i] < width[route[1]] THEN 1 ELSE 0

IsFinal(route) == Len(route) = N
OpenItems(route) == Node \ ToSet(route)

(* lower_mean_transition: of the transitions to a node that are not above   *)
(* their median, the mean of the first half; in twelfths.                   *)
Lowest(i, n) ==
  CHOOSE s \in SUBSET (Node \ {i}) :
    Cardinality(s) = n /\ \A j \in s, k \in (Node \ {i}) \ s : Transition(j, i) <= Transition(k, i)
Half == (N + ((N \div 2) % 2)) \div 2
LowerMean(i) == (12 * MapThenSumSet(LAMBDA j : Transition(j, i), Lowest(i, Half))) \div Half

(* The estimate counts the item chosen last as still to come, except where  *)
(* GlobalSearchBB chooses the first one.                                    *)
StillToCome(route) ==
  MapThenSumSet(LowerMean, IF ensemble \/ Len(route) > 1 THEN OpenItems(Front(route)) ELSE OpenItems(route))
Estimate(route) == 48 * Costs(route, FALSE) + factor * StillToCome(route)
TooDear(route, bound) ==
  \/ Costs(route, IsFinal(route)) >= bound
  \/ ~IsFinal(route) /\ factor > 0 /\ Estimate(route) >= 48 * bound

-----------------------------------------------------------------------------
(* The start routes: as the orders are given, of the local solver, which is *)
(* an external one and may return any, and of the nearest neighbours.       *)
PassThrough == [i \in Node |-> i]
Nearest(route) ==
  CHOOSE i \in OpenItems(route) : \A j \in OpenItems(route) :
    LET ci == Costs(Append(route, i), FALSE)  cj == Costs(Append(route, j), FALSE)
    IN ci < cj \/ (ci = cj /\ i <= j)
NearestNeighbour ==
  LET way[k \in 0 .. N] == IF k = 0 THEN <<>> ELSE LET before == way[k - 1] IN Append(before, Nearest(before))
  IN way[N]

(* _BBEnsembleScenario2.__init__: without duplicates, sorted by their costs. *)
InOrder(routes) ==
  LET c(i) == Costs(routes[i], TRUE)
      order == SetToSortSeq(DOMAIN routes, LAMBDA i, j : c(i) < c(j) \/ (c(i) = c(j) /\ i < j))
  IN [i \in DOMAIN routes |-> routes[order[i]]]
FirstOnes(routes) ==
  FoldLeft(LAMBDA acc, r : IF r \in ToSet(acc) THEN acc ELSE Append(acc, r), <<>>, routes)
StartRoutes(local) == InOrder(FirstOnes(<<PassThrough, local, NearestNeighbour>>))

(* A later search only has to look at what begins as its route does and no  *)
(* earlier one looks at.                                                    *)
Overlap(r, s) == Min({i \in Node : r[i] # s[i]}) - 1
Included(routes) ==
  LET length[i \in 1 .. Len(routes)] ==
        IF i = 1 THEN -1
        ELSE Max({Overlap(routes[1], routes[i]) + 1} \cup
                 {Overlap(routes[j], routes[i]) + 1 :
                    j \in {k \in 2 .. (i - 1) : Overlap(routes[k], routes[i]) > length[k]}})
  IN length

-----------------------------------------------------------------------------
(* The next prefix in the order of the start route.                         *)
Rank(s, i) == CHOOSE k \in Node : s.start[k] = i
Later(s, k) == {i \in OpenItems(SubSeq(s.at, 1, k - 1)) : Rank(s, i) > Rank(s, s.at[k])}
FirstOf(s, items) == CHOOSE i \in items : \A j \in items : Rank(s, i) <= Rank(s, j)
Turns(s) == {k \in 1 .. Len(s.at) : Later(s, k) # {}}
TurnAt(s) == IF Turns(s) = {} THEN 0 ELSE Max(Turns(s))
NextPrefix(s) ==
  IF s.deep THEN Append(s.at, FirstOf(s, OpenItems(s.at)))
  ELSE Append(SubSeq(s.at, 1, TurnAt(s) - 1), FirstOf(s, Later(s, TurnAt(s))))

(* The search ends where the prefix it was given begins.                    *)
EndsEarly(s) == TurnAt(s) < s.top /\ TurnAt(s) - 1 <= s.included
Exhausted(s) == ~s.deep /\ (TurnAt(s) = 0 \/ EndsEarly(s))

(* A generator yields when it leaves a loop with its batch done.            *)
LeavesLoop(s) == ~s.deep /\ Len(s.at) > Max({TurnAt(s), s.top})
Yields(s) == LeavesLoop(s) /\ s.done >= s.quota

NewSearch(route, included, bound) ==
  [start |-> route, at |-> route, deep |-> FALSE, top |-> N, included |-> included,
   done |-> 0, quota |-> Max(Batches), bound |-> bound, found |-> None]

Current == search[turn]
Visited(s) ==
  LET prefix == NextPrefix(s)
      final == IsFinal(prefix)
      dear == TooDear(prefix, s.bound)
  IN [s EXCEPT !.at = prefix,
               !.deep = ~final /\ ~dear,
               !.top = Min({@, Len(prefix)}),
               !.done = @ + (IF final THEN 1 ELSE 0) + (IF dear THEN 1 ELSE 0),
               !.bound = IF final /\ ~dear THEN Costs(prefix, TRUE) ELSE @,
               !.found = IF final /\ ~dear THEN prefix ELSE @]

Goes == /\ search # <<>> /\ turn <= Len(search)
        /\ UNCHANGED <<width, factor, ensemble, starts>>

Visit ==
  /\ Goes /\ ~finished /\ ~Exhausted(Current) /\ (ensemble => ~Yields(Current))
  /\ search' = [search EXCEPT ![turn] = Visited(Current)]
  /\ best' = IF ensemble \/ Visited(Current).found = None THEN best
             ELSE [route |-> Visited(Current).found, costs |-> Visited(Current).bound]
  /\ UNCHANGED <<turn, start, timeout, finished>>

(* _BBEnsembleScenario2.find_shortest_path: a search that is resumed is told *)
(* the best costs and how long its turn is; the first turn is from what it  *)
(* was created with.                                                        *)
Better(s) == s.found # None /\ Costs(s.found, TRUE) < best.costs
Take(s) == IF Better(s) THEN [route |-> s.found, costs |-> Costs(s.found, TRUE)] ELSE best

Resumed(s, costs, quota) == [s EXCEPT !.bound = costs, !.done = 0, !.quota = quota, !.found = None]

NextTurn(searches, next) ==
  IF start \/ next > Len(searches) THEN search' = searches
  ELSE \E quota \in Batches : search' = [searches EXCEPT ![next] = Resumed(@, best'.costs, quota)]

Yield ==
  /\ Goes /\ ensemble /\ ~finished /\ ~Exhausted(Current) /\ Yields(Current)
  /\ best' = Take(Current)
  /\ turn' = turn + 1 /\ NextTurn(search, turn + 1)
  /\ UNCHANGED <<start, timeout, finished>>

(* A search that ends yields what it has found, then it is removed.         *)
EndSearch ==
  /\ Goes /\ ensemble /\ ~finished /\ Exhausted(Current)
  /\ best' = Take(Current)
  /\ NextTurn(RemoveAt(search, turn), turn)
  /\ UNCHANGED <<turn, start, timeout, finished>>

NextRound ==
  /\ ensemble /\ ~finished /\ turn > Len(search)
  /\ \/ timeout' = timeout /\ finished' = (search = <<>>)
     \/ timeout' = TRUE /\ finished' = TRUE
  /\ turn' = 1 /\ start' = FALSE /\ best' = best
  /\ IF search = <<>> THEN search' = search
     ELSE \E quota \in Batches : search' = [search EXCEPT ![1] = Resumed(@, best.costs, quota)]
  /\ UNCHANGED <<width, factor, ensemble, starts>>

(* GlobalSearchBB ends with its search, or after a complete route if time   *)
(* is over.                                                                 *)
EndBB ==
  /\ ~ensemble /\ ~finished
  /\ \/ Exhausted(search[1]) /\ UNCHANGED timeout
     \/ IsFinal(search[1].at) /\ timeout' = TRUE
  /\ finished' = TRUE
  /\ UNCHANGED <<width, factor, ensemble, starts, search, turn, start, best>>

-----------------------------------------------------------------------------
InitBB ==
  /\ starts = <<>> /\ best = [route |-> None, costs |-> Unlimited]
  /\ search = <<[NewSearch(PassThrough, -1, Unlimited) EXCEPT !.at = <<>>, !.deep = TRUE, !.top = 1]>>

InitEnsemble ==
  /\ \E local \in Routes : starts = StartRoutes(local)
  /\ best = [route |-> starts[1], costs |-> Costs(starts[1], TRUE)]
  /\ search = [i \in DOMAIN starts |-> NewSearch(starts[i], Included(starts)[i], best.costs)]

Init ==
  /\ width \in [Node -> Width] /\ factor \in Factors
  /\ ensemble \in BOOLEAN
  /\ IF ensemble THEN InitEnsemble ELSE InitBB
  /\ turn = 1 /\ start = TRUE /\ timeout = FALSE /\ finished = FALSE

Next == Visit \/ Yield \/ EndSearch \/ NextRound \/ EndBB

Spec == Init /\ [][Next]_vars

-----------------------------------------------------------------------------
(* Every variable keeps its type.                                           *)
SequencingTypeOK ==
  /\ best.route \in Routes \cup {None} /\ turn \in 1 .. 4
  /\ \A i \in DOMAIN search : search[i].at \in BoundedSeq(Node, N)

(* The route returned is complete and has the costs that are returned with  *)
(* it, it is no worse than any start route, and the best of all if the      *)
(* search is exact and was not cut off; whichever search found it, wherever *)
(* searches were interrupted and resumed.                                   *)
SequenceIsBest ==
  finished =>
    /\ best.route \in Routes /\ best.costs = Costs(best.route, TRUE)
    /\ \A i \in DOMAIN starts : best.costs <= Costs(starts[i], TRUE)
    /\ factor = 0 /\ ~timeout => \A r \in Routes : best.costs <= Costs(r, TRUE)
=============================================================================
