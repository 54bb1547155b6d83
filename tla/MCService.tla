----------------------------- MODULE MCService ------------------------------
(* Parts of the service and of the base package that share no state with    *)
(* one another, those of ServiceParts among them.  The initial state        *)
(* chooses which of them a behaviour is about; the variables of the others  *)
(* stay None.                                                               *)
EXTENDS ServiceParts, TLC

CONSTANTS u1, u2, plainRule, ruleWithSettings, t1, month, o1, o2, o3, o4, m1, m2, m3, m4, e1, e2, e3, pA, pB, l1, l2

VARIABLES
  aggNow, aggSnapshots, aggUp, aggAt, todo, closing, storing, lastProd, lastStg,
  aggCache, compare, aggFiles, aggStored, aggAsked, crashes, failures,
  frozen, phase, checks, interrupted, flow, level, shift, atProcess, openProcesses,
  delta, inLevel, allocated, inFlows, levels,
  method, structured, previous, requested, startPhase, startTargets, startRows, openPlants, ordersLeft,
  available, missing, byDueDate, routes, status, startLots,
  avFiles, avCache, avReading, calendars, clearing, savedHours, mixed, overtaken, saves,
  targetsNow, laterLots, materialAt, laterTargets, exactTargets,
  eligNow, eligLots, lotsOfOrders, ordersAt, orderStatus, ruleSettings, configures,
  byPlanner, participating, nmaterials, matype, clones, assignments, reported, stage,
  width, factor, ensemble, starts, search, turn, start, bestRoute, timeout,
  finished

varsAggregation == <<aggNow, aggSnapshots, aggUp, aggAt, todo, closing, storing, lastProd, lastStg,
    aggCache, compare, aggFiles, aggStored, aggAsked, crashes, failures>>
varsAllocation == <<frozen, phase, checks, interrupted, flow, level, shift, atProcess, openProcesses,
    delta, inLevel, allocated, inFlows, levels>>
varsInitial == <<method, structured, previous, requested, startPhase, startTargets, startRows, openPlants, ordersLeft,
    available, missing, byDueDate, routes, status, startLots>>
varsAvailable == <<avFiles, avCache, avReading, calendars, clearing, savedHours, mixed, overtaken, saves>>
varsDerived == <<targetsNow, laterLots, materialAt, laterTargets, exactTargets>>
varsEligible == <<eligNow, eligLots, lotsOfOrders, ordersAt, orderStatus, ruleSettings, configures>>
varsAuctions == <<byPlanner, participating, nmaterials, matype, clones, assignments, reported, stage>>
varsSequence == <<width, factor, ensemble, starts, search, turn, start, bestRoute, timeout,
    finished>>
vars == <<partsVars, varsAggregation, varsAllocation, varsInitial, varsAvailable, varsDerived, varsEligible, varsAuctions, varsSequence>>

(* Two sessions, two runs, one restart of the service.                      *)
LongTermMonthOf ==
  t1 :> month

(* Two equipments of one process and one of another, and two orders.        *)
LotsOrderOf ==
  m1 :> o1 @@ m2 :> o1
LotsEquipmentProcess ==
  e1 :> pA @@ e2 :> pA @@ e3 :> pB

(* Three orders, one of them forced, on two equipments, one of which is     *)
(* poor at an order.                                                        *)
MovesPlants ==
  <<e1, e2>>
MovesStarts ==
  {o1 :> e2 @@ o2 :> None @@ o3 :> e1,
  o1 :> e1 @@ o2 :> e2 @@ o3 :> e2, o1 :> None @@ o2 :> e1 @@ o3 :> None}
MovesAllowed ==
  o1 :> {e1, e2} @@ o2 :> {e1, e2} @@ o3 :> {e1}
MovesSlow ==
  e1 :> {o2} @@ e2 :> {o1}
MovesPoor ==
  e1 :> {o2} @@ e2 :> {}
MovesProhibitive ==
  {<<o2, o1>>}
MovesWeightOf ==
  o1 :> 3 @@ o2 :> 3 @@ o3 :> 2
MovesTarget ==
  e1 :> 6 @@ e2 :> 4

(* Two pages of the same users on a solution that is improved once.         *)
PlanningProcessOf ==
  [s1 |-> pA]
PlanningContents ==
  [s1 |-> <<l1 :> {o1, o2}, l1 :> {o1, o3}>>]

(* Two levels, five units of time with snapshots in some of them, two       *)
(* orders, one of which gains weight once; a crash and a failed write.      *)
AggregationLength ==
  [long |-> 4, short |-> 2]
AggregationWeight ==
  o1 :> [t \in 0 .. 4 |-> 6 - t] @@ o2 :> [t \in 0 .. 4 |-> IF t = 3 THEN 4 ELSE 5 - t]
AggregationAt ==
  o1 :> [t \in 0 .. 4 |-> IF t < 2 THEN e1 ELSE e2] @@
  o2 :> [t \in 0 .. 4 |-> IF t = 0 THEN None ELSE IF t < 3 THEN e2 ELSE e3]
AggregationUnitOf ==
  pA :> {e1, e2} @@ pB :> {e3}
Aggregation == INSTANCE ProductionAggregation WITH
  Level <- <<"long", "short">>, Length <- AggregationLength, Order <- {o1, o2}, Equipment <- {e1, e2, e3},
  Weight <- AggregationWeight, At <- AggregationAt, Unit <- {pA, pB}, UnitOf <- AggregationUnitOf,
  MaxTime <- 4, MaxCrashes <- 1, MaxFailures <- 1,
  now <- aggNow,
  snapshots <- aggSnapshots,
  up <- aggUp,
  at <- aggAt,
  cache <- aggCache,
  files <- aggFiles,
  stored <- aggStored,
  asked <- aggAsked

(* An equipment that delivers to a storage two others take from, three      *)
(* shifts, an equipment that does not work in one of them, one with a lot.  *)
AllocationProcessOf ==
  e1 :> pA @@ e2 :> pB @@ e3 :> pB
AllocationIn ==
  e1 :> "A" @@ e2 :> "B" @@ e3 :> "B"
AllocationOut ==
  e1 :> "B" @@ e2 :> "DONE" @@ e3 :> "DONE"
AllocationThroughput ==
  e1 :> 1 @@ e2 :> 1 @@ e3 :> 1
AllocationHours ==
  e1 :> <<2, 2, 2>> @@ e2 :> <<2, 0, 2>> @@ e3 :> <<1, 1, 1>>
AllocationFrozenLots ==
  {e1 :> {} @@ e2 :> {} @@ e3 :> {},
  e1 :> {} @@ e2 :> {} @@ e3 :> {[start |-> 0, end |-> 3, weight |-> 1]}}
Allocation == INSTANCE LongTermAllocation WITH
  Equipment <- {e1, e2, e3}, Process <- {pA, pB}, ProcessOf <- AllocationProcessOf, NextSteps <- pA :> {pB} @@ pB :> {},
  Storage <- {"A", "B"}, In <- AllocationIn, Out <- AllocationOut, StorageCapacity <- [A |-> 4, B |-> 4],
  InitialLevel <- [A |-> 2, B |-> 2], Shifts <- 3, Length <- 2, Throughput <- AllocationThroughput,
  Hours <- AllocationHours, FrozenLots <- AllocationFrozenLots,
  process <- atProcess,
  open <- openProcesses

(* Four orders on two equipments, one that restrictions keep off one of     *)
(* them and that has no finite transition at the other.                     *)
InitialRequests ==
  (SUBSET {o1, o2, o3, o4}) \ {{}}
InitialAllowedAt ==
  [o \in {o1, o2, o3, o4} |-> IF o = o3 THEN <<e2, e1>> ELSE <<e1, e2>>]
InitialWeight ==
  o1 :> 2 @@ o2 :> 3 @@ o3 :> 2 @@ o4 :> 1
InitialTargets ==
  {e1 :> 4 @@ e2 :> 2, e1 :> 2 @@ e2 :> 5, e1 :> 1 @@ e2 :> 4}
InitialTransition ==
  e1 :> [o \in {o1, o2, o3, o4} |-> [p \in {o1, o2, o3, o4} |->
  IF o = o4 THEN 9 ELSE IF <<o, p>> \in {<<o1, o2>>, <<o2, o3>>, <<o3, o4>>} THEN 1 ELSE 3]] @@
  e2 :> [o \in {o1, o2, o3, o4} |-> [p \in {o1, o2, o3, o4} |-> IF o = o2 THEN 1 ELSE 2]]
InitialAssignmentCost ==
  e1 :> [o \in {o1, o2, o3, o4} |-> IF o = o4 THEN 0 ELSE 1] @@ e2 :> [o \in {o1, o2, o3, o4} |-> IF o = o2 THEN 2 ELSE 0]
InitialClassOf ==
  [o \in {o1, o2, o3, o4} |-> IF o \in {o1, o2} THEN "a" ELSE "b"]
InitialDue ==
  o1 :> 1 @@ o2 :> 2 @@ o3 :> 2 @@ o4 :> None
InitialSnapshotLots ==
  e1 :> <<[active |-> TRUE, orders |-> <<o2, o1>>], [active |-> TRUE, orders |-> <<o4>>]>> @@
  e2 :> <<[active |-> FALSE, orders |-> <<o3>>]>>
Initial == INSTANCE StartSolutions WITH
  Order <- {o1, o2, o3, o4}, Plants <- <<e1, e2>>, Requests <- InitialRequests, AllowedAt <- InitialAllowedAt,
  Restricted <- {<<o4, e2>>}, Weight <- InitialWeight, Targets <- InitialTargets, Transition <- InitialTransition,
  Infinity <- 9, TAllowed <- 2, AssignmentCost <- InitialAssignmentCost, ClassOf <- InitialClassOf,
  ClassTarget <- [a |-> 5, b |-> 1], Due <- InitialDue, SnapshotLots <- InitialSnapshotLots, Previous <- {<<>>, e1 :> o4},
  phase <- startPhase,
  targets <- startTargets,
  rows <- startRows,
  open <- openPlants,
  left <- ordersLeft,
  todo <- byDueDate,
  lots <- startLots

(* Two pages on two days of two hours, three shifts that cut the days.      *)
AvailablePeriods ==
  {<<0, 1>>, <<1, 2>>, <<0, 2>>}
AvailableShifts ==
  <<[start |-> -1, end |-> 1, work |-> 2], [start |-> 1, end |-> 3, work |-> 2],
  [start |-> 3, end |-> 5, work |-> 0]>>
AvailableOfOthers ==
  {0 :> [start |-> 0, end |-> 2, baseline |-> 1, deltas |-> 1 :> -1],
  1 :> [start |-> 1, end |-> 2, baseline |-> 1, deltas |-> <<>>]}
Available == INSTANCE Availability WITH
  User <- {u1, u2}, Periods <- AvailablePeriods, Full <- 2, Shifts <- AvailableShifts,
  ShiftLimit <- 4, OfOthers <- AvailableOfOthers, MaxSaves <- 2,
  files <- avFiles,
  cache <- avCache,
  reading <- avReading,
  calendar <- calendars,
  saved <- savedHours

(* Two periods, three orders of four materials, one of them in a lot whose  *)
(* class is not planned as much, two rounds of planning.                    *)
DerivedOrderOf ==
  m1 :> o1 @@ m2 :> o1 @@ m3 :> o2 @@ m4 :> o3
DerivedMatWeight ==
  m1 :> 2 @@ m2 :> 2 @@ m3 :> 2 @@ m4 :> 4
DerivedClassesOf ==
  o1 :> {"a", "x"} @@ o2 :> {"b", "x"} @@ o3 :> {"a", "y"}
DerivedSubTargets ==
  <<e1 :> [a |-> 8, b |-> 4, x |-> 8, y |-> 4] @@ e2 :> [a |-> 4, b |-> 0, x |-> 4, y |-> 0],
  e1 :> [a |-> 0, b |-> 4, x |-> 4, y |-> 0]>>
DerivedFirstLots ==
  e1 :> <<[start |-> -1, end |-> 1, status |-> 3, orders |-> <<o3>>]>> @@ e2 :> <<>>
Derived == INSTANCE PlanningTargets WITH
  Equipment <- {e1, e2}, Order <- {o1, o2, o3}, Material <- {m1, m2, m3, m4}, OrderOf <- DerivedOrderOf,
  MatWeight <- DerivedMatWeight, ClassesOf <- DerivedClassesOf, Categories <- {{"a", "b"}, {"x", "y"}}, SubPeriods <- <<<<0, 4>>, <<4, 8>>>>,
  SubTargets <- DerivedSubTargets, Throughput <- e1 :> 1 @@ e2 :> 2, Horizon <- 4, MaxHorizon <- 6,
  NumShifts <- 3, StorageIn <- e1 :> "A" @@ e2 :> "B", FirstLots <- DerivedFirstLots, MaxTime <- 2,
  now <- targetsNow,
  lots <- laterLots,
  at <- materialAt,
  planned <- laterTargets,
  exact <- exactTargets

(* Two processes in a row, the second with two equipments, the second of    *)
(* which takes longer to reach; a rule with parameters and one without.     *)
EligibleProcessOf ==
  e1 :> pA @@ e2 :> pB @@ e3 :> pB
EligibleAllowed ==
  o1 :> {e1, e2, e3} @@ o2 :> {e1, e2}
EligibleAttributes ==
  o1 :> [classes |-> {"a"}, weight |-> 3] @@ o2 :> [classes |-> {"b"}, weight |-> 5, width |-> 1]
EligibleTransport ==
  [x \in {e1, e2, e3} |-> [y \in {e1, e2, e3} |-> IF y = e3 THEN 1 ELSE 0]]
EligibleRuleSeq ==
  <<[equipment |-> {e2, e3}, selectable |-> TRUE, allowed |-> FALSE,
  condition |-> [type |-> "and", conditions |-> <<
  [type |-> "not", base |-> [type |-> "threshold", attr |-> "weight", op |-> ">", values |-> <<<<"param">>>>]],
  [type |-> "list", attr |-> "weight", values |-> <<<<"param">>>>]>>]],
  [equipment |-> {e2}, selectable |-> FALSE, allowed |-> FALSE,
  condition |-> [type |-> "or", conditions |-> <<[type |-> "material", class |-> "a"],
  [type |-> "range", attr |-> "width", values |-> <<<<"value", 0>>, <<"value", 1>>>>]>>]]>>
EligibleInputs ==
  <<{<<4, 3>>, <<4>>}, {<<>>}>>
Eligible == INSTANCE EligibleOrders WITH
  Order <- {o1, o2}, Equipment <- {e1, e2, e3}, Process <- {pA, pB}, ProcessOf <- EligibleProcessOf,
  NextSteps <- pA :> {pB} @@ pB :> {}, Allowed <- EligibleAllowed, Attributes <- EligibleAttributes, Transport <- EligibleTransport,
  Duration <- 1, RuleSeq <- EligibleRuleSeq, Inputs <- EligibleInputs, LotId <- {l1, l2},
  MaxTime <- 2, MaxConfigures <- 1,
  now <- eligNow,
  lots <- eligLots,
  lotOf <- lotsOfOrders,
  at <- ordersAt,
  status <- orderStatus,
  settings <- ruleSettings

(* Two equipments with two materials each, an order that both may process.  *)
AuctionsOrderOf ==
  m1 :> o1 @@ m2 :> o1 @@ m3 :> o2 @@ m4 :> o3
AuctionsAllowed ==
  o1 :> {e1, e2} @@ o2 :> {e1} @@ o3 :> {e2}
AuctionsAt ==
  m1 :> e1 @@ m2 :> e2 @@ m3 :> e1 @@ m4 :> e2
AuctionsStorageOf ==
  m1 :> "A" @@ m2 :> "B" @@ m3 :> "A" @@ m4 :> "A"
Auctions == INSTANCE AuctionSelection WITH
  Equipment <- {e1, e2}, Order <- {o1, o2, o3}, Material <- {m1, m2, m3, m4}, Listed <- <<m1, m2, m3, m4>>,
  OrderOf <- AuctionsOrderOf, Allowed <- AuctionsAllowed, At <- AuctionsAt, StorageOf <- AuctionsStorageOf,
  StorageIn <- e1 :> "A" @@ e2 :> "B", Numbers <- {0, 1, 2}

(* Routes of four orders, with and without a bound, tables of two widths.   *)
Sequence == INSTANCE Sequencing WITH
  N <- 4, Width <- {1, 2}, Factors <- {0, 4}, Batches <- {2},
  best <- bestRoute

ASSUME
  /\ Aggregation!AggregationAssumption
  /\ Allocation!AllocationAssumption
  /\ Initial!StartsAssumption
  /\ Available!AvailabilityAssumption
  /\ Derived!TargetsAssumption
  /\ Eligible!EligibleAssumption
  /\ Auctions!SelectionAssumption
  /\ Sequence!SequencingAssumption

NoAggregation ==
  /\ aggNow = None /\ aggSnapshots = None /\ aggUp = None /\ aggAt = None /\ todo = None
  /\ closing = None /\ storing = None /\ lastProd = None /\ lastStg = None /\ aggCache = None
  /\ compare = None /\ aggFiles = None /\ aggStored = None /\ aggAsked = None /\ crashes = None
  /\ failures = None
NoAllocation ==
  /\ frozen = None /\ phase = None /\ checks = None /\ interrupted = None /\ flow = None
  /\ level = None /\ shift = None /\ atProcess = None /\ openProcesses = None /\ delta = None
  /\ inLevel = None /\ allocated = None /\ inFlows = None /\ levels = None
NoInitial ==
  /\ method = None /\ structured = None /\ previous = None /\ requested = None /\ startPhase = None
  /\ startTargets = None /\ startRows = None /\ openPlants = None /\ ordersLeft = None /\ available = None
  /\ missing = None /\ byDueDate = None /\ routes = None /\ status = None /\ startLots = None
NoAvailable ==
  /\ avFiles = None /\ avCache = None /\ avReading = None /\ calendars = None /\ clearing = None
  /\ savedHours = None /\ mixed = None /\ overtaken = None /\ saves = None
NoDerived ==
  /\ targetsNow = None /\ laterLots = None /\ materialAt = None /\ laterTargets = None /\ exactTargets = None
NoEligible ==
  /\ eligNow = None /\ eligLots = None /\ lotsOfOrders = None /\ ordersAt = None /\ orderStatus = None
  /\ ruleSettings = None /\ configures = None
NoAuctions ==
  /\ byPlanner = None /\ participating = None /\ nmaterials = None /\ matype = None /\ clones = None
  /\ assignments = None /\ reported = None /\ stage = None
NoSequence ==
  /\ width = None /\ factor = None /\ ensemble = None /\ starts = None /\ search = None
  /\ turn = None /\ start = None /\ bestRoute = None /\ timeout = None /\ finished = None

IsAggregation == part = "Aggregation"
IsAllocation == part = "Allocation"
IsInitial == part = "Initial"
IsAvailable == part = "Available"
IsDerived == part = "Derived"
IsEligible == part = "Eligible"
IsAuctions == part = "Auctions"
IsSequence == part = "Sequence"
NoParts == NoRules /\ NoLongTerm /\ NoMoves /\ NoPlanning /\ NoLots

Init ==
  \/ PartsInit /\ NoAggregation /\ NoAllocation /\ NoInitial /\ NoAvailable /\ NoDerived /\ NoEligible /\ NoAuctions /\ NoSequence
  \/ part = "Aggregation" /\ Aggregation!Init /\ NoParts /\ NoAllocation /\ NoInitial /\ NoAvailable /\ NoDerived /\ NoEligible /\ NoAuctions /\ NoSequence
  \/ part = "Allocation" /\ Allocation!Init /\ NoParts /\ NoAggregation /\ NoInitial /\ NoAvailable /\ NoDerived /\ NoEligible /\ NoAuctions /\ NoSequence
  \/ part = "Initial" /\ Initial!Init /\ NoParts /\ NoAggregation /\ NoAllocation /\ NoAvailable /\ NoDerived /\ NoEligible /\ NoAuctions /\ NoSequence
  \/ part = "Available" /\ Available!Init /\ NoParts /\ NoAggregation /\ NoAllocation /\ NoInitial /\ NoDerived /\ NoEligible /\ NoAuctions /\ NoSequence
  \/ part = "Derived" /\ Derived!Init /\ NoParts /\ NoAggregation /\ NoAllocation /\ NoInitial /\ NoAvailable /\ NoEligible /\ NoAuctions /\ NoSequence
  \/ part = "Eligible" /\ Eligible!Init /\ NoParts /\ NoAggregation /\ NoAllocation /\ NoInitial /\ NoAvailable /\ NoDerived /\ NoAuctions /\ NoSequence
  \/ part = "Auctions" /\ Auctions!Init /\ NoParts /\ NoAggregation /\ NoAllocation /\ NoInitial /\ NoAvailable /\ NoDerived /\ NoEligible /\ NoSequence
  \/ part = "Sequence" /\ Sequence!Init /\ NoParts /\ NoAggregation /\ NoAllocation /\ NoInitial /\ NoAvailable /\ NoDerived /\ NoEligible /\ NoAuctions

Next ==
  \/ PartsNext /\ UNCHANGED <<varsAggregation, varsAllocation, varsInitial, varsAvailable, varsDerived, varsEligible, varsAuctions, varsSequence>>
  \/ IsAggregation /\ Aggregation!Next /\ UNCHANGED <<partsVars, varsAllocation, varsInitial, varsAvailable, varsDerived, varsEligible, varsAuctions, varsSequence>>
  \/ IsAllocation /\ Allocation!Next /\ UNCHANGED <<partsVars, varsAggregation, varsInitial, varsAvailable, varsDerived, varsEligible, varsAuctions, varsSequence>>
  \/ IsInitial /\ Initial!Next /\ UNCHANGED <<partsVars, varsAggregation, varsAllocation, varsAvailable, varsDerived, varsEligible, varsAuctions, varsSequence>>
  \/ IsAvailable /\ Available!Next /\ UNCHANGED <<partsVars, varsAggregation, varsAllocation, varsInitial, varsDerived, varsEligible, varsAuctions, varsSequence>>
  \/ IsDerived /\ Derived!Next /\ UNCHANGED <<partsVars, varsAggregation, varsAllocation, varsInitial, varsAvailable, varsEligible, varsAuctions, varsSequence>>
  \/ IsEligible /\ Eligible!Next /\ UNCHANGED <<partsVars, varsAggregation, varsAllocation, varsInitial, varsAvailable, varsDerived, varsAuctions, varsSequence>>
  \/ IsAuctions /\ Auctions!Next /\ UNCHANGED <<partsVars, varsAggregation, varsAllocation, varsInitial, varsAvailable, varsDerived, varsEligible, varsSequence>>
  \/ IsSequence /\ Sequence!Next /\ UNCHANGED <<partsVars, varsAggregation, varsAllocation, varsInitial, varsAvailable, varsDerived, varsEligible, varsAuctions>>

Spec == Init /\ [][Next]_vars

-----------------------------------------------------------------------------
(* Every variable keeps its type.                                           *)
ServiceTypeOK ==
  /\ IsRules => Rules!RestrictionsTypeOK
  /\ IsLongTerm => LongTerm!ResultsTypeOK
  /\ IsLots => Lots!TransferTypeOK
  /\ IsAuctions => Auctions!SelectionTypeOK
  /\ IsEligible => Eligible!EligibleTypeOK
  /\ IsDerived => Derived!TargetsTypeOK
  /\ IsAvailable => Available!AvailabilityTypeOK
  /\ IsInitial => Initial!StartsTypeOK
  /\ IsPlanning => Planning!PlanningTypeOK
  /\ IsAllocation => Allocation!AllocationTypeOK
  /\ IsAggregation => Aggregation!AggregationTypeOK
  /\ IsMoves => Moves!MovesTypeOK
  /\ IsSequence => Sequence!SequencingTypeOK


(* A plan to start from has its orders once, where they may be and until the*)
(* targets are met, and its costs by increments are those of the whole.     *)
(* Lots of orders that are eligible can start as planned, and all who ask   *)
(* agree on what restrictions forbid and which orders are eligible.         *)
(* An auction reports of an order one assignment per equipment, the latest. *)
(* A search for a sequence that is not stopped by its time limit returns a  *)
(* route of the lowest costs, whatever the estimate of its bound cut off.   *)
PlansAreSound ==
  /\ IsInitial => /\ Initial!TonsAddUp /\ Initial!StartsWhereAllowed
                 /\ Initial!NothingBeyondTheTarget /\ Initial!IncrementsAddUp
  /\ IsEligible => /\ Eligible!LotsStartAsPlanned /\ Eligible!MethodsAgree
                  /\ Eligible!RestrictionsAgree /\ Eligible!ParametersReachTheirPlaces
  /\ IsAuctions => Auctions!ReportsAreSound
  /\ IsSequence => Sequence!SequenceIsBest

(* The production on disk counts each step between snapshots once, but for  *)
(* the step a crash between the levels costs, and storages add up to what   *)
(* is stored.                                                               *)
(* Flows moved into whole shifts neither empty a storage nor run ahead of   *)
(* the solution by a shift, and all that was delivered is done.             *)
(* The hours saved for an equipment are those it is planned with, and their *)
(* sum is what the page counts.                                             *)
(* The targets of a lot creation add up, and orders and storages do with    *)
(* them.                                                                    *)
ProductionAddsUp ==
  /\ IsAggregation => Aggregation!ProductionCountedOnce /\ Aggregation!StorageAddsUp
  /\ IsAllocation =>
       /\ Allocation!StoragesNeverRunEmpty /\ Allocation!StaysWithinAShift
       /\ Allocation!FrozenIsKept /\ Allocation!DoneIsDelivered
  /\ IsAvailable => /\ Available!SavedIsPlanned /\ Available!CountedIsPlanned
                   /\ Available!CacheIsFresh
  /\ IsDerived => /\ Derived!MaterialsAddUp /\ Derived!OrdersFollowOneAnother
                 /\ Derived!StoragesHoldTheirMaterial
=============================================================================
