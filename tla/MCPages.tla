------------------------------ MODULE MCPages -------------------------------
(* The pages of the service, one per behaviour: the initial state chooses   *)
(* it, and the variables of the others stay None.                           *)
EXTENDS Integers, Sequences, TLC

CONSTANTS None, t1, o1, o2, o3, o4, e1, e2, pA, pB, pC

VARIABLES
  part,
  snapshot, process, tab, shown, settings, selectedRows, ordersData, selectedLtp, offered,
  accepted, setpoints, startable, pageRunning, started, asked, clicks, hasty,
  ltpSnapshot, startType, ltpStart, ltpEnd, ltpPeriod, ltpOptions, ltpPrev, ltpStore, prevTargets,
  userTargets, ltpTargets, ltpCapacity, ltpTotal, storageLevels, storageFields, frozenShown, ltpCanStart, ltpBusy,
  ltpBegun, ltpAsked, ltpClicks, ltpHasty,
  filesNow, disk, filesProvider, filesRestarts, tabPage, tabParam, tabStore, tabChanged, tabSelected,
  tabObject, tabFollowing, tabPreceding, tabRecompute, tabOptions, tabClicks, tabComputed, tabWanted,
  blLink, blGlobal, blProcess, blInited, blOptions, blEquipment, blLotOptions, blStartLot, blSnapshot,
  blFields, blStart, blFilters, blRows, blPending, blClicks, blOwn

varsPage == <<snapshot, process, tab, shown, settings, selectedRows, ordersData, selectedLtp, offered,
    accepted, setpoints, startable, pageRunning, started, asked, clicks, hasty>>
varsLtpPage == <<ltpSnapshot, startType, ltpStart, ltpEnd, ltpPeriod, ltpOptions, ltpPrev, ltpStore, prevTargets,
    userTargets, ltpTargets, ltpCapacity, ltpTotal, storageLevels, storageFields, frozenShown, ltpCanStart, ltpBusy,
    ltpBegun, ltpAsked, ltpClicks, ltpHasty>>
varsSelection == <<filesNow, disk, filesProvider, filesRestarts, tabPage, tabParam, tabStore, tabChanged, tabSelected,
    tabObject, tabFollowing, tabPreceding, tabRecompute, tabOptions, tabClicks, tabComputed, tabWanted>>
varsBacklog == <<blLink, blGlobal, blProcess, blInited, blOptions, blEquipment, blLotOptions, blStartLot, blSnapshot,
    blFields, blStart, blFilters, blRows, blPending, blClicks, blOwn>>
vars == <<part, varsPage, varsLtpPage, varsSelection, varsBacklog>>

(* Lots and orders of the backlog.                                          *)
BlLot(id, e, os, to, is, st) == [id |-> id, equipment |-> e, orders |-> os, end |-> to, active |-> is, status |-> st]
BlOrder(at, es, may) == [ids |-> at, at |-> es, allowed |-> may, weight |-> 1]

(* A row of a file of materials.                                            *)
FileRow(o, w, p, e, wide) == [order |-> o, weight |-> w, process |-> p, equipment |-> e, width |-> wide]

(* Two processes of one equipment each, an order for both; four clicks, one *)
(* of which does not wait for the page.                                     *)
PageButtons ==
  {"orders", "next", "init", "remove", "clearStructure", "start", "stop"}
Page == INSTANCE LotCreationPage WITH
  Order <- {o1}, Plant <- {e1, e2}, Process <- {pA, pB}, Snapshot <- {t1},
  PlantsOf <- pA :> {e1} @@ pB :> {e2}, Allowed <- o1 :> {e1, e2}, OrdersOf <- t1 :> {o1}, WithTargets <- {pA},
  Buttons <- PageButtons, MaxClicks <- 4, MaxHasty <- 1,
  rows <- selectedRows,
  memory <- setpoints,
  running <- pageRunning

(* Two snapshots, two stored solutions, five classes in two categories.     *)
LtpPagePeriodOf ==
  [s1 |-> <<0, 4>>, s2 |-> <<1, 2>>]
LtpPagePlanned ==
  [s1 |-> [a |-> 3, b |-> 2, c |-> 3, x |-> 5, y |-> 3], s2 |-> [a |-> 4, x |-> 4]]
LtpPageDone ==
  [d \in {0, 1} \X {1, 2, 3} |-> LET n == d[2] - d[1] IN
  IF n = 0 THEN <<<<>>, <<>>>>
  ELSE <<[a |-> n, x |-> 2 * n, y |-> 0],
  IF d = <<1, 3>> THEN <<>> ELSE [b |-> 2 * n, c |-> 0, x |-> n]>>]
LtpPageCategories ==
  <<{"a", "b", "c"}, {"x", "y"}>>
LtpPageCapacity ==
  [p \in (1 .. 3) \X (2 .. 6) |-> p[2] - p[1]]
LtpPageButtons ==
  {"start", "stop", "half", "fromSnapshot", "clear", "cancel"}
LtpPage == INSTANCE LongTermPage WITH
  Snapshot <- {1, 2}, Days <- {1, 2, 3}, Months <- {3, 6}, Solution <- {"s1", "s2"},
  PeriodOf <- LtpPagePeriodOf, Planned <- LtpPagePlanned, Done <- LtpPageDone, Categories <- LtpPageCategories,
  Capacity <- LtpPageCapacity, Buttons <- LtpPageButtons, MaxClicks <- 2, MaxHasty <- 1,
  snapshot <- ltpSnapshot,
  type <- startType,
  startAt <- ltpStart,
  endAt <- ltpEnd,
  period <- ltpPeriod,
  options <- ltpOptions,
  prev <- ltpPrev,
  store <- ltpStore,
  targets <- ltpTargets,
  capacity <- ltpCapacity,
  total <- ltpTotal,
  levels <- storageLevels,
  fields <- storageFields,
  frozen <- frozenShown,
  canStart <- ltpCanStart,
  busy <- ltpBusy,
  begun <- ltpBegun,
  asked <- ltpAsked,
  clicks <- ltpClicks,
  hasty <- ltpHasty

(* Three files with a time, of which the first cannot be read, and one     *)
(* without; the last is three days after the others.  In half minutes.      *)
SelectionTimeOf ==
  [f0 |-> None, f1 |-> 5, f2 |-> 9, f3 |-> 8649]
SelectionRows ==
  [f0 |-> <<FileRow("a", 1, 1, 1, 3)>>, f1 |-> <<FileRow("a", 1, 3, 1, 3)>>, f3 |-> <<FileRow("c", 1, 1, 1, 5)>>,
  f2 |-> <<FileRow("a", 1, 1, 1, 3), FileRow("b", 1, 1, 2, 7), FileRow("a", 2, 2, 9, 4), FileRow("a", 2, 1, 1, 4)>>]
SelectionClasses ==
  <<[id |-> "n", op |-> "<", value |-> 5], [id |-> "w", op |-> ">=", value |-> 6], [id |-> "e", op |-> "=", value |-> 5]>>
Selection == INSTANCE SnapshotSelection WITH
  File <- {"f0", "f1", "f2", "f3"}, TimeOf <- SelectionTimeOf, Rows <- SelectionRows, Process <- {1, 2},
  Equipment <- {1, 2}, Classes <- SelectionClasses, Clock <- {14, 8654}, Minute <- 2,
  Window <- 20, Day <- 2880, MaxOptions <- 1, MaxRestarts <- 1,
  MaxClicks <- 2, Params <- {8},
  now <- filesNow,
  provider <- filesProvider,
  restarts <- filesRestarts,
  page <- tabPage,
  param <- tabParam,
  store <- tabStore,
  changed <- tabChanged,
  selected <- tabSelected,
  object <- tabObject,
  following <- tabFollowing,
  preceding <- tabPreceding,
  recompute <- tabRecompute,
  options <- tabOptions,
  clicks <- tabClicks,
  computed <- tabComputed,
  wanted <- tabWanted

(* Two snapshots, three processes in a row with four equipments, four       *)
(* orders; the page opened with and without a process in its address.       *)
BacklogProcessIds ==
  pA :> {1} @@ pB :> {2} @@ pC :> {3}
BacklogNextSteps ==
  pA :> {pB} @@ pB :> {pC} @@ pC :> {}
BacklogPlannedLots ==
  10 :> {BlLot("a", 1, {o1}, 12, TRUE, 3), BlLot("b", 2, {o3}, 14, TRUE, 1), BlLot("d", 3, {}, None, TRUE, 1)} @@
  20 :> {BlLot("a", 1, {o1, o2}, 22, TRUE, 3), BlLot("b", 2, {}, 24, TRUE, 3),
  BlLot("c", 2, {o4}, 26, TRUE, 2), BlLot("d", 3, {o2}, 27, FALSE, 2)}
BacklogOrders ==
  10 :> (o1 :> BlOrder({1}, {1}, {1, 2}) @@ o2 :> BlOrder({1}, {1}, {1, 2, 3}) @@
  o3 :> BlOrder({1, 2}, {1, 2}, {2, 3}) @@ o4 :> BlOrder({}, {2}, {2, 3})) @@
  20 :> (o1 :> BlOrder({1}, {1}, {1, 2, 3}) @@ o2 :> BlOrder({1, 2}, {}, {2, 3}) @@
  o3 :> BlOrder({2, 3}, {4}, {2, 3, 4}) @@ o4 :> BlOrder({9}, {}, {2}))
BacklogOrderEnd ==
  10 :> [o \in {o1, o2, o3, o4} |-> IF o = o1 THEN 11 ELSE None] @@
  20 :> [o \in {o1, o2, o3, o4} |-> IF o = o2 THEN 22 ELSE None]
BacklogTransport ==
  [x \in 1 .. 4 |-> [y \in 1 .. 4 |-> IF y = 2 THEN 1 ELSE 0]]
BacklogOpened ==
  {<<None, 1, None>>, <<pB, 3, pA>>}
Backlog == INSTANCE LotBacklogPage WITH
  Order <- {o1, o2, o3, o4}, Equipment <- 1 .. 4, Process <- {pA, pB, pC}, First <- pA,
  ProcessOf <- <<pA, pB, pB, pC>>, ProcessIds <- BacklogProcessIds, NextSteps <- BacklogNextSteps, Snapshot <- {10, 20},
  PlannedLots <- BacklogPlannedLots, Orders <- BacklogOrders, OrderEnd <- BacklogOrderEnd, Transport <- BacklogTransport,
  Forbidden <- {<<o4, 3>>}, Now <- 21, Typed <- {11}, MaxClicks <- 1,
  Opened <- BacklogOpened,
  link <- blLink,
  global <- blGlobal,
  process <- blProcess,
  inited <- blInited,
  options <- blOptions,
  equipment <- blEquipment,
  lotOptions <- blLotOptions,
  startLot <- blStartLot,
  snapshot <- blSnapshot,
  fields <- blFields,
  start <- blStart,
  filters <- blFilters,
  rows <- blRows,
  pending <- blPending,
  clicks <- blClicks,
  own <- blOwn

ASSUME
  /\ Page!PageAssumption
  /\ LtpPage!LongTermPageAssumption
  /\ Selection!SelectionAssumption
  /\ Backlog!BacklogAssumption

NoPage ==
  /\ snapshot = None /\ process = None /\ tab = None /\ shown = None /\ settings = None
  /\ selectedRows = None /\ ordersData = None /\ selectedLtp = None /\ offered = None /\ accepted = None
  /\ setpoints = None /\ startable = None /\ pageRunning = None /\ started = None /\ asked = None
  /\ clicks = None /\ hasty = None
NoLtpPage ==
  /\ ltpSnapshot = None /\ startType = None /\ ltpStart = None /\ ltpEnd = None /\ ltpPeriod = None
  /\ ltpOptions = None /\ ltpPrev = None /\ ltpStore = None /\ prevTargets = None /\ userTargets = None
  /\ ltpTargets = None /\ ltpCapacity = None /\ ltpTotal = None /\ storageLevels = None /\ storageFields = None
  /\ frozenShown = None /\ ltpCanStart = None /\ ltpBusy = None /\ ltpBegun = None /\ ltpAsked = None
  /\ ltpClicks = None /\ ltpHasty = None
NoSelection ==
  /\ filesNow = None /\ disk = None /\ filesProvider = None /\ filesRestarts = None /\ tabPage = None
  /\ tabParam = None /\ tabStore = None /\ tabChanged = None /\ tabSelected = None /\ tabObject = None
  /\ tabFollowing = None /\ tabPreceding = None /\ tabRecompute = None /\ tabOptions = None /\ tabClicks = None
  /\ tabComputed = None /\ tabWanted = None
NoBacklog ==
  /\ blLink = None /\ blGlobal = None /\ blProcess = None /\ blInited = None /\ blOptions = None
  /\ blEquipment = None /\ blLotOptions = None /\ blStartLot = None /\ blSnapshot = None /\ blFields = None
  /\ blStart = None /\ blFilters = None /\ blRows = None /\ blPending = None /\ blClicks = None
  /\ blOwn = None

IsPage == part = "Page"
IsLtpPage == part = "LtpPage"
IsSelection == part = "Selection"
IsBacklog == part = "Backlog"

Init ==
  \/ part = "Page" /\ Page!Init /\ NoLtpPage /\ NoSelection /\ NoBacklog
  \/ part = "LtpPage" /\ LtpPage!Init /\ NoPage /\ NoSelection /\ NoBacklog
  \/ part = "Selection" /\ Selection!Init /\ NoPage /\ NoLtpPage /\ NoBacklog
  \/ part = "Backlog" /\ Backlog!Init /\ NoPage /\ NoLtpPage /\ NoSelection

Next ==
  \/ IsPage /\ Page!Next /\ UNCHANGED <<part, varsLtpPage, varsSelection, varsBacklog>>
  \/ IsLtpPage /\ LtpPage!Next /\ UNCHANGED <<part, varsPage, varsSelection, varsBacklog>>
  \/ IsSelection /\ Selection!Next /\ UNCHANGED <<part, varsPage, varsLtpPage, varsBacklog>>
  \/ IsBacklog /\ Backlog!Next /\ UNCHANGED <<part, varsPage, varsLtpPage, varsSelection>>

Spec == Init /\ [][Next]_vars

-----------------------------------------------------------------------------
(* Every variable keeps its type.                                           *)
PagesTypeOK ==
  /\ IsBacklog => Backlog!BacklogTypeOK
  /\ IsSelection => Selection!SelectionTypeOK
  /\ IsLtpPage => LtpPage!LongTermPageTypeOK
  /\ IsPage => Page!PageTypeOK
(* However the callbacks interleave with the clicks: a run is started for   *)
(* the process that is shown, with targets at its equipments and orders, and*)
(* a page without callbacks left to run is in step with its process.        *)
(* On the page of the long term planning, the period, the targets left of a *)
(* previous solution and the levels are in step, and these targets are what *)
(* is missing.                                                              *)
(* A tab shows the snapshot that was chosen last, the buttons lead to its   *)
(* neighbours, and its orders are those of the rows of its file.            *)
(* The order backlog is that of the equipment, the lot and the snapshot that*)
(* are selected, and what is available in it can be started.                *)
PagesAreSound ==
  /\ IsPage => Page!StartsAreSound /\ Page!QuietPageIsConsistent
  /\ IsLtpPage => LtpPage!QuietPeriodIsConsistent /\ LtpPage!RemainingAddsUp
  /\ IsBacklog => Backlog!QuietBacklogIsConsistent /\ Backlog!AvailableCanStart
  /\ IsSelection => /\ Selection!TabShowsTheChoice /\ Selection!ButtonsLeaveNoneOut
                   /\ Selection!ShownIsOffered /\ Selection!ListingKeepsItsFiles /\ Selection!OrdersAddUp
=============================================================================
