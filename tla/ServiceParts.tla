---------------------------- MODULE ServiceParts ----------------------------
(***************************************************************************)
(* Five parts of the service that share no state: the temporary            *)
(* restrictions and the results of the long term planning with the files   *)
(* they are kept in, the plannings the lot search moves through, the pages *)
(* that show its solutions and transfer lots of them, and the snapshot the *)
(* lots are transferred into.  The initial state chooses which of them a   *)
(* behaviour is about; the variables of the others stay None.              *)
(***************************************************************************)
EXTENDS Integers, Sequences

CONSTANTS
  None,
  User,                                                                    \* of restrictions and pages
  Plain, Configurable, Setting, MaxLists,                                  \* of the restrictions
  Session, StartTime, Month, MonthOf, MaxRuns, MaxSecond, MaxRestarts,     \* of the results
  Order, Plants, Starts, Allowed, Slow, Poor, Forced, Prohibitive, WeightOf, Target,
  MinLot, MaxLot, Expiration, ExpirationAfterShuffle, NParallel, MaxTsps,
  MaxSteps,                                                                \* of the search
  Process, Solution, LotId, ProcessOf, Contents, MaxResults, MaxClicks,
  MaxTransfers,                                                            \* of the pages
  LotOrder, LotName, LotEquipment, EquipmentProcess, Material, OrderOf     \* of the snapshot

VARIABLES
  part,
  rules, lists, broken, active, backup, holder, pc, op, saved, committed, copyFailed,
  ltpThread, run, numRuns, second, files, memory, months, ids, session, raced, restarts,
  startAt, finalTsp, movesPc, rows, open, forbidden, tabu, steps, past,
  solVersion, pages, pagesAsked, transferThread, transferAlive, answers, pageTransfers, lostTransfers,
  pageClicks,
  lots, orderLots, positions, matPosition, lotTransfers

varsRules == <<rules, lists, broken, active, backup, holder, pc, op, saved, committed, copyFailed>>
varsLongTerm == <<ltpThread, run, numRuns, second, files, memory, months, ids, session, raced, restarts>>
varsMoves == <<startAt, finalTsp, movesPc, rows, open, forbidden, tabu, steps, past>>
varsPlanning == <<solVersion, pages, pagesAsked, transferThread, transferAlive, answers, pageTransfers,
  lostTransfers, pageClicks>>
varsLots == <<lots, orderLots, positions, matPosition, lotTransfers>>
partsVars == <<part, varsRules, varsLongTerm, varsMoves, varsPlanning, varsLots>>

Rules == INSTANCE Restrictions
LongTerm == INSTANCE LongTermResults
Moves == INSTANCE LotMoves WITH start <- startAt, pc <- movesPc
Planning == INSTANCE LotPlanningPage WITH
  version <- solVersion, page <- pages, asked <- pagesAsked, thread <- transferThread,
  alive <- transferAlive, transfers <- pageTransfers, lost <- lostTransfers, clicks <- pageClicks
Lots == INSTANCE LotTransfer WITH
  Order <- LotOrder, LotId <- LotName, Equipment <- LotEquipment, ProcessOf <- EquipmentProcess,
  transfers <- lotTransfers

ASSUME PartsAssumption ==
  /\ Rules!RestrictionsAssumption /\ LongTerm!ResultsAssumption /\ Moves!MovesAssumption
  /\ Planning!PlanningAssumption /\ Lots!TransferAssumption

NoRules ==
  /\ rules = None /\ lists = None /\ broken = None /\ active = None /\ backup = None
  /\ holder = None /\ pc = None /\ op = None /\ saved = None /\ committed = None
  /\ copyFailed = None
NoLongTerm ==
  /\ ltpThread = None /\ run = None /\ numRuns = None /\ second = None /\ files = None
  /\ memory = None /\ months = None /\ ids = None /\ session = None /\ raced = None
  /\ restarts = None
NoMoves ==
  /\ startAt = None /\ finalTsp = None /\ movesPc = None /\ rows = None /\ open = None
  /\ forbidden = None /\ tabu = None /\ steps = None /\ past = None
NoPlanning ==
  /\ solVersion = None /\ pages = None /\ pagesAsked = None /\ transferThread = None
  /\ transferAlive = None /\ answers = None /\ pageTransfers = None /\ lostTransfers = None
  /\ pageClicks = None
NoLots ==
  /\ lots = None /\ orderLots = None /\ positions = None /\ matPosition = None /\ lotTransfers = None

IsRules == part = "Rules"
IsLongTerm == part = "LongTerm"
IsMoves == part = "Moves"
IsPlanning == part = "Planning"
IsLots == part = "Lots"

PartsInit ==
  \/ part = "Rules" /\ Rules!Init /\ NoLongTerm /\ NoMoves /\ NoPlanning /\ NoLots
  \/ part = "LongTerm" /\ LongTerm!Init /\ NoRules /\ NoMoves /\ NoPlanning /\ NoLots
  \/ part = "Moves" /\ Moves!Init /\ NoRules /\ NoLongTerm /\ NoPlanning /\ NoLots
  \/ part = "Planning" /\ Planning!Init /\ NoRules /\ NoLongTerm /\ NoMoves /\ NoLots
  \/ part = "Lots" /\ Lots!Init /\ NoRules /\ NoLongTerm /\ NoMoves /\ NoPlanning

PartsNext ==
  \/ IsRules /\ Rules!Next /\ UNCHANGED <<part, varsLongTerm, varsMoves, varsPlanning, varsLots>>
  \/ IsLongTerm /\ LongTerm!Next /\ UNCHANGED <<part, varsRules, varsMoves, varsPlanning, varsLots>>
  \/ IsMoves /\ Moves!Next /\ UNCHANGED <<part, varsRules, varsLongTerm, varsPlanning, varsLots>>
  \/ IsPlanning /\ Planning!Next /\ UNCHANGED <<part, varsRules, varsLongTerm, varsMoves, varsLots>>
  \/ IsLots /\ Lots!Next /\ UNCHANGED <<part, varsRules, varsLongTerm, varsMoves, varsPlanning>>

PartsSpec == PartsInit /\ [][PartsNext]_partsVars

-----------------------------------------------------------------------------
(* Whenever the service crashes, the rules it starts with are those of the  *)
(* last completed change or of the one that was under way, unless the last  *)
(* copy onto the active file has failed.                                    *)
CrashKeepsRules == IsRules => Rules!CrashKeepsRules

(* A stored long term solution is listed, also after a restart.             *)
StoredIsListed == IsLongTerm => LongTerm!StoredIsListed

(* Orders are planned once, where they may be, in lots without transitions  *)
(* that are too dear; forced ones are not taken off again, and no move is   *)
(* repeated or undone while it is tabu.                                     *)
MovesAreSound == IsMoves => Moves!PlansAreSound /\ Moves!ForcedStayIn /\ Moves!NoWayBack

(* From the pages that show solutions, the orders are transferred that were *)
(* chosen there, if the solution has not been stored anew since, and the    *)
(* outcome reaches the page that asked for it.  In the snapshot an order is *)
(* then in one lot of a process at most, the one it names, and its material *)
(* has a sequence there.                                                    *)
TransfersAreSound ==
  /\ IsPlanning => Planning!TransfersAreAsChosen /\ Planning!AnswersReachTheirPage
  /\ IsLots => Lots!OrdersKnowTheirLots
=============================================================================
