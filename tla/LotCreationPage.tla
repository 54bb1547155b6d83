--------------------------- MODULE LotCreationPage ---------------------------
(***************************************************************************)
(* The page on which a lot creation is prepared and started: its stores    *)
(* and the callbacks that keep them in step.                               *)
(* (DynReActService/dynreact/gui/pages/lot_creation2.py)                   *)
(*                                                                         *)
(* A callback runs when one of its inputs was written, sees which of them  *)
(* were, reads the rest of the page as it finds it, and writes its outputs.*)
(* The scheduling is that of Dash (external): a callback waits while one   *)
(* that writes an input of its is still to run; writes to what it merely   *)
(* reads (its State) do not hold it up.  Clicks may come at any time.      *)
(* Lot ranges, planning start, priorities and the filters of the table are *)
(* left out; every target is one lot.  So are the start from an existing   *)
(* result, append_to_lots and continue: what is started is a new plan.     *)
(***************************************************************************)
EXTENDS Integers, FiniteSets

CONSTANTS
  None,
  Order, Plant, Process, Snapshot,
  PlantsOf,    \* [Process -> its equipments]
  Allowed,     \* [Order -> the equipments it may go to]
  OrdersOf,    \* [Snapshot -> its orders]
  WithTargets, \* the processes with targets to begin with
  Buttons,     \* bound: those that are pressed
  MaxClicks,   \* bound
  MaxHasty     \* bound: clicks while callbacks are still to run

PageAssumption ==
  /\ PlantsOf \in [Process -> SUBSET Plant] /\ Allowed \in [Order -> SUBSET Plant]
  /\ OrdersOf \in [Snapshot -> SUBSET Order] /\ WithTargets \subseteq Process
  /\ {MaxClicks, MaxHasty} \subseteq Nat

VARIABLES
  snapshot, process,  \* the selectors
  tab,
  shown,        \* the equipments with input fields, and which are checked
  settings,     \* lots2-plant-settings: the checked ones, their sum is the target weight
  rows,         \* the orders selected: None or [ids, raw, listed]; raw: not yet reported by the grid
  ordersData,   \* lots2-orders-data: None or [process, snapshot, cnt]
  selectedLtp,  \* process of the long term solution submitted in the dialog
  offered,      \* its structure, as submitted
  accepted,     \* the structure accepted in the dialog
  memory,       \* the structure in effect: None or [of, sum]
  startable,    \* the start button is enabled
  running,      \* process of the lot creator's run
  started,      \* what was started last
  asked,        \* [callback -> the inputs written since it ran]
  clicks, hasty

vars == <<snapshot, process, tab, shown, settings, rows, ordersData, selectedLtp, offered, accepted,
          memory, startable, running, started, asked, clicks, hasty>>

Tabs == {"targets", "orders", "settings"}
TabButtons == Tabs \cup {"prev", "next"}
OrderButtons == {"init", "clear", "add", "remove"}

(* What each callback is declared with.                                     *)
Inputs == [
  selectTab |-> TabButtons \cup {"process"},
  updatePlants |-> {"process", "submit"},
  plantSettings |-> {"plants"},
  activePlants |-> {"settings"},
  structure |-> {"ltp", "weight", "process", "active", "user"},
  clearSetpoints |-> {"process", "clearStructure"},
  updateOrders |-> OrderButtons \cup {"snapshot", "process", "tab"},
  updateBacklog |-> {"snapshot", "process", "rows"},
  processChanged |-> {"tab", "weight", "process", "start", "stop"}]
Outputs == [
  selectTab |-> {"tab"}, updatePlants |-> {"plants", "ltp"},
  plantSettings |-> {"weight", "settings"}, activePlants |-> {"active"},
  structure |-> {}, clearSetpoints |-> {}, updateOrders |-> {"rows"},
  updateBacklog |-> {}, processChanged |-> {}]
Callback == DOMAIN Inputs
Feeding == [c \in Callback |-> {d \in Callback : Outputs[d] \cap Inputs[c] # {}}]

Ready(c) == asked[c] # {} /\ \A d \in Feeding[c] : asked[d] = {}
Asked(before, written) == [c \in Callback |-> before[c] \cup (written \cap Inputs[c])]
Quiet == \A c \in Callback : asked[c] = {}
Click(written) ==
  /\ clicks < MaxClicks /\ clicks' = clicks + 1
  /\ (Quiet \/ hasty < MaxHasty) /\ hasty' = IF Quiet THEN hasty ELSE hasty + 1
  /\ asked' = Asked(asked, written)
Done(c, written) == asked' = Asked([asked EXCEPT ![c] = {}], written) /\ UNCHANGED <<clicks, hasty>>

ShownPlants == {e \in Plant : shown[e] # "absent"}
Checked == {e \in Plant : shown[e] = "on"}
ShownLength(r) == IF r = None THEN 0 ELSE IF r.raw THEN 1 ELSE Cardinality(r.ids)
Weight == Cardinality(settings)

TargetsShown(p) == Checked
(* target_values_from_settings: needs a field for every equipment of the    *)
(* process.                                                                 *)
Targets(p) == IF PlantsOf[p] \subseteq ShownPlants THEN Checked \cap PlantsOf[p] ELSE None

-----------------------------------------------------------------------------
chosen == <<snapshot, process>>
structures == <<selectedLtp, offered, accepted, memory>>
outcome == <<startable, running, started>>

(* The user.                                                                *)
ChooseProcess(p) ==
  /\ p # process /\ running = None
  /\ process' = p /\ Click({"process"})
  /\ UNCHANGED <<snapshot, tab, shown, settings, rows, ordersData, structures, outcome>>

ChooseSnapshot(s) ==
  /\ s # snapshot
  /\ snapshot' = s /\ Click({"snapshot"})
  /\ UNCHANGED <<process, tab, shown, settings, rows, ordersData, structures, outcome>>

Press(button) ==
  /\ button = "start" => startable
  /\ button = "stop" => running # None
  /\ Click({button})
  /\ UNCHANGED <<chosen, tab, shown, settings, rows, ordersData, structures, outcome>>

CheckPlant(e) ==
  /\ e \in ShownPlants /\ shown' = [shown EXCEPT ![e] = IF @ = "on" THEN "off" ELSE "on"]
  /\ Click({"plants"})
  /\ UNCHANGED <<chosen, tab, settings, rows, ordersData, structures, outcome>>

SelectRows(ids) ==
  /\ rows # None /\ ids \subseteq rows.listed /\ ids # rows.ids
  /\ rows' = [rows EXCEPT !.ids = ids, !.raw = FALSE] /\ Click({"rows"})
  /\ UNCHANGED <<chosen, tab, shown, settings, ordersData, structures, outcome>>

(* The dialogs: a row of the long term solutions, which are listed anew for *)
(* every choice (ltp_table_opened, ltp_row_selected), is submitted, and a   *)
(* structure is accepted with the weight of the moment.                     *)
SubmitLtp ==
  /\ process # None /\ selectedLtp' = process /\ Click({"submit"})
  /\ UNCHANGED <<chosen, tab, shown, settings, rows, ordersData, offered, accepted, memory, outcome>>

AcceptStructure ==
  /\ process # None /\ Weight > 0
  /\ accepted' = [of |-> process, sum |-> Weight] /\ Click({"user"})
  /\ UNCHANGED <<chosen, tab, shown, settings, rows, ordersData, selectedLtp, offered, memory, outcome>>

(* The grid reports the selection it was given, of the orders it lists.     *)
ReportRows ==
  /\ rows # None /\ rows.raw
  /\ rows' = [rows EXCEPT !.ids = @ \cap rows.listed, !.raw = FALSE]
  /\ asked' = Asked(asked, {"rows"})
  /\ UNCHANGED <<chosen, tab, shown, settings, ordersData, structures, outcome, clicks, hasty>>

RunEnds ==
  /\ running # None /\ running' = None
  /\ UNCHANGED <<chosen, tab, shown, settings, rows, ordersData, structures, startable, started, asked, clicks, hasty>>

-----------------------------------------------------------------------------
(* Any tab but the one of a button is "targets", also after a change of the *)
(* process.                                                                 *)
NextTab(c, t) ==
  IF c \cap Tabs # {} THEN t \in c \cap Tabs
  ELSE t = IF <<tab, TRUE>> \in {<<"settings", "prev" \in c>>, <<"targets", "next" \in c>>} THEN "orders"
           ELSE IF "next" \in c /\ tab = "orders" THEN "settings" ELSE "targets"

SelectTab ==
  /\ Ready("selectTab") /\ tab' \in Tabs /\ NextTab(asked["selectTab"], tab')
  /\ Done("selectTab", {"tab"})
  /\ UNCHANGED <<chosen, shown, settings, rows, ordersData, structures, outcome>>

(* Fields that are there stay; the others, or all of them after a submitted *)
(* long term solution, are new.                                             *)
UpdatePlants ==
  LET c == asked["updatePlants"]
      initLtp == "submit" \in c /\ selectedLtp # None
      targeted == IF initLtp THEN PlantsOf[selectedLtp] ELSE UNION {PlantsOf[p] : p \in WithTargets}
  IN
  /\ Ready("updatePlants")
  /\ \/ process = None /\ Done("updatePlants", {}) /\ UNCHANGED <<shown, offered>>
     \/ /\ process # None
        /\ shown' = [e \in Plant |->
             IF e \notin PlantsOf[process] THEN "absent"
             ELSE IF shown[e] # "absent" /\ ~initLtp THEN shown[e]
             ELSE IF e \in targeted THEN "on" ELSE "off"]
        /\ IF initLtp
           THEN /\ offered' = [of |-> selectedLtp, sum |-> Cardinality(PlantsOf[selectedLtp])]
                /\ Done("updatePlants", {"plants", "ltp"})
           ELSE Done("updatePlants", {"plants"}) /\ UNCHANGED offered
  /\ UNCHANGED <<chosen, tab, settings, rows, ordersData, selectedLtp, accepted, memory, outcome>>

(* plant_settings_changed0.                                                 *)
PlantSettings ==
  /\ Ready("plantSettings") /\ settings' = Checked
  /\ Done("plantSettings", {"weight", "settings"})
  /\ UNCHANGED <<chosen, tab, shown, rows, ordersData, structures, outcome>>

(* plant_settings_changed: the numbers of the equipments come back as       *)
(* strings, never equal to those kept, and are always written.              *)
ActivePlants ==
  /\ Ready("activePlants") /\ Done("activePlants", {"active"})
  /\ UNCHANGED <<chosen, tab, shown, settings, rows, ordersData, structures, outcome>>

(* ltp_submit.                                                              *)
NewStructure(c) ==
  IF Weight = 0 \/ process = None THEN None
  ELSE IF "process" \notin c /\ "ltp" \in c /\ offered # None THEN offered
  ELSE IF "process" \notin c /\ "user" \in c /\ accepted # None THEN accepted
  ELSE IF "process" \notin c /\ "active" \notin c /\ memory # None THEN [memory EXCEPT !.sum = Weight]
  ELSE memory

Structure ==
  /\ Ready("structure") /\ memory' = NewStructure(asked["structure"])
  /\ Done("structure", {})
  /\ UNCHANGED <<chosen, tab, shown, settings, rows, ordersData, selectedLtp, offered, accepted, outcome>>

Cleared(c) == IF "clearStructure" \in c \/ process # None THEN None ELSE memory

ClearSetpoints ==
  /\ Ready("clearSetpoints") /\ memory' = Cleared(asked["clearSetpoints"])
  /\ Done("clearSetpoints", {})
  /\ UNCHANGED <<chosen, tab, shown, settings, rows, ordersData, selectedLtp, offered, accepted, outcome>>

-----------------------------------------------------------------------------
(* The orders the table lists: those of the snapshot that fit an included   *)
(* equipment.                                                               *)
Included == IF Targets(process) = None THEN {} ELSE Targets(process)
Fitting == {o \in OrdersOf[snapshot] : Allowed[o] \cap Included # {}}
OfOthers == ordersData = None \/ ordersData.process # process \/ ordersData.snapshot # snapshot
OldIds == IF rows = None THEN {} ELSE rows.ids
KeptIds == IF OfOthers THEN {} ELSE OldIds

(* update_orders.  Which orders a method of initialization finds, or are in *)
(* the lots or rows to add or remove, is left open.                         *)
NewIds(c, found) ==
  IF "init" \in c THEN found \cup (KeptIds \cap Fitting)
  ELSE IF "clear" \in c THEN {}
  ELSE IF OfOthers THEN {}
  ELSE IF "remove" \in c THEN OldIds \ found
  ELSE IF "add" \in c THEN OldIds \cup found ELSE OldIds

UpdateOrders ==
  LET c == asked["updateOrders"]
      leftAlone == "tab" \in c /\ tab # "orders"
      changes == c \cap {"init", "add", "remove"} # {}
  IN
  /\ Ready("updateOrders")
  /\ \/ process # None /\ leftAlone /\ Done("updateOrders", {}) /\ UNCHANGED rows
     \/ /\ process # None => ~leftAlone /\ Included = {}
        /\ rows' = None /\ Done("updateOrders", {"rows"})
     \/ /\ process # None /\ ~leftAlone /\ Included # {}
        /\ \E found \in IF changes THEN SUBSET (IF "init" \in c THEN Fitting ELSE OrdersOf[snapshot]) ELSE {{}} :
             rows' = [ids |-> NewIds(c, found), raw |-> TRUE, listed |-> Fitting]
        /\ Done("updateOrders", {"rows"})
  /\ UNCHANGED <<chosen, tab, shown, settings, ordersData, structures, outcome>>

(* update_backlog_state.                                                    *)
UpdateBacklog ==
  /\ Ready("updateBacklog") /\ Done("updateBacklog", {})
  /\ ordersData' = IF process = None THEN None
                   ELSE [process |-> process, snapshot |-> snapshot, cnt |-> ShownLength(rows)]
  /\ UNCHANGED <<chosen, tab, shown, settings, rows, structures, outcome>>

-----------------------------------------------------------------------------
OrdersUnselected == OfOthers \/ ordersData.cnt = 0
MayStart == process # None /\ ~OrdersUnselected /\ ShownPlants # {}

(* What check_start_optimization builds a run of; it fails, with a message, *)
(* without targets, without orders, and with orders it does not find.       *)
StartFails ==
  \/ Targets(process) \in {None, {}}
  \/ rows = None \/ rows.raw \/ rows.ids = {} \/ ~(rows.ids \subseteq OrdersOf[snapshot])

Comparable == memory = None \/ Targets(process) # None
Outdated == memory # None /\ Targets(process) # {} /\ memory.sum # Cardinality(Targets(process))

(* process_changed: stops or starts a run, and says whether one may be      *)
(* started; a warning of an outdated structure does not keep a run from it. *)
(* It raises, and nothing happens, when it compares the structure with      *)
(* fields that are not there.                                               *)
ProcessChanged ==
  LET c == asked["processChanged"]
      runs == running # None /\ "stop" \notin c
      starts == ~runs /\ running = None /\ "start" \in c /\ MayStart /\ ~StartFails
  IN
  /\ Ready("processChanged") /\ Done("processChanged", {})
  /\ \/ process # None /\ ~Comparable /\ UNCHANGED outcome
     \/ /\ process # None => Comparable
        /\ running' = IF starts THEN process ELSE IF runs THEN running ELSE None
        /\ started' = IF starts THEN [process |-> process, plants |-> Targets(process), orders |-> rows.ids,
                                      structure |-> memory]
                      ELSE started
        /\ startable' = (~runs /\ ~starts /\ MayStart /\ ~Outdated /\ ("start" \in c => ~StartFails))
  /\ UNCHANGED <<chosen, tab, shown, settings, rows, ordersData, structures>>

-----------------------------------------------------------------------------
Init ==
  /\ snapshot \in Snapshot /\ process = None /\ tab = "targets"
  /\ shown = [e \in Plant |-> "absent"] /\ settings = {} /\ rows = None /\ ordersData = None
  /\ selectedLtp = None /\ offered = None /\ accepted = None /\ memory = None
  /\ startable = FALSE /\ running = None /\ started = None
  /\ asked = [c \in Callback |-> {}] /\ clicks = 0 /\ hasty = 0

Next ==
  \/ \E p \in Process : ChooseProcess(p)
  \/ \E s \in Snapshot : ChooseSnapshot(s)
  \/ \E b \in Buttons : Press(b)
  \/ \E e \in Plant : CheckPlant(e)
  \/ \E ids \in SUBSET Order : SelectRows(ids)
  \/ SubmitLtp \/ AcceptStructure \/ ReportRows \/ RunEnds
  \/ SelectTab \/ UpdatePlants \/ PlantSettings \/ ActivePlants \/ Structure \/ ClearSetpoints
  \/ UpdateOrders \/ UpdateBacklog \/ ProcessChanged

Spec == Init /\ [][Next]_vars

-----------------------------------------------------------------------------
(* Every variable keeps its type.                                           *)
PageTypeOK ==
  /\ snapshot \in Snapshot /\ process \in Process \cup {None} /\ tab \in Tabs
  /\ shown \in [Plant -> {"absent", "off", "on"}] /\ settings \subseteq Plant
  /\ rows # None => rows.ids \subseteq Order /\ rows.raw \in BOOLEAN /\ rows.listed \subseteq Order
  /\ {selectedLtp, running} \subseteq Process \cup {None} /\ startable \in BOOLEAN
  /\ \A c \in Callback : asked[c] \subseteq Inputs[c]
  /\ clicks \in 0 .. MaxClicks /\ hasty \in 0 .. MaxHasty

(* What is started is a run of the process that is shown: targets at its    *)
(* equipments, and orders.                                                  *)
StartsAreSound ==
  started # None => /\ started.plants # {} /\ started.plants \subseteq PlantsOf[started.process]
                    /\ started.orders # {}

(* Whatever was clicked in between: once no callback is left to run, the    *)
(* fields, the count of orders and the structure are those of the process.  *)
QuietPageIsConsistent ==
  Quiet /\ process # None =>
    /\ ShownPlants = PlantsOf[process] /\ settings = Checked
    /\ ordersData = [process |-> process, snapshot |-> snapshot, cnt |-> ShownLength(rows)]
    /\ memory # None => memory.of = process
=============================================================================
