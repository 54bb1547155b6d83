---------------------------- MODULE LotBacklogPage ----------------------------
(***************************************************************************)
(* The page of the order backlog (gui/pages/lot_backlog.py), and the       *)
(* process that is shared between pages (gui/dash_app.py,                  *)
(* gui/gui_utils.py): which orders could be processed at an equipment from *)
(* a start time on, usually the end of one of its lots.  Each callback is  *)
(* a step of its own that is outstanding after a change of its inputs.     *)
(***************************************************************************)
EXTENDS Integers, FiniteSets, FiniteSetsExt

CONSTANTS
  None, Order, Equipment, Process,
  First,       \* the first process of the site
  ProcessOf, ProcessIds, NextSteps, \* of an equipment, of processes
  Snapshot,    \* times
  PlannedLots, \* [Snapshot -> set of [id, equipment, orders, end, active, status]]
  Orders,      \* [Snapshot -> [Order -> [ids, at, allowed, weight]]]
  OrderEnd,    \* when an order is through its previous lot, where it is known
  Transport, Forbidden, \* <<order, equipment>> by temporary restrictions
  Now, Typed, MaxClicks,
  Opened       \* set of <<process, equipment, process shared by other pages>>

BacklogAssumption ==
  /\ First \in Process /\ Snapshot \subseteq Nat /\ Equipment \subseteq Nat
  /\ \A e \in Equipment : ProcessOf[e] \in Process
  /\ \A s \in Snapshot : \A l, k \in PlannedLots[s] : l.id = k.id => l = k
  /\ Opened \subseteq (Process \cup {None}) \X Equipment \X (Process \cup {None})
  /\ \A o \in Opened : o[1] # None => ProcessOf[o[2]] = o[1]
  \* an order is in one lot of a process at most
  /\ \A s \in Snapshot : \A l, k \in PlannedLots[s] : ProcessOf[l.equipment] = ProcessOf[k.equipment] /\ l.orders \cap k.orders # {} => l = k

VARIABLES
  link,        \* process of the address
  global,      \* selected-process
  process, inited, \* of the page's selector, which is filled once
  options, equipment,
  lotOptions, startLot,
  snapshot, fields, start, \* fields: date and time, start: their store
  filters,
  rows,        \* [order, available, weight]
  pending, clicks,
  own          \* (observed) the fields are the user's

page == <<link, global, process, inited, options, equipment, lotOptions, startLot, snapshot, fields, start, filters, rows, pending, clicks, own>>

-----------------------------------------------------------------------------
Earlier(p) ==
  LET before[n \in Nat] == IF n = 0 THEN {p} ELSE before[n - 1] \cup {q \in Process : NextSteps[q] \cap before[n - 1] # {}}
  IN before[Cardinality(Process)] \ {p}
Later(p) ==
  LET after[n \in Nat] == IF n = 0 THEN {p} ELSE after[n - 1] \cup UNION {NextSteps[q] : q \in after[n - 1]}
  IN after[Cardinality(Process)] \ {p}
Ids(ps) == UNION {ProcessIds[p] : p \in ps}
EquipmentOf(p) == {e \in Equipment : ProcessOf[e] = p}

LotsWith(s, o, ps) == {l \in PlannedLots[s] : o \in l.orders /\ ProcessOf[l.equipment] \in ps}
StartLots(s, e) == {l \in PlannedLots[s] : l.equipment = e /\ l.active /\ l.end # None}
Known(x, default) == IF x = None THEN default ELSE x

-----------------------------------------------------------------------------
(* data_for_order: where the material of an order is, by the ids of its     *)
(* processes, or by its equipment when they say nothing.                    *)
Stages(s, o, p) ==
  LET ids == Orders[s][o].ids
      byId == [here |-> ids \cap ProcessIds[p] # {}, before |-> ids \cap Ids(Earlier(p)) # {},
               after |-> ids \cap (Ids(Later(p)) \ (Ids(Earlier(p)) \cup ProcessIds[p])) # {}]
      at == {ProcessOf[e] : e \in Orders[s][o].at}
  IN IF byId.here \/ byId.before \/ byId.after THEN byId
     ELSE [here |-> p \in at, before |-> at \cap Earlier(p) # {}, after |-> at \cap Later(p) # {}]

(* When an order leaves its lot of an immediately preceding process; times  *)
(* of transport only count where the times of the order are known.          *)
LeavesAt(s, o, e) ==
  LET ls == LotsWith(s, o, {q \in Earlier(ProcessOf[e]) : ProcessOf[e] \in NextSteps[q]})
      l == CHOOSE l \in ls : TRUE
  IN IF ls = {} THEN None
     ELSE IF OrderEnd[s][o] # None THEN OrderEnd[s][o] + Transport[l.equipment][e] ELSE l.end

(* Whether the order can be processed; the reason is left out.              *)
Available(s, o, e, t) ==
  LET stages == Stages(s, o, ProcessOf[e])
      current == LotsWith(s, o, {ProcessOf[e]})
  IN /\ ~ stages.after /\ e \in Orders[s][o].allowed
     /\ \A l \in current : ~ l.active /\ l.status <= 1
     /\ <<o, e>> \notin Forbidden
     /\ IF stages.before /\ LeavesAt(s, o, e) # None THEN LeavesAt(s, o, e) <= t ELSE stages.here

Shown(s, e, fs) ==
  {o \in Order : /\ "notApplicable" \in fs \/ e \in Orders[s][o].allowed
                 /\ "unknown" \in fs \/ Orders[s][o].at # {}
                 /\ "later" \in fs \/ ~ Stages(s, o, ProcessOf[e]).after}

Table ==
  IF equipment = None \/ snapshot = None \/ start = None THEN {}
  ELSE {[order |-> o, available |-> Available(snapshot, o, equipment, start), weight |-> Orders[snapshot][o].weight] : o \in Shown(snapshot, equipment, filters)}

-----------------------------------------------------------------------------
(* Callbacks.  process_params_changed: the page's choice, the address, what *)
(* was selected before, or the first process.                               *)
ShareProcess ==
  /\ "global" \in pending /\ pending' = pending \ {"global"}
  /\ global' = IF process # None THEN process ELSE IF link # None THEN link ELSE Known(global, First)
  /\ UNCHANGED <<link, process, inited, options, equipment, lotOptions, startLot, snapshot, fields, start, filters, rows, clicks, own>>

SetProcess(p) == process' = p /\ inited' = TRUE /\ pending' = pending \cup {"equipment", "global"}

InitProcess ==
  /\ ~ inited /\ global # None
  /\ SetProcess(Known(process, global))
  /\ UNCHANGED <<link, global, options, equipment, lotOptions, startLot, snapshot, fields, start, filters, rows, clicks, own>>

Follow(done, changes, next) == pending' = (pending \ {done}) \cup IF changes THEN next ELSE {}

(* An equipment that belongs to the process stays.                          *)
KeepEquipment(offered) == IF equipment = None THEN Min(offered) ELSE equipment
EquipmentAmong(offered) == IF equipment \in offered THEN equipment ELSE Min(offered)
ProcessChanged ==
  /\ "equipment" \in pending
  /\ options' = IF process = None THEN {} ELSE EquipmentOf(process)
  /\ equipment' = IF process = None THEN None ELSE EquipmentAmong(options')
  /\ Follow("equipment", equipment' # equipment, {"lot", "date", "table"})
  /\ UNCHANGED <<link, global, process, inited, lotOptions, startLot, snapshot, fields, start, filters, rows, clicks, own>>

(* A lot that is there stays, otherwise the last one is proposed.           *)
LotsChanged ==
  /\ "lot" \in pending
  /\ LET lots == IF equipment = None \/ snapshot = None THEN {} ELSE StartLots(snapshot, equipment)
         last == CHOOSE l \in lots : \A k \in lots : k.end <= l.end
     IN /\ lotOptions' = {l.id : l \in lots}
        /\ startLot' = IF startLot \in lotOptions' THEN startLot ELSE IF lots = {} THEN None ELSE last.id
  /\ Follow("lot", startLot' # startLot, {"date"})
  /\ UNCHANGED <<link, global, process, inited, options, equipment, snapshot, fields, start, filters, rows, clicks, own>>

ProposedStart ==
  LET lots == IF equipment = None \/ snapshot = None \/ startLot = None THEN {} ELSE {l \in StartLots(snapshot, equipment) : l.id = startLot}
  IN IF lots = {} THEN Known(snapshot, Now) ELSE (CHOOSE l \in lots : TRUE).end

ProposeStart ==
  /\ "date" \in pending /\ fields' = ProposedStart /\ own' = FALSE
  /\ Follow("date", TRUE, {"start"})
  /\ UNCHANGED <<link, global, process, inited, options, equipment, lotOptions, startLot, snapshot, start, filters, rows, clicks>>

StartChanged ==
  /\ "start" \in pending /\ start' = Known(fields, Known(snapshot, Now))
  /\ Follow("start", TRUE, {"table"})
  /\ UNCHANGED <<link, global, process, inited, options, equipment, lotOptions, startLot, snapshot, fields, filters, rows, clicks, own>>

UpdateTable ==
  /\ "table" \in pending /\ rows' = Table /\ pending' = pending \ {"table"}
  /\ UNCHANGED <<link, global, process, inited, options, equipment, lotOptions, startLot, snapshot, fields, start, filters, clicks, own>>

-----------------------------------------------------------------------------
(* The user, and the selection of the snapshot (see SnapshotSelection).     *)
Click == clicks < MaxClicks /\ clicks' = clicks + 1

SelectSnapshot ==
  \E s \in Snapshot \ {snapshot} :
    /\ IF snapshot = None THEN UNCHANGED clicks ELSE Click
    /\ snapshot' = s /\ pending' = pending \cup {"lot", "date", "start", "table"}
    /\ UNCHANGED <<link, global, process, inited, options, equipment, lotOptions, startLot, fields, start, filters, rows, own>>

ChooseProcess ==
  \E p \in Process \cup {None} :
    /\ Click /\ p # process /\ SetProcess(p)
    /\ UNCHANGED <<link, global, options, equipment, lotOptions, startLot, snapshot, fields, start, filters, rows, own>>

ChooseEquipment ==
  \E e \in options \ {equipment} :
    /\ Click /\ equipment' = e /\ pending' = pending \cup {"lot", "date", "table"}
    /\ UNCHANGED <<link, global, process, inited, options, lotOptions, startLot, snapshot, fields, start, filters, rows, own>>

ChooseLot ==
  \E l \in lotOptions \ {startLot} :
    /\ Click /\ startLot' = l /\ pending' = pending \cup {"date"}
    /\ UNCHANGED <<link, global, process, inited, options, equipment, lotOptions, snapshot, fields, start, filters, rows, own>>

TypeStart ==
  \E t \in Typed :
    /\ Click /\ fields' = t /\ own' = TRUE /\ pending' = pending \cup {"start"}
    /\ UNCHANGED <<link, global, process, inited, options, equipment, lotOptions, startLot, snapshot, start, filters, rows>>

Filter ==
  \E f \in {"notApplicable", "later", "unknown"} :
    /\ Click /\ filters' = filters \ {f} /\ pending' = pending \cup {"table"}
    /\ UNCHANGED <<link, global, process, inited, options, equipment, lotOptions, startLot, snapshot, fields, start, rows, own>>

(* layout: an equipment of the address, or the first of its process.        *)
Init ==
  /\ \E o \in Opened : link = o[1] /\ equipment = o[2] /\ global = o[3]
  /\ process = None /\ inited = FALSE /\ options = EquipmentOf(Known(link, ProcessOf[equipment]))
  /\ lotOptions = {} /\ startLot = None /\ snapshot = None /\ fields = None /\ start = None
  /\ filters = {"notApplicable", "later", "unknown"} /\ rows = {}
  /\ pending = {"global", "equipment", "lot", "date", "start", "table"} /\ clicks = 0 /\ own = FALSE

Next ==
  \/ ShareProcess \/ InitProcess \/ ProcessChanged \/ LotsChanged \/ ProposeStart \/ StartChanged \/ UpdateTable
  \/ SelectSnapshot \/ ChooseProcess \/ ChooseEquipment \/ ChooseLot \/ TypeStart \/ Filter

-----------------------------------------------------------------------------
BacklogTypeOK ==
  /\ global \in Process \cup {None} /\ process \in Process \cup {None} /\ equipment \in Equipment \cup {None}
  /\ snapshot \in Snapshot \cup {None} /\ options \subseteq Equipment
  /\ equipment # None /\ "equipment" \notin pending => equipment \in options
  /\ pending \subseteq {"global", "equipment", "lot", "date", "start", "table"} /\ clicks \in 0 .. MaxClicks

(* When no callback is left, the page is of one process, equipment, lot and *)
(* snapshot: however the changes overtook one another, the start is the end *)
(* of the lot unless the user typed another one.                            *)
QuietBacklogIsConsistent ==
  pending = {} /\ process # None /\ snapshot # None =>
    /\ global = process /\ equipment # None /\ ProcessOf[equipment] = process
    /\ IF StartLots(snapshot, equipment) = {} THEN startLot = None
       ELSE \E l \in StartLots(snapshot, equipment) : l.id = startLot /\ (own \/ start = l.end)
    /\ start = fields

(* An order that is shown as available has not passed the process, is not   *)
(* planned there in a lot that is fixed or active, and unless some of it is *)
(* at the process it leaves its previous lot in time.                       *)
AvailableCanStart ==
  pending = {} => \A r \in rows : r.available =>
    LET order == Orders[snapshot][r.order]
        p == ProcessOf[equipment]
        earlier == {l \in LotsWith(snapshot, r.order, Earlier(p)) : p \in NextSteps[ProcessOf[l.equipment]]}
    IN /\ order.ids \cap Ids(Later(p)) \subseteq Ids(Earlier(p) \cup {p})
       /\ equipment \in order.allowed /\ <<r.order, equipment>> \notin Forbidden
       /\ \A l \in PlannedLots[snapshot] : r.order \in l.orders /\ ProcessOf[l.equipment] = p => ~ l.active /\ l.status <= 1
       /\ \/ order.ids \cap ProcessIds[p] # {} \/ \E e \in order.at : ProcessOf[e] = p
          \/ \E l \in earlier : IF OrderEnd[snapshot][r.order] = None THEN l.end <= start
                                ELSE OrderEnd[snapshot][r.order] + Transport[l.equipment][equipment] <= start

=============================================================================
