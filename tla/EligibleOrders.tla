---------------------------- MODULE EligibleOrders ----------------------------
(***************************************************************************)
(* Which orders may be planned at a process: the orders of a snapshot that *)
(* will be there in time, are in no lot that is fixed, and may be produced *)
(* at one of its equipments under the temporary restrictions               *)
(* (DynReActBase/dynreact/base/SnapshotProvider.py and, for restrictions,  *)
(* TemporaryRestrictionsProvider.py).  Around it, lots are created from    *)
(* eligible orders, released, and produced as planned, and users configure *)
(* the restrictions.  Times are integers; a process has one id.            *)
(***************************************************************************)
EXTENDS Conditions, FiniteSetsExt, TLC

CONSTANTS
  None, Order, Equipment, Process,
  ProcessOf,    \* [Equipment -> Process]
  NextSteps,    \* [Process -> sets of processes]
  Allowed,      \* [Order -> sets of equipments]
  Attributes,   \* [Order -> its attributes]
  Transport,    \* [Equipment -> [Equipment -> time]]
  Duration,     \* of a lot
  RuleSeq,        \* a sequence of rules [equipment, selectable, allowed, condition]
  Inputs,       \* [index of a rule -> lists of parameters users enter]
  LotId, MaxTime, MaxConfigures \* bounds

EligibleAssumption ==
  /\ ProcessOf \in [Equipment -> Process] /\ \A p \in Process : p \notin NextSteps[p]
  /\ \A i \in DOMAIN RuleSeq : RuleSeq[i].equipment \in (SUBSET Equipment) \ {{}}
  /\ \A e, f \in Equipment : Transport[e][f] \in Nat
  /\ Duration \in Nat \ {0} /\ {MaxTime, MaxConfigures} \subseteq Nat

VARIABLES
  now,
  lots,      \* [LotId -> None or a lot]
  lotOf,     \* [Order -> [some processes -> the lot the order names]]
  at,        \* [Order -> the processes its material is at]
  status,    \* [Order -> [Process -> "PENDING", "STARTED", "FINISHED" or None]]: active_processes
  settings,  \* [index of a rule -> its settings]
  configures

vars == <<now, lots, lotOf, at, status, settings, configures>>

EquipmentsOf(p) == {e \in Equipment : ProcessOf[e] = p}
Known(l) == lots[l] # None
IsReschedulable(lot) == lot.status <= 1
IsComplete(lot) == lot.status >= 3

-----------------------------------------------------------------------------
(* RestrictionUtils.apply_settings: the rules as they are set, without      *)
(* parameters.  Selecting no equipment switches a rule off.                 *)
Selected(rule, s) == IF s.equipment = None \/ Cardinality(s.equipment) = Cardinality(rule.equipment) THEN rule.equipment ELSE s.equipment
IsOn(s) == s.active /\ s.equipment # {}
WithSettings(rule, s) == [rule EXCEPT !.equipment = Selected(rule, s), !.condition = Instantiate(rule.condition, s.params).cond]

(* equipment_restrictions: of the rules that name one of the equipments.    *)
SettingsAt(eqs) == {<<i, s>> \in UNION {{i} \X ToSet(settings[i]) : i \in DOMAIN RuleSeq} : RuleSeq[i].equipment \cap eqs # {} /\ IsOn(s)}
RulesCannotApply(eqs) == \E t \in SettingsAt(eqs) : ~ Instantiate(RuleSeq[t[1]].condition, t[2].params).ok
RulesAt(eqs) == {WithSettings(RuleSeq[t[1]], t[2]) : t \in SettingsAt(eqs)}

(* RestrictionUtils.equipment_allowed, for a rule as it is set.             *)
AllowsAt(rule, e, o) == (e \in rule.equipment) = rule.allowed \/ Applies(rule.condition, Attributes[o]) = rule.allowed

(* eligible_orders2 and the optimizer look at the rules of each equipment.  *)
Permitted(o, eqs) == {e \in Allowed[o] \cap eqs : \A r \in RulesAt(eqs) : e \in r.equipment => AllowsAt(r, e, o)}

(* TemporaryRestrictionsProvider.equipment_allowed, for the table of the    *)
(* backlog.                                                                 *)
BacklogAllows(e, o) ==
  \A t \in SettingsAt({e}) :
     \/ ~ RuleSeq[t[1]].allowed /\ e \notin RuleSeq[t[1]].equipment
     \/ AllowsAt(WithSettings(RuleSeq[t[1]], t[2]), e, o)

(* The orders the page of the restrictions shows as affected by a rule.     *)
ShownRules(i) ==
  LET active == \E s \in ToSet(settings[i]) : s.active IN
  IF active THEN {WithSettings(RuleSeq[i], s) : s \in {s \in ToSet(settings[i]) : IsOn(s)}}
  ELSE IF HasParameters(RuleSeq[i].condition) THEN {} ELSE {RuleSeq[i]}

ShownAsAffected(i) ==
  LET eqs == UNION {r.equipment : r \in ShownRules(i)}
  IN {o \in Order : eqs \cap Allowed[o] # {} /\ \E e \in eqs, r \in ShownRules(i) : ~ AllowsAt(r, e, o)}

-----------------------------------------------------------------------------
(* eligible_orders2.                                                        *)
Previous(p) == {q \in Process : p \in NextSteps[q]}

(* Step 1: in a lot at the process that may not be changed, or is gone.     *)
IsFixedAt(o, p) ==
  p \in DOMAIN lotOf[o] /\ LET l == lotOf[o][p] IN
    \/ ~ Known(l)
    \/ lots[l].processing \in {"STARTED", "FINISHED"} \/ ~ IsReschedulable(lots[l])

(* Step 2: in a lot at a process before, done in time for any equipment.    *)
(* The lot is taken to end at its end: the providers of the repository do   *)
(* not implement get_order_lot_times, which would tell when an order does.  *)
ComesInTime(o, l, eqs, from) ==
  Known(l) /\ IsComplete(lots[l]) /\ lots[l].end + Max({Transport[lots[l].equipment][e] : e \in eqs}) <= from

(* Step 3: at the process and not at a later one.                           *)
IsThere(o, p) ==
  /\ p \in at[o] /\ NextSteps[p] \cap at[o] = {}
  /\ status[o][p] \in {None, "PENDING"}

IsEligible(o, p, from, eqs) ==
  /\ Permitted(o, eqs) # {} /\ ~ IsFixedAt(o, p)
  /\ LET before == Previous(p) \cap DOMAIN lotOf[o] IN
     IF before # {} THEN ComesInTime(o, lotOf[o][CHOOSE q \in before : TRUE], Permitted(o, eqs), from)
     ELSE IsThere(o, p)

-----------------------------------------------------------------------------
(* eligible_orders, from methods and processes before that are included.    *)
LotsAt(eqs) == {l \in LotId : Known(l) /\ lots[l].equipment \in eqs}
OrdersIn(ls) == UNION {lots[l].orders : l \in ls}

Conflict(methods) == {"current_planning", "omit_active_lots"} \subseteq methods \/ {"inactive_lots", "omit_inactive_lots"} \subseteq methods

FromLots(p, methods) ==
  LET current == "current_planning" \in methods IN
  IF {"current_planning", "inactive_lots"} \cap methods = {} THEN {}
  ELSE OrdersIn({l \in LotsAt(EquipmentsOf(p)) :
         /\ {"current_planning", "inactive_lots"} \subseteq methods \/ lots[l].active = current
         /\ "omit_current_lot" \in methods => lots[l].processing = "PENDING"})

FromProcess(p, methods) == IF "active_process" \in methods THEN {o \in Order : status[o][p] = "PENDING"} ELSE {}

(* Those at the processes in "all", or in "planned" if they are in a lot.   *)
FromEarlier(p, all, planned) ==
  LET byLot == IF planned = all THEN {} ELSE planned
      known(ps) == IF ps = {} THEN {} ELSE ps \cup {p}
  IN IF all \cup byLot = {} THEN {}
     ELSE {o \in Order :
            /\ at[o] # {} /\ at[o] \subseteq known(all) \cup known(byLot)
            /\ byLot # {} /\ ~ at[o] \subseteq known(all)
                 => o \in OrdersIn({l \in LotsAt(UNION {EquipmentsOf(q) : q \in byLot}) : lots[l].active})}

Omitted(p, methods) ==
  OrdersIn({l \in LotsAt(EquipmentsOf(p)) :
    \/ {"omit_active_lots", "omit_inactive_lots"} \subseteq methods
    \/ "omit_active_lots" \in methods /\ lots[l].active
    \/ "omit_inactive_lots" \in methods /\ ~ lots[l].active
    \/ "omit_released_lots" \in methods /\ lots[l].status > 1})

EligibleBy(p, methods, all, planned) ==
  (FromLots(p, methods) \cup FromProcess(p, methods) \cup FromEarlier(p, all, planned)) \ Omitted(p, methods)

DefaultMethods == {"active_process", "current_planning", "inactive_lots", "omit_current_lot", "omit_released_lots"}

-----------------------------------------------------------------------------
(* A lot is created from eligible orders at an equipment the optimizer may  *)
(* choose, and transferred: orders leave the lot they were in.              *)
Without(orders) ==
  [l \in LotId |-> IF ~ Known(l) \/ lots[l].orders \cap orders = {} THEN lots[l]
                   ELSE IF lots[l].orders \subseteq orders THEN None
                   ELSE [lots[l] EXCEPT !.orders = @ \ orders]]

Unused == {l \in LotId : ~ Known(l)} \ UNION {Range(lotOf[o]) : o \in Order}

Create(l, p, e, orders, from) ==
  LET eqs == EquipmentsOf(p)
      moved == {o \in orders : p \in DOMAIN lotOf[o]}
      left == [k \in LotId |-> IF Known(k) /\ lots[k].equipment \in eqs THEN Without(orders)[k] ELSE lots[k]]
  IN /\ ~ RulesCannotApply(eqs)
     /\ \A o \in orders : e \in Permitted(o, eqs) /\ IsEligible(o, p, from, eqs)
     /\ \E active \in BOOLEAN :
          lots' = [left EXCEPT ![l] = [equipment |-> e, orders |-> orders, status |-> 1, active |-> active,
                                       start |-> from, end |-> from + Duration, processing |-> "PENDING"]]
     /\ lotOf' = [o \in Order |-> IF o \in orders THEN (p :> l) @@ lotOf[o] ELSE lotOf[o]]
     /\ UNCHANGED <<now, at, status, settings, configures>>

(* The plant: lots are released and keep their times.                       *)
Release(l) ==
  /\ Known(l) /\ lots[l].status = 1 /\ lots[l].start >= now
  /\ lots' = [lots EXCEPT ![l].status = 3, ![l].active = TRUE]
  /\ UNCHANGED <<now, lotOf, at, status, settings, configures>>

Process1(l) == ProcessOf[lots[l].equipment]
CanStart(l) == Known(l) /\ lots[l].status = 3 /\ lots[l].start <= now /\ \A o \in lots[l].orders : Process1(l) \in at[o]
MustEnd(l) == Known(l) /\ lots[l].status = 4 /\ lots[l].end <= now

Start(l) ==
  /\ CanStart(l)
  /\ lots' = [lots EXCEPT ![l].status = 4, ![l].processing = "STARTED"]
  /\ status' = [o \in Order |-> IF o \in lots[l].orders THEN [status[o] EXCEPT ![Process1(l)] = "STARTED"] ELSE status[o]]
  /\ at' = [o \in Order |-> IF o \in lots[l].orders THEN at[o] \cup NextSteps[Process1(l)] ELSE at[o]]
  /\ UNCHANGED <<now, lotOf, settings, configures>>

End(l) ==
  /\ MustEnd(l)
  /\ lots' = [lots EXCEPT ![l].status = 5, ![l].processing = "FINISHED"]
  /\ at' = [o \in Order |-> IF o \in lots[l].orders THEN at[o] \ {Process1(l)} ELSE at[o]]
  /\ status' = [o \in Order |-> IF o \in lots[l].orders
                                THEN [p \in Process |-> IF p = Process1(l) THEN "FINISHED" ELSE IF p \in NextSteps[Process1(l)] THEN "PENDING" ELSE status[o][p]]
                                ELSE status[o]]
  /\ UNCHANGED <<now, lotOf, settings, configures>>

(* A later snapshot without a finished lot, which its orders still name.    *)
Drop(l) ==
  /\ Known(l) /\ lots[l].status = 5 /\ lots' = [lots EXCEPT ![l] = None]
  /\ UNCHANGED <<now, lotOf, at, status, settings, configures>>

Tick ==
  /\ now < MaxTime /\ \A l \in LotId : ~ CanStart(l) /\ ~ MustEnd(l)
  /\ now' = now + 1 /\ UNCHANGED <<lots, lotOf, at, status, settings, configures>>

(* save_rule_configurable and toggle_rule, for the first setting of a rule. *)
Configure(i, on, eqs, params) ==
  LET rule == RuleSeq[i]
      configurable == rule.selectable \/ HasParameters(rule.condition)
      new == [active |-> on, equipment |-> IF configurable THEN eqs ELSE None,
              params |-> IF HasParameters(rule.condition) THEN params ELSE <<>>]
  IN /\ configures < MaxConfigures /\ configures' = configures + 1
     /\ eqs \subseteq rule.equipment /\ (~ rule.selectable => eqs = rule.equipment)
     /\ settings' = [settings EXCEPT ![i] = <<new>>]
     /\ UNCHANGED <<now, lots, lotOf, at, status>>

Init ==
  /\ now = 0 /\ lots = [l \in LotId |-> None] /\ configures = 0
  /\ lotOf = [o \in Order |-> <<>>] /\ settings = [i \in DOMAIN RuleSeq |-> <<>>]
  /\ LET first == {p \in Process : Previous(p) = {}} IN
     /\ at = [o \in Order |-> first]
     /\ status = [o \in Order |-> [p \in Process |-> IF p \in first THEN "PENDING" ELSE None]]

Next ==
  \/ \E l \in Unused, p \in Process : \E e \in EquipmentsOf(p), orders \in (SUBSET Order) \ {{}}, from \in now .. MaxTime :
       Create(l, p, e, orders, from)
  \/ \E l \in LotId : Release(l) \/ Start(l) \/ End(l) \/ Drop(l)
  \/ \E i \in DOMAIN RuleSeq, on \in BOOLEAN, eqs \in SUBSET Equipment : \E params \in Inputs[i] : Configure(i, on, eqs, params)
  \/ Tick

Spec == Init /\ [][Next]_vars

-----------------------------------------------------------------------------
(* Every variable keeps its type.                                           *)
EligibleTypeOK ==
  /\ now \in 0 .. MaxTime /\ configures \in 0 .. MaxConfigures
  /\ \A l \in LotId : Known(l) => lots[l].orders \subseteq Order /\ lots[l].equipment \in Equipment /\ lots[l].status \in {1, 3, 4, 5}
  /\ \A o \in Order : at[o] \subseteq Process /\ DOMAIN lotOf[o] \subseteq Process

(* A lot that was released can start as planned: what it was made of is     *)
(* there, although its orders were elsewhere when it was planned, or were in*)
(* another lot, and had to be transported; and its orders are in no other   *)
(* lot of the process.                                                      *)
LotsStartAsPlanned ==
  \A l \in LotId : Known(l) /\ lots[l].status = 3 =>
    /\ lots[l].start <= now => CanStart(l)
    /\ \A o \in lots[l].orders, q \in Previous(Process1(l)) : q \in DOMAIN lotOf[o] /\ Known(lotOf[o][q]) =>
         LET k == lots[lotOf[o][q]] IN k.end + Transport[k.equipment][lots[l].equipment] <= lots[l].start
    /\ \A k \in LotId \ {l} : Known(k) /\ Process1(k) = Process1(l) => lots[k].orders \cap lots[l].orders = {}

(* The backlog, the table of the page and the lot creation agree on where   *)
(* an order may go, unless a rule that names the only equipments allowed is *)
(* narrowed to some of them.                                                *)
RestrictionsAgree ==
  LET narrowed == \E i \in DOMAIN RuleSeq, s \in UNION {ToSet(settings[i]) : i \in DOMAIN RuleSeq} :
                    RuleSeq[i].allowed /\ s \in ToSet(settings[i]) /\ IsOn(s) /\ Selected(RuleSeq[i], s) # RuleSeq[i].equipment
  IN ~ RulesCannotApply(Equipment) /\ ~ narrowed => \A o \in Order :
       /\ \A e \in Allowed[o] : BacklogAllows(e, o) <=> e \in Permitted(o, EquipmentsOf(ProcessOf[e]))
       /\ Permitted(o, Equipment) # Allowed[o] =>
            \E i \in DOMAIN RuleSeq : o \in ShownAsAffected(i) /\ \E s \in ToSet(settings[i]) : s.active

(* The parameters a user supplies, one for each place, reach their places;  *)
(* a list, which takes what is left, has to come last.                      *)
ParametersReachTheirPlaces ==
  \A i \in DOMAIN RuleSeq : \A s \in ToSet(settings[i]) :
    LET leaves == Leaves(RuleSeq[i].condition)
        places == FlattenSeq([k \in DOMAIN leaves |-> IF leaves[k].type = "list" THEN <<>> ELSE
                                SetToSortSeq({<<k, j>> : j \in ParamsOf(leaves[k])}, LAMBDA x, y : x[2] < y[2])])
        result == Instantiate(RuleSeq[i].condition, s.params)
        hasList == \E k \in DOMAIN leaves : leaves[k].type = "list" /\ ParamsOf(leaves[k]) # {}
        listLast == \A k \in 1 .. Len(leaves) - 1 : leaves[k].type # "list" \/ ParamsOf(leaves[k]) = {}
    IN listLast => /\ result.ok = (Len(s.params) >= Len(places) + (IF hasList THEN 1 ELSE 0))
                   /\ result.ok => \A n \in DOMAIN places : Leaves(result.cond)[places[n][1]].values[places[n][2]] = Value(s.params[n])

(* Orders that are there and may be planned are found by the older methods  *)
(* as well, and these leave out what is fixed.                              *)
MethodsAgree ==
  \A p \in Process :
    LET old == EligibleBy(p, DefaultMethods, {}, {}) IN
    /\ ~ Conflict(DefaultMethods)
    /\ ~ RulesCannotApply(EquipmentsOf(p)) => \A o \in Order :
         IsEligible(o, p, now, EquipmentsOf(p)) /\ IsThere(o, p) /\ status[o][p] = "PENDING" => o \in old
    /\ \A o \in old : p \in DOMAIN lotOf[o] /\ Known(lotOf[o][p]) => ~ IsFixedAt(o, p)
    /\ EligibleBy(p, DefaultMethods, Previous(p), {}) \ old \subseteq {o \in Order : at[o] \subseteq Previous(p) \cup {p}}

=============================================================================
