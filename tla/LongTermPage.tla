----------------------------- MODULE LongTermPage -----------------------------
(***************************************************************************)
(* The page on which a long term planning is prepared and started: its     *)
(* stores, the callbacks that keep them in step, and the targets that are  *)
(* left of a previous solution.                                            *)
(* (DynReActService/dynreact/gui/pages/long_term_planning.py)              *)
(*                                                                         *)
(* Callbacks run as on the page of the lot creation: once an input was     *)
(* written and no callback that writes another of its inputs is left to    *)
(* run.  What happens to a started run, and two pages that start at once,  *)
(* is in LongTermResults, the calendar of an equipment in Availability.    *)
(* Times are days; amounts are fractions, pairs of integers.               *)
(***************************************************************************)
EXTENDS Integers, FiniteSets, FiniteSetsExt

CONSTANTS
  None,
  Snapshot,      \* the days of the snapshots there are
  Days, Months,  \* Months: the first days of the months
  Solution,      \* the stored solutions
  PeriodOf,      \* [Solution -> <<first, last day>>]
  Planned,       \* [Solution -> the targets: a function from some classes]
  Done,          \* [<<from, to>> -> of each final process, a function from some classes]
  Categories,    \* a sequence of disjoint sets of classes
  Capacity,      \* [<<from, to>> -> the least capacity of a process]
  Buttons,       \* bound: those that are pressed
  MaxClicks, MaxHasty   \* bounds, as on the other page

LongTermPageAssumption ==
  /\ Snapshot \subseteq Days /\ Days \subseteq Nat /\ {MaxClicks, MaxHasty} \subseteq Nat
  /\ \A d \in Days : \E m \in Months : m > d
  /\ \A s \in Solution : PeriodOf[s][1] < PeriodOf[s][2]
  /\ \A c, d \in DOMAIN Categories : c # d => Categories[c] \cap Categories[d] = {}

VARIABLES
  snapshot,
  type,        \* ltp-start-time-selection
  startAt, endAt, period,   \* period: ltp-start-end, None if it has no end
  options, prev,            \* the previous solutions to choose from, and the one chosen
  store,       \* ltp-prev-solution-store
  prevTargets, userTargets, targets,   \* None or functions from classes
  capacity, total,
  levels,      \* ltp-storage-levels: None or [source, structured]
  fields,      \* the fields shown for them: None or [source, edited]
  frozen,      \* the snapshot and period of the frozen lots that are shown, or None
  canStart, busy, begun,    \* begun: what was started last
  asked, clicks, hasty

vars == <<snapshot, type, startAt, endAt, period, options, prev, store, prevTargets, userTargets, targets,
          capacity, total, levels, fields, frozen, canStart, busy, begun, asked, clicks, hasty>>

Inputs == [
  startTime |-> {"type", "startAt", "endAt", "prev"},
  loadPrevious |-> {"prev", "type"},
  remaining |-> {"store"},
  setpoints |-> {"user", "prevTargets"},
  capacity |-> {"period"},
  total |-> {"cancel", "capacity"},
  levels |-> {"fromSnapshot", "half", "clear", "startAt", "structure"},
  overview |-> {"levels"},
  frozen |-> {"snapshot", "type", "period"},
  check |-> {"start", "stop", "targets", "levels"}]
Outputs == [
  startTime |-> {"startAt", "endAt", "period", "prev"}, loadPrevious |-> {"store"}, remaining |-> {"prevTargets"},
  setpoints |-> {"targets"}, capacity |-> {"capacity"}, total |-> {}, levels |-> {"levels"}, overview |-> {},
  frozen |-> {}, check |-> {}]
Callback == DOMAIN Inputs
Feeding == [c \in Callback |-> {d \in Callback \ {c} : Outputs[d] \cap Inputs[c] # {}}]

(* A callback does not wait for itself, nor is it asked by its own outputs. *)
Ready(c) == asked[c] # {} /\ \A d \in Feeding[c] : asked[d] = {}
Asked(before, written) == [c \in Callback |-> before[c] \cup (written \cap Inputs[c])]
Quiet == \A c \in Callback : asked[c] = {}
Click(written) ==
  /\ clicks < MaxClicks /\ clicks' = clicks + 1
  /\ (Quiet \/ hasty < MaxHasty) /\ hasty' = IF Quiet THEN hasty ELSE hasty + 1
  /\ asked' = Asked(asked, written)
Ran(c, written) ==
  /\ asked' = [Asked(asked, written) EXCEPT ![c] = {}]
  /\ UNCHANGED <<clicks, hasty>>

times == <<startAt, endAt, period, options, prev>>
amounts == <<prevTargets, userTargets, targets>>
sizes == <<capacity, total>>
contents == <<levels, fields>>
control == <<canStart, busy, begun>>

-----------------------------------------------------------------------------
(* The user.                                                                *)
ChooseSnapshot(s) ==
  /\ s # snapshot /\ snapshot' = s /\ Click({"snapshot"})
  /\ UNCHANGED <<type, times, store, amounts, sizes, contents, frozen, control>>

ChooseType(t) ==
  /\ t # type /\ type' = t /\ Click({"type"})
  /\ UNCHANGED <<snapshot, times, store, amounts, sizes, contents, frozen, control>>

ChooseStart(d) ==
  /\ type = "other" /\ d # startAt /\ startAt' = d /\ Click({"startAt"})
  /\ UNCHANGED <<snapshot, type, endAt, period, options, prev, store, amounts, sizes, contents, frozen, control>>

ChooseEnd(d) ==
  /\ type = "now" => prev = None
  /\ d # endAt /\ endAt' = d /\ Click({"endAt"})
  /\ UNCHANGED <<snapshot, type, startAt, period, options, prev, store, amounts, sizes, contents, frozen, control>>

ChoosePrevious(s) ==
  /\ type = "now" /\ s \in options \cup {None} /\ s # prev
  /\ prev' = s /\ Click({"prev"})
  /\ UNCHANGED <<snapshot, type, startAt, endAt, period, options, store, amounts, sizes, contents, frozen, control>>

Press(button) ==
  /\ button = "start" => canStart
  /\ button = "stop" => busy
  /\ Click({button})
  /\ UNCHANGED <<snapshot, type, times, store, amounts, sizes, contents, frozen, control>>

(* The dialog of the structure shares the total among the classes.          *)
Shared(n) == [c \in UNION {Categories[i] : i \in DOMAIN Categories} |->
                <<IF \E i \in DOMAIN Categories : c = CHOOSE d \in Categories[i] : TRUE THEN n ELSE 0, 1>>]

AcceptTargets ==
  /\ total # None /\ userTargets' = Shared(total) /\ Click({"user"})
  /\ UNCHANGED <<snapshot, type, times, store, prevTargets, targets, sizes, contents, frozen, control>>

EditFields ==
  /\ fields # None /\ ~fields.edited /\ fields' = [fields EXCEPT !.edited = TRUE] /\ Click({})
  /\ UNCHANGED <<snapshot, type, times, store, amounts, sizes, levels, frozen, control>>

AcceptStorage ==
  /\ levels # None /\ Click({"structure"})
  /\ UNCHANGED <<snapshot, type, times, store, amounts, sizes, contents, frozen, control>>

RunEnds ==
  /\ busy /\ busy' = FALSE
  /\ UNCHANGED <<snapshot, type, times, store, amounts, sizes, contents, frozen, canStart, begun, asked, clicks, hasty>>

-----------------------------------------------------------------------------
MonthAfter(d) == Min({m \in Months : m > d})
NextMonth == MonthAfter(Max(Snapshot))
Applicable(d) == {s \in Solution : PeriodOf[s][1] <= d /\ d < PeriodOf[s][2]}
Newest(ss) == IF ss = {} THEN None ELSE CHOOSE s \in ss : \A r \in ss : PeriodOf[r][1] <= PeriodOf[s][1]

(* start_time_changed.  The start is taken from the snapshot when "now" is  *)
(* selected, and not when another snapshot is.                              *)
From(c) ==
  IF "type" \notin c THEN startAt
  ELSE IF type = "now" THEN snapshot ELSE IF type = "nextmonth" THEN NextMonth ELSE startAt

Offered(c, from) == IF "type" \in c /\ type = "now" THEN Applicable(from) ELSE options
PreviousOf(c, offered) == IF "type" \in c /\ type = "now" /\ prev \notin offered THEN Newest(offered) ELSE prev

Until(c, from, previous) ==
  IF "prev" \in c \/ ("type" \in c /\ type = "now")
  THEN IF previous # None /\ PeriodOf[previous][2] > from THEN PeriodOf[previous][2] ELSE MonthAfter(from)
  ELSE IF endAt # None /\ endAt > from THEN endAt
  ELSE IF "endAt" \in c THEN None ELSE MonthAfter(from)

StartTime ==
  LET c == asked["startTime"]
      from == From(c)
      offered == Offered(c, from)
      previous == PreviousOf(c, offered)
      until == Until(c, from, previous)
  IN
  /\ Ready("startTime")
  /\ IF until = None
     THEN /\ period' = None /\ endAt' = None /\ options' = {} /\ prev' = None
          /\ Ran("startTime", {"period", "prev"}) /\ UNCHANGED startAt
     ELSE /\ startAt' = from /\ endAt' = until /\ period' = <<from, until>>
          /\ options' = offered /\ prev' = previous
          /\ Ran("startTime", {"startAt", "period", "prev"})
  /\ UNCHANGED <<snapshot, type, store, amounts, sizes, contents, frozen, control>>

(* The first prev_solution_changed.                                         *)
LoadPrevious ==
  /\ Ready("loadPrevious") /\ store' = (IF type = "now" THEN prev ELSE None)
  /\ Ran("loadPrevious", {"store"})
  /\ UNCHANGED <<snapshot, type, times, amounts, sizes, contents, frozen, control>>

-----------------------------------------------------------------------------
(* The second one: what is left of the targets after what was produced      *)
(* since.  Classes of which more was produced than planned take the surplus *)
(* from the others of their category.                                       *)
At(f, c) == IF c \in DOMAIN f THEN f[c] ELSE 0
SumAt(f, S) == MapThenSumSet(LAMBDA c : At(f, c), S)
Surpassed(plan, made) == {c \in DOMAIN made : made[c] > At(plan, c)}
Behind(plan, made) == SumAt(made, Categories[1]) < SumAt(plan, Categories[1])

LeftOf(plan, made, c) == IF c \in DOMAIN made THEN Max({plan[c] - made[c], 0}) ELSE plan[c]
Others(plan, made, cat) == (cat \ Surpassed(plan, made)) \cap DOMAIN plan
Reserve(plan, made, cat) == MapThenSumSet(LAMBDA c : LeftOf(plan, made, c), Others(plan, made, cat))
Surplus(plan, made, cat) == MapThenSumSet(LAMBDA c : made[c] - At(plan, c), cat \cap Surpassed(plan, made))

Reduced(plan, made, cat, c) ==
  LET left == LeftOf(plan, made, c)
      reserve == Reserve(plan, made, cat)
  IN IF c \in Surpassed(plan, made) \/ cat \cap Surpassed(plan, made) = {} THEN <<left, 1>>
     ELSE <<left * (reserve - Surplus(plan, made, cat)), reserve>>

(* It raises for a class that was not planned, and if nothing is left to be *)
(* reduced; also, below, for a period without an end.                       *)
Raises(plan, made) ==
  Behind(plan, made) /\ \E i \in DOMAIN Categories :
    LET cat == Categories[i] IN
    /\ cat \cap Surpassed(plan, made) # {}
    /\ \/ ~(cat \cap Surpassed(plan, made) \subseteq DOMAIN plan)
       \/ cat \ Surpassed(plan, made) # {} /\ Reserve(plan, made, cat) = 0

Remaining(plan, made) ==
  [c \in DOMAIN plan |->
     IF DOMAIN made = {} THEN <<plan[c], 1>>
     ELSE IF ~Behind(plan, made) THEN <<0, 1>>
     ELSE Reduced(plan, made, CHOOSE cat \in {Categories[i] : i \in DOMAIN Categories} : c \in cat, c)]

(* merge_targets: what the processes made together.  Processes with classes *)
(* and others without cannot be merged.                                     *)
Merged(parts) ==
  [c \in UNION {DOMAIN parts[i] : i \in DOMAIN parts} |->
     MapThenSumSet(LAMBDA i : At(parts[i], c), DOMAIN parts)]
CannotMerge(parts) == \E i, j \in DOMAIN parts : DOMAIN parts[i] = {} /\ DOMAIN parts[j] # {}

Histories(s, d) == Done[<<PeriodOf[s][1], d>>]
MadeSince(s, d) == Merged(Histories(s, d))
Fails(s, d) == CannotMerge(Histories(s, d)) \/ Raises(Planned[s], MadeSince(s, d))

CountRemaining ==
  /\ Ready("remaining")
  /\ \/ /\ store = None
        /\ prevTargets' = None /\ Ran("remaining", {"prevTargets"})
     \/ /\ store # None
        /\ IF period = None \/ Fails(store, period[1])
           THEN Ran("remaining", {}) /\ UNCHANGED prevTargets
           ELSE /\ prevTargets' = Remaining(Planned[store], MadeSince(store, period[1]))
                /\ Ran("remaining", {"prevTargets"})
  /\ UNCHANGED <<snapshot, type, times, store, userTargets, targets, sizes, contents, frozen, control>>

(* material_setpoints_changed.                                              *)
Setpoints ==
  /\ Ready("setpoints")
  /\ \/ "prevTargets" \in asked["setpoints"] /\ prevTargets = None
        /\ Ran("setpoints", {}) /\ UNCHANGED targets
     \/ /\ "prevTargets" \in asked["setpoints"] => prevTargets # None
        /\ targets' = (IF "prevTargets" \in asked["setpoints"] THEN prevTargets ELSE userTargets)
        /\ Ran("setpoints", {"targets"})
  /\ UNCHANGED <<snapshot, type, times, store, prevTargets, userTargets, sizes, contents, frozen, control>>

(* set_initial_availabilities, and material_menu_canceled.                  *)
CountCapacity ==
  /\ Ready("capacity") /\ capacity' = (IF period = None THEN 100 ELSE Capacity[period])
  /\ Ran("capacity", {"capacity"})
  /\ UNCHANGED <<snapshot, type, times, store, amounts, total, contents, frozen, control>>

Amount == IF targets = None THEN None ELSE FoldSet(LAMBDA c, n : n + targets[c][1] \div targets[c][2], 0, Categories[1] \cap DOMAIN targets)

SetTotal ==
  /\ Ready("total") /\ Ran("total", {})
  /\ total' = (IF "capacity" \in asked["total"] THEN capacity ELSE IF Amount = None THEN total ELSE Amount)
  /\ UNCHANGED <<snapshot, type, times, store, amounts, capacity, contents, frozen, control>>

-----------------------------------------------------------------------------
(* set_storage_levels: from the nearest snapshot if it is within a day, or  *)
(* half full.                                                               *)
Near(d) == {s \in Snapshot : s - d \in -1 .. 1 /\ \A r \in Snapshot : (s - d) * (s - d) <= (r - d) * (r - d)}
SourceOf(c) ==
  IF "half" \in c THEN {"half"}
  ELSE IF "fromSnapshot" \in c THEN IF startAt \in Snapshot THEN {startAt} ELSE IF levels = None THEN {"half"} ELSE {}
  ELSE IF Near(startAt) # {} THEN Near(startAt) ELSE {"half"}

SetLevels ==
  LET c == asked["levels"]
      structured == "structure" \in c /\ levels # None /\ c \cap {"half", "fromSnapshot"} = {}
  IN
  /\ Ready("levels")
  /\ \/ "clear" \in c /\ levels' = None /\ Ran("levels", {"levels"})
     \/ "clear" \notin c /\ structured /\ levels' = [levels EXCEPT !.structured = TRUE] /\ Ran("levels", {"levels"})
     \/ /\ "clear" \notin c /\ ~structured
        /\ \/ SourceOf(c) = {} /\ Ran("levels", {}) /\ UNCHANGED levels
           \/ \E s \in SourceOf(c) : levels' = [source |-> s, structured |-> FALSE] /\ Ran("levels", {"levels"})
  /\ UNCHANGED <<snapshot, type, times, store, amounts, sizes, fields, frozen, control>>

(* set_storage_targets_overview: the fields are new, with the levels of the *)
(* store.                                                                   *)
Overview ==
  /\ Ready("overview") /\ Ran("overview", {})
  /\ fields' = (IF levels = None THEN None ELSE [source |-> levels.source, edited |-> FALSE])
  /\ UNCHANGED <<snapshot, type, times, store, amounts, sizes, levels, frozen, control>>

(* frozen_lot_structure.                                                    *)
ShowFrozen ==
  /\ Ready("frozen") /\ Ran("frozen", {})
  /\ frozen' = (IF type = "now" /\ period # None THEN <<snapshot, period>> ELSE None)
  /\ UNCHANGED <<snapshot, type, times, store, amounts, sizes, contents, control>>

(* check_start_stop.  The levels are those of the fields, the structure of  *)
(* a storage is the default one; the lots that are looked up are not handed *)
(* on to the run, and the total is not compared with the targets.           *)
Check ==
  LET c == asked["check"]
      tries == ~busy /\ "start" \in c
      fails == period = None \/ total \in {None, 0} \/ fields = None
      starts == tries /\ ~fails /\ targets # None
      runs == (busy \/ starts) /\ "stop" \notin c
  IN
  /\ Ready("check") /\ Ran("check", {})
  /\ begun' = (IF starts THEN [period |-> period, targets |-> targets, total |-> total, levels |-> fields] ELSE begun)
  /\ busy' = IF tries /\ fails THEN busy ELSE runs
  /\ canStart' = ((tries /\ fails) \/ (~runs /\ targets # None /\ levels # None))
  /\ UNCHANGED <<snapshot, type, times, store, amounts, sizes, contents, frozen>>

-----------------------------------------------------------------------------
Init ==
  /\ snapshot \in Snapshot /\ type = "now" /\ startAt = NextMonth /\ endAt = None /\ period = None
  /\ options = {} /\ prev = None /\ store = None
  /\ prevTargets = None /\ userTargets = None /\ targets = None /\ capacity = None /\ total = None
  /\ levels = None /\ fields = None /\ frozen = None /\ canStart = FALSE /\ busy = FALSE /\ begun = None
  /\ asked = [c \in Callback |-> IF c = "startTime" THEN {"type"} ELSE {}]
  /\ clicks = 0 /\ hasty = 0

Next ==
  \/ \E s \in Snapshot : ChooseSnapshot(s)
  \/ \E t \in {"now", "nextmonth", "other"} : ChooseType(t)
  \/ \E d \in Days : ChooseStart(d) \/ ChooseEnd(d)
  \/ \E s \in Solution \cup {None} : ChoosePrevious(s)
  \/ \E b \in Buttons : Press(b)
  \/ AcceptTargets \/ EditFields \/ AcceptStorage \/ RunEnds
  \/ StartTime \/ LoadPrevious \/ CountRemaining \/ Setpoints \/ CountCapacity \/ SetTotal
  \/ SetLevels \/ Overview \/ ShowFrozen \/ Check

Spec == Init /\ [][Next]_vars

-----------------------------------------------------------------------------
Ends == Days \cup Months \cup {PeriodOf[s][2] : s \in Solution}

(* Every variable keeps its type.                                           *)
LongTermPageTypeOK ==
  /\ snapshot \in Snapshot /\ type \in {"now", "nextmonth", "other"} /\ startAt \in Days
  /\ endAt \in Ends \cup {None} /\ (period # None => period \in Days \X Ends)
  /\ options \subseteq Solution /\ {prev, store} \subseteq Solution \cup {None}
  /\ {canStart, busy} \subseteq BOOLEAN /\ \A c \in Callback : asked[c] \subseteq Inputs[c]
  /\ clicks \in 0 .. MaxClicks /\ hasty \in 0 .. MaxHasty

(* Whatever was clicked in between: once no callback is left to run, the    *)
(* period is that of the fields and of the previous solution, and what is   *)
(* derived from them is that of the period.                                 *)
QuietPeriodIsConsistent ==
  Quiet =>
    /\ period # None => period = <<startAt, endAt>> /\ startAt < endAt
    /\ type = "now" /\ prev # None => period # None /\ (PeriodOf[prev][2] > startAt => endAt = PeriodOf[prev][2])
    /\ store = IF type = "now" THEN prev ELSE None
    /\ store # None /\ ~Fails(store, startAt)
         => prevTargets = Remaining(Planned[store], MadeSince(store, startAt)) /\ targets # None
    /\ capacity = IF period = None THEN 100 ELSE Capacity[period]
    /\ frozen = IF type = "now" /\ period # None THEN <<snapshot, period>> ELSE None
    /\ IF levels = None THEN fields = None ELSE fields.source = levels.source

(* What is left of a previous solution is what it planned without what was  *)
(* produced, in every category, and no amount is negative: if the planned   *)
(* and the produced amounts are the same in each.                           *)
Balanced(f) == \A i \in DOMAIN Categories : SumAt(f, Categories[i]) = SumAt(f, Categories[1])

RemainingAddsUp ==
  store # None /\ period # None =>
    LET plan == Planned[store]
        made == MadeSince(store, period[1])
        left == Remaining(plan, made)
        done == Histories(store, period[1])
        missing == SumAt(plan, Categories[1]) - MapThenSumSet(LAMBDA i : SumAt(done[i], Categories[1]), DOMAIN done)
    IN
    Balanced(plan) /\ Balanced(made) /\ DOMAIN made \subseteq DOMAIN plan =>
      /\ ~Raises(plan, made)
      /\ \A c \in DOMAIN left : left[c][1] >= 0 /\ left[c][2] > 0
      /\ \A i \in DOMAIN Categories :
           LET cat == Categories[i] \cap DOMAIN left
               by == ProductSet({left[c][2] : c \in cat})
           IN MapThenSumSet(LAMBDA c : (left[c][1] * by) \div left[c][2], cat) = by * Max({missing, 0})

=============================================================================
