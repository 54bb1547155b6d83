---------------------------- MODULE Availability ----------------------------
(***************************************************************************)
(* When an equipment is available: the calendar of the long term planning  *)
(* page, the files it is saved to, the shifts that are planned, and what   *)
(* the planning is told (DynReActBase/dynreact/base/                       *)
(* PlantAvailabilityPersistence.py, impl/FileAvailabilityPersistence.py,   *)
(* gui/pages/long_term_planning.py, assets/js/1_plantCalendar.js).  One    *)
(* equipment, as they are independent of each other.  Days are numbers,    *)
(* and each has Full units of time.                                        *)
(***************************************************************************)
EXTENDS Integers, Sequences, SequencesExt, FiniteSetsExt, Functions, TLC

CONSTANTS
  None, User, Periods,   \* Periods: the pairs of days a page may be set to
  Full,                  \* a day, in hours
  Shifts, ShiftLimit,    \* a sequence of [start, end, work]; how many are loaded at most
  OfOthers,              \* what the folder may hold in the beginning: functions on starts of periods
  MaxSaves               \* bound

Days == UNION {p[1] .. p[2] - 1 : p \in Periods}
Availabilities == [start : Days, end : {p[2] : p \in Periods}, baseline : 0 .. Full, deltas : UNION {[D -> -Full .. Full] : D \in SUBSET Days}]

AvailabilityAssumption ==
  /\ \A p \in Periods : p \in Nat \X Nat /\ p[1] < p[2]
  /\ Full \in Nat \ {0} /\ {ShiftLimit, MaxSaves} \subseteq Nat
  /\ \A i \in DOMAIN Shifts : Shifts[i].start < Shifts[i].end
  /\ \A f \in OfOthers : \A s \in DOMAIN f : f[s] \in Availabilities /\ f[s].start = s

VARIABLES
  files,     \* the folder of the equipment: a function from starts of periods
  cache,     \* _parse_file: a function on some of them
  reading,   \* [User -> what has been read and not yet cached, or None]
  calendar,  \* [User -> [period, hours, baseline], or None]
  clearing,  \* users who have written a file and not yet cleared the cache
  saved,     \* [Days -> the hours last saved for the day, or None]
  mixed,     \* periods that overlap have been saved; these two are not in the code
  overtaken, \* a file has been written between its being read and being cached
  saves

vars == <<files, cache, reading, calendar, clearing, saved, mixed, overtaken, saves>>

-----------------------------------------------------------------------------
(* load: the files whose period begins in the period, in their order.       *)
Begins(p) == {s \in DOMAIN files : p[1] <= s /\ s < p[2]}
KnownHours == [s \in DOMAIN files |-> IF s \in DOMAIN cache THEN cache[s] ELSE files[s]]
Loaded(p) == LET starts == SetToSortSeq(Begins(p), <) IN [i \in DOMAIN starts |-> KnownHours[starts[i]]]
Covers(av, d) == av.start <= d /\ d < av.end

SumOver(S, f(_)) == MapThenSumSet(f, S)
HoursIn(av, d) == av.baseline + IF d \in DOMAIN av.deltas THEN av.deltas[d] ELSE 0

(* The shifts of a period; those that reach beyond it are cut, and a single *)
(* one that is cut is there twice.                                          *)
LoadedShifts(p) ==
  LET overlapping == SelectSeq(Shifts, LAMBDA s : s.end > p[1] * Full /\ s.start < p[2] * Full)
  IN SubSeq(overlapping, 1, Min({Len(overlapping), ShiftLimit}))

CutTo(sh, from, to) == [start |-> from, end |-> to, work |-> (sh.work * (to - from)) \div (sh.end - sh.start)]

CutShifts(p) ==
  LET shs == LoadedShifts(p)
      n == Len(shs)
      first == shs[1]
      last == shs[n]
      cutsFirst == first.start < p[1] * Full
      cutsLast == last.end > p[2] * Full
  IN IF n = 0 \/ ~(cutsFirst \/ cutsLast) THEN shs
     ELSE <<IF cutsFirst THEN CutTo(first, p[1] * Full, first.end) ELSE first>>
          \o SubSeq(shs, 2, n - 1)
          \o <<IF cutsLast THEN CutTo(last, last.start, p[2] * Full) ELSE last>>

(* PlantAvailabilityPersistence.aggregate: the hours of each day, or None,  *)
(* where the deltas of an availability without any are looked up.           *)
BaselineOf(avs) ==
  LET baselines == {avs[i].baseline : i \in DOMAIN avs} IN
  IF Cardinality(baselines) = 1 THEN CHOOSE b \in baselines : TRUE ELSE Full

(* The deltas of all availabilities; gaps between them are fully available. *)
Deltas(p, avs) ==
  LET base == BaselineOf(avs)
      gap(from, to) == [d \in IF base = Full THEN {} ELSE from .. to - 1 |-> Full - base]
      own(av) == IF av.baseline = base THEN av.deltas
                 ELSE LET days == Max({p[1], av.start}) .. Min({p[2], av.end}) - 1 IN
                      [d \in {d \in days : HoursIn(av, d) # base} |-> HoursIn(av, d) - base]
      add(acc, av) == [at |-> av.end, all |-> own(av) @@ gap(acc.at, av.start) @@ acc.all]
      added == FoldLeft(add, [at |-> p[1], all |-> <<>>], avs)
  IN gap(added.at, p[2]) @@ added.all

ShiftDelta(p, d) ==
  LET shs == CutShifts(p)
      delta(i) == IF shs[i].start \div Full = d THEN shs[i].work - (shs[i].end - shs[i].start) ELSE 0
  IN SumOver(DOMAIN shs, delta)

Raises(avs) == \E i \in DOMAIN avs : avs[i].baseline # BaselineOf(avs) /\ avs[i].deltas = <<>>

Planned(p) ==
  LET avs == Loaded(p)
      deltas == Deltas(p, avs)
  IN [d \in p[1] .. p[2] - 1 |->
        BaselineOf(avs) + IF d \in DOMAIN deltas THEN deltas[d] ELSE ShiftDelta(p, d)]

(* set_initial_availabilities: the hours the page counts.                   *)
CountAv(p, acc, av) ==
  LET to == Min({p[2], av.end})
      from == Max({acc.at, av.start})
      gap == from - acc.at
  IN IF av.end <= acc.at \/ av.start >= p[2] THEN acc
     ELSE [at |-> to, hours |-> acc.hours + gap * Full + SumOver(from .. to - 1, LAMBDA d : HoursIn(av, d))]

CountShifts(p) ==
  LET shs == LoadedShifts(p)
      inside(sh) == Min({sh.end, p[2] * Full}) - Max({sh.start, p[1] * Full})
  IN SumOver(DOMAIN shs, LAMBDA i : (shs[i].work * inside(shs[i])) \div (shs[i].end - shs[i].start))

Counted(p) ==
  LET avs == Loaded(p) IN
  IF avs = <<>> THEN CountShifts(p)
  ELSE FoldLeft(LAMBDA acc, av : CountAv(p, acc, av), [at |-> p[1], hours |-> 0], avs).hours
       + (IF p[2] > Last(avs).end THEN (p[2] - Last(avs).end) * Full ELSE 0)

(* The calendar: the first availability of a day, else the shifts that begin*)
(* on it, else nothing.                                                     *)
ShownHours(p, avs) ==
  [d \in p[1] .. p[2] - 1 |->
     LET covering == SelectSeq(avs, LAMBDA av : Covers(av, d))
         shs == LoadedShifts(p)
     IN IF covering # <<>> THEN HoursIn(Head(covering), d)
        ELSE SumOver(DOMAIN shs, LAMBDA i : IF shs[i].start \div Full = d THEN shs[i].work ELSE 0)]

-----------------------------------------------------------------------------
(* init_calendar, in two steps: what is not cached is read and cached.      *)
Read(u, p) ==
  /\ reading[u] = None /\ u \notin clearing
  /\ reading' = [reading EXCEPT ![u] = [period |-> p, read |-> [s \in Begins(p) |-> KnownHours[s]]]]
  /\ calendar' = [calendar EXCEPT ![u] = None]   \* it will be replaced, and is not used until then
  /\ UNCHANGED <<files, cache, clearing, saved, mixed, overtaken, saves>>

Show(u) ==
  /\ reading[u] # None
  /\ LET p == reading[u].period
         read == reading[u].read
         starts == SetToSortSeq(DOMAIN read, <)
         avs == [i \in DOMAIN starts |-> read[starts[i]]]
         baseline == IF avs = <<>> THEN Full ELSE Head(avs).baseline
     IN /\ cache' = read @@ cache
        /\ calendar' = [calendar EXCEPT ![u] = [period |-> p, hours |-> ShownHours(p, avs), baseline |-> baseline]]
        /\ overtaken' = (overtaken \/ \E s \in DOMAIN read : s \notin DOMAIN files \/ files[s] # read[s])
  /\ reading' = [reading EXCEPT ![u] = None]
  /\ UNCHANGED <<files, clearing, saved, mixed, saves>>

(* The user changes a day at most and saves; a day that has the hours of the*)
(* baseline is left out.                                                    *)
Entries(c) == {c.hours} \cup {[c.hours EXCEPT ![d] = h] : d \in DOMAIN c.hours, h \in {0, Full}}

Saved(c, hours) ==
  [start |-> c.period[1], end |-> c.period[2], baseline |-> c.baseline,
   deltas |-> [d \in {d \in DOMAIN hours : hours[d] # c.baseline /\ hours[d] <= Full} |-> hours[d] - c.baseline]]

Overlaps(av) == {s \in DOMAIN files : files[s].start < av.end /\ av.start < files[s].end}

Save(u) ==
  /\ calendar[u] # None /\ u \notin clearing /\ reading[u] = None /\ saves < MaxSaves
  /\ \E hours \in Entries(calendar[u]) :
       LET av == Saved(calendar[u], hours) IN
       /\ files' = av.start :> av @@ files
       /\ saved' = [d \in Days |-> IF Covers(av, d) THEN HoursIn(av, d) ELSE saved[d]]
       /\ mixed' = (mixed \/ \E s \in Overlaps(av) : <<s, files[s].end>> # <<av.start, av.end>>)
  /\ clearing' = clearing \cup {u} /\ saves' = saves + 1
  /\ UNCHANGED <<cache, reading, calendar, overtaken>>

ClearCache(u) ==
  /\ u \in clearing
  /\ cache' = <<>> /\ clearing' = clearing \ {u}
  /\ UNCHANGED <<files, reading, calendar, saved, mixed, overtaken, saves>>

(* "Clear": the files that begin in the period of the page are deleted, and *)
(* the cache is cleared if there were some.                                 *)
Delete(u, p) ==
  /\ calendar[u] # None /\ u \notin clearing /\ reading[u] = None /\ Begins(p) # {} /\ saves < MaxSaves
  /\ files' = Restrict(files, DOMAIN files \ Begins(p))
  /\ saved' = [d \in Days |-> IF \E s \in Begins(p) : Covers(files[s], d) THEN None ELSE saved[d]]
  /\ clearing' = clearing \cup {u} /\ saves' = saves + 1
  /\ UNCHANGED <<cache, reading, calendar, mixed, overtaken>>

Init ==
  /\ files \in OfOthers
  /\ cache = <<>> /\ clearing = {} /\ mixed = FALSE /\ overtaken = FALSE /\ saves = 0
  /\ reading = [u \in User |-> None] /\ calendar = [u \in User |-> None]
  /\ saved = [d \in Days |-> IF \E s \in DOMAIN files : Covers(files[s], d)
                             THEN HoursIn(files[CHOOSE s \in DOMAIN files : Covers(files[s], d)], d) ELSE None]

Next ==
  \E u \in User :
    \/ \E p \in Periods : Read(u, p) \/ Delete(u, p)
    \/ Show(u) \/ Save(u) \/ ClearCache(u)

Spec == Init /\ [][Next]_vars

-----------------------------------------------------------------------------
AvailabilityTypeOK ==
  /\ \A s \in DOMAIN files : files[s] \in Availabilities
  /\ \A s \in DOMAIN cache : cache[s] \in Availabilities
  /\ clearing \subseteq User /\ {mixed, overtaken} \subseteq BOOLEAN /\ saves \in 0 .. MaxSaves
  /\ saved \in [Days -> 0 .. Full \cup {None}]

(* Nothing that is said below holds while a file is being written, after one*)
(* was overtaken by a reader, and for periods that cut one another.         *)
Settled(p) ==
  /\ clearing = {} /\ ~mixed /\ ~overtaken
  /\ \A s \in DOMAIN files : files[s].end <= p[1] \/ p[2] <= s \/ (p[1] <= s /\ files[s].end <= p[2])

(* A day the user has set to the baseline is not kept apart from one that   *)
(* was not set: the shifts change it.                                       *)
Definite(p, d) == saved[d] # BaselineOf(Loaded(p)) \/ ShiftDelta(p, d) = 0

FullyShifted(p) ==
  LET shs == LoadedShifts(p) IN
  \A t \in p[1] * Full .. p[2] * Full - 1 : \E i \in DOMAIN shs : shs[i].start <= t /\ t < shs[i].end

(* The planning works with the hours that were saved last, and where none   *)
(* were saved, with what the shifts leave of a day.                         *)
SavedIsPlanned ==
  \A p \in Periods : Settled(p) /\ ~Raises(Loaded(p)) =>
    \A d \in p[1] .. p[2] - 1 :
      /\ saved[d] # None /\ Definite(p, d) => Planned(p)[d] = saved[d]
      /\ saved[d] = None /\ BaselineOf(Loaded(p)) = Full => Planned(p)[d] = Full + ShiftDelta(p, d)

(* The hours the page counts, which give the total to be produced, are those*)
(* the planning is told, if all of the time is in a shift or was saved.     *)
CountedIsPlanned ==
  \A p \in Periods :
    /\ Settled(p) /\ ~Raises(Loaded(p)) /\ Len(LoadedShifts(p)) # 1
    /\ IF Loaded(p) = <<>> THEN FullyShifted(p)
       ELSE \A d \in p[1] .. p[2] - 1 : IF saved[d] = None THEN ShiftDelta(p, d) = 0 ELSE Definite(p, d)
    => Counted(p) = MapThenSumSet(LAMBDA d : Planned(p)[d], p[1] .. p[2] - 1)

(* A reader who is not overtaken sees what is in the files.                 *)
CacheIsFresh == clearing = {} /\ ~overtaken => \A s \in DOMAIN cache : s \in DOMAIN files /\ cache[s] = files[s]

=============================================================================
