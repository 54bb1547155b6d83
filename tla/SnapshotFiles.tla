----------------------------- MODULE SnapshotFiles -----------------------------
(***************************************************************************)
(* Snapshots read from files: the provider lists a folder once, remembers  *)
(* which file it found to be the newest, and reads the orders of a file    *)
(* from the rows of their materials                                        *)
(* (DynReActBase/dynreact/base/impl/FileSnapshotProvider.py and the        *)
(* functions of SnapshotProvider.py it inherits).  Files are written in    *)
(* the order of their times and stay; a name may be without a time.        *)
(***************************************************************************)
EXTENDS Integers, Sequences, SequencesExt, FiniteSetsExt, TLC

CONSTANTS
  None, File,
  TimeOf,   \* [File -> the time in its name, or None]
  Rows,     \* [File -> sequence of rows [order, weight, process, equipment, width]]
  Process, Equipment, \* of the site
  Classes,  \* a sequence of classes with conditions on the width: [id, op, value]
  Clock,    \* the times there are
  Minute, Window, MaxRestarts

FilesAssumption ==
  /\ \A f \in File : TimeOf[f] = None \/ TimeOf[f] \in Nat
  /\ \A f, g \in File : TimeOf[f] # None /\ TimeOf[f] = TimeOf[g] => f = g
  /\ Clock \subseteq Nat /\ Minute \in Nat \ {0} /\ Window > Minute /\ MaxRestarts \in Nat

VARIABLES
  now, disk,  \* the files in the folder
  provider,   \* [ids, complete, latest]: _snapshot_ids, _snapshot_index_complete, _latest_snapshot_file; seen: (observed) disk when listed
  restarts

filesVars == <<now, disk, provider, restarts>>

Timed(fs) == {f \in fs : TimeOf[f] # None}
Floor(t) == t - (t % Minute)
Distance(s, t) == IF s < t THEN t - s ELSE s - t

-----------------------------------------------------------------------------
(* snapshots(): a single file needs no time in its name.                    *)
Indexed ==
  IF Cardinality(disk) = 1 THEN [f \in disk |-> IF TimeOf[f] = None THEN Floor(now) ELSE TimeOf[f]]
  ELSE [f \in Timed(disk) |-> TimeOf[f]]

Listed(p) ==
  IF p.complete /\ p.ids # <<>> THEN p
  ELSE [p EXCEPT !.ids = Indexed @@ @, !.complete = TRUE, !.seen = disk]

(* current_snapshot_id(): the newest file, once it was found.               *)
WithCurrent(p) ==
  IF p.latest # None \/ Timed(disk) = {} THEN p
  ELSE LET f == CHOOSE f \in Timed(disk) : \A g \in Timed(disk) : TimeOf[g] <= TimeOf[f]
       IN [p EXCEPT !.latest = f, !.ids = @ @@ (f :> TimeOf[f])]

CurrentId(p) == IF p.latest = None THEN None ELSE TimeOf[p.latest]

Times(p) == Range(p.ids)
Previous(p, t) == LET ts == {s \in Times(p) : s < t} IN IF ts = {} THEN None ELSE Max(ts)
Following(p, t) == LET ts == {s \in Times(p) : t <= s} IN IF ts = {} THEN None ELSE Min(ts)

(* load(), of a time that is listed, or of the newest before now.           *)
Load(p, t) ==
  LET time == IF t = None THEN Previous(p, now) ELSE t
      fs == {f \in DOMAIN p.ids : p.ids[f] = time}
  IN IF fs = {} THEN None ELSE CHOOSE f \in fs : TRUE

(* get_snapshot() of the service: the nearest of less than ten minutes.     *)
Nearest(p, t) ==
  LET ts == {s \in Times(p) : t - Window <= s /\ s < t + Window} IN
  IF ts = {} THEN t
  ELSE CHOOSE s \in ts : \A r \in ts : Distance(s, t) < Distance(r, t) \/ (Distance(s, t) = Distance(r, t) /\ s <= r)

GetSnapshot(t) ==
  LET p == IF t = None THEN WithCurrent(provider) ELSE provider
      time == IF t = None THEN CurrentId(p) ELSE t
      q == Listed(p)
  IN [provider |-> q, file |-> Load(q, IF time = None THEN None ELSE Nearest(q, time))]

-----------------------------------------------------------------------------
(* _read_csv: an order is made of the first of its rows, the others add to  *)
(* it.  A row of an unknown process is an error.                            *)
Readable(f) == \A i \in DOMAIN Rows[f] : Rows[f][i].process \in Process

Compare(v, op, w) ==
  CASE op = "=" -> v = w [] op = ">" -> v > w [] op = ">=" -> v >= w [] op = "<" -> v < w [] op = "<=" -> v <= w

ClassOf(width) ==
  LET is == {i \in DOMAIN Classes : Compare(width, Classes[i].op, Classes[i].value)}
  IN IF is = {} THEN None ELSE Classes[Min(is)].id

NewOrder(row) ==
  [weight |-> row.weight, processes |-> <<row.process>>, class |-> ClassOf(row.width),
   equipment |-> IF row.equipment \in Equipment THEN <<row.equipment>> ELSE <<>>]

(* A process is compared with ids, so that each row adds its process.       *)
AddRow(o, row) ==
  [o EXCEPT !.weight = @ + row.weight, !.processes = SortSeq(Append(@, row.process), LAMBDA a, b : a < b),
            !.equipment = IF row.equipment \in Equipment /\ ~ Contains(@, row.equipment) THEN Append(@, row.equipment) ELSE @]

ReadOrders(f) ==
  FoldLeft(LAMBDA os, row : (row.order :> IF row.order \in DOMAIN os THEN AddRow(os[row.order], row) ELSE NewOrder(row)) @@ os,
           <<>>, Rows[f])

-----------------------------------------------------------------------------
(* The folder, the clock, restarts of the service, and its other users.     *)
Write(f) ==
  /\ f \notin disk /\ disk' = disk \cup {f}
  /\ TimeOf[f] # None => TimeOf[f] <= now /\ \A g \in Timed(disk) : TimeOf[g] < TimeOf[f]
  /\ UNCHANGED <<now, provider, restarts>>

Tick == \E t \in Clock : t > now /\ now' = t /\ (\A s \in Clock : s > now => t <= s) /\ UNCHANGED <<disk, provider, restarts>>

AskCurrent == provider' = WithCurrent(provider) /\ UNCHANGED <<now, disk, restarts>>

Fresh == [ids |-> <<>>, complete |-> FALSE, latest |-> None, seen |-> {}]

Restart ==
  /\ restarts < MaxRestarts /\ restarts' = restarts + 1
  /\ provider' = Fresh /\ UNCHANGED <<now, disk>>

FilesInit == now = Min(Clock) /\ disk = {} /\ provider = Fresh /\ restarts = 0

FilesNext == (\E f \in File : Write(f)) \/ Tick \/ AskCurrent \/ Restart

-----------------------------------------------------------------------------
FilesTypeOK ==
  /\ now \in Clock /\ disk \subseteq File /\ restarts \in 0 .. MaxRestarts
  /\ DOMAIN provider.ids \subseteq disk /\ Times(provider) \subseteq Nat
  /\ provider.complete \in BOOLEAN /\ provider.latest \in disk \cup {None}

(* What was there when the folder was listed stays listed with its time, so *)
(* does the newest file that was found; and no file is listed at two times. *)
ListingKeepsItsFiles ==
  /\ Cardinality(provider.seen) # 1 => Timed(provider.seen) \subseteq DOMAIN provider.ids
  /\ provider.seen # {} /\ Cardinality(provider.seen) = 1 => provider.seen \subseteq DOMAIN provider.ids
  /\ provider.latest # None => provider.latest \in DOMAIN provider.ids
  /\ \A f \in DOMAIN provider.ids : TimeOf[f] # None => provider.ids[f] = TimeOf[f]

(* The orders of a file are those of its rows, and each has the weight, the *)
(* processes and the equipments of all its materials.                       *)
OrdersAddUp ==
  \A f \in disk : Readable(f) =>
    LET rows == Rows[f]
        os == ReadOrders(f)
        of(o) == {i \in DOMAIN rows : rows[i].order = o}
    IN /\ DOMAIN os = {rows[i].order : i \in DOMAIN rows}
       /\ \A o \in DOMAIN os :
            /\ os[o].weight = MapThenSumSet(LAMBDA i : rows[i].weight, of(o))
            /\ ToSet(os[o].processes) = {rows[i].process : i \in of(o)}
            /\ ToSet(os[o].equipment) = {rows[i].equipment : i \in of(o)} \cap Equipment
            /\ Len(os[o].equipment) = Cardinality(ToSet(os[o].equipment))
            /\ os[o].class # None => \E k \in DOMAIN Classes : Classes[k].id = os[o].class
                                      /\ Compare(rows[Min(of(o))].width, Classes[k].op, Classes[k].value)

=============================================================================
