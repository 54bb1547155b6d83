--------------------------- MODULE SnapshotSelection ---------------------------
(***************************************************************************)
(* The snapshot a browser tab shows, selected from the snapshots of files: *)
(* by the parameter of its address, by the list of the snapshot page, and  *)
(* by the buttons for the previous and the following snapshot on the other *)
(* pages (gui/dash_app.py, gui/gui_utils.py, session_state.py,             *)
(* snapshotPage.py).  The callbacks are steps of their own: a user may     *)
(* click while one is outstanding.  Links are followed when none is.       *)
(* Stores hold times as texts: those the lists offer and the shared        *)
(* selection are cut to the minute, those of the buttons are not.          *)
(***************************************************************************)
EXTENDS SnapshotFiles

CONSTANTS
  Day, MaxOptions, MaxClicks,
  Params    \* times that addresses from elsewhere ask for

SelectionAssumption ==
  /\ FilesAssumption
  /\ Day \in Nat \ {0} /\ MaxOptions \in Nat /\ MaxClicks \in Nat /\ Params \subseteq Nat
  \* the selection is cut to minutes, so that snapshots have to be two apart
  /\ \A f, g \in Timed(File) : f # g => Distance(TimeOf[f], TimeOf[g]) >= 2 * Minute
  /\ \A f \in Timed(File), t \in Clock : Distance(TimeOf[f], Floor(t)) >= 2 * Minute

VARIABLES
  page, param, \* the page of the tab, and ?snapshot= of its address
  store,       \* snapshot-selector of the page: [time, cut]
  changed,     \* inputs of the selection's callback not yet handled
  selected,    \* selected-snapshot, cut to the minute
  object,      \* selected-snapshot-obj: [file, time]
  following, preceding, \* selected-snapshot-next and -prev
  recompute,   \* the selection changed since these were computed
  options,     \* of the list of the snapshot page
  clicks,
  computed,    \* (observed) restarts, when the neighbours were computed
  wanted       \* (observed) the file of the last choice that could be read

tabVars == <<page, param, store, changed, selected, object, following, preceding, recompute, options, clicks, computed, wanted>>

FileAt(p, t) == LET fs == {f \in DOMAIN p.ids : p.ids[f] = t /\ TimeOf[f] = t} IN IF fs = {} THEN None ELSE CHOOSE f \in fs : TRUE

-----------------------------------------------------------------------------
(* get_date_range: the snapshots to choose from, and the one proposed.      *)
Offered(p, current) ==
  LET age == now - current
      end == IF 3 * Day < age /\ age < 10 * Day THEN now + Day ELSE current + 3 * Day
      dates == {t \in Times(p) : current - 90 * Day <= t /\ t < end}
  IN {d \in dates : \A e \in dates : d < e /\ e <= current => Cardinality({x \in dates : e < x}) <= MaxOptions}

WithAsked(dates, asked) ==
  IF \/ Max(dates) < asked - Minute
     \/ Min(dates) > asked + Minute THEN dates \cup {asked} ELSE dates

Closest(dates, t) == CHOOSE d \in dates : \A e \in dates : Distance(d, t) < Distance(e, t) \/ (Distance(d, t) = Distance(e, t) /\ d >= e)

(* The range around the selection, or around the newest if that is empty.   *)
DateRange ==
  LET p == Listed(provider)
      dates == Offered(p, selected)
      q == Listed(WithCurrent(provider))
      latest == CurrentId(q)
  IN IF dates # {} THEN LET ds == WithAsked(dates, selected) IN [provider |-> p, dates |-> ds, chosen |-> Closest(ds, selected)]
     ELSE IF latest = None \/ Offered(q, latest) = {} THEN [provider |-> q, dates |-> {}, chosen |-> None]
     ELSE [provider |-> q, dates |-> Offered(q, latest), chosen |-> Closest(Offered(q, latest), latest)]

-----------------------------------------------------------------------------
(* What the user does.                                                      *)
Click == clicks < MaxClicks /\ clicks' = clicks + 1

Quiet == changed = {} /\ ~ recompute

LoadApp ==
  \E pg \in {"snapshot", "other"}, t \in Params \cup {None} :
    /\ Click /\ page' = pg /\ param' = t /\ changed' = {"url"}
    /\ store' = None /\ selected' = None /\ object' = None /\ following' = None /\ preceding' = None
    /\ recompute' = FALSE /\ options' = None /\ wanted' = None
    /\ UNCHANGED <<filesVars, computed>>

(* A link within the tab carries the selection or nothing.                  *)
Open ==
  \E pg \in {"snapshot", "other"}, t \in {None, selected} :
    /\ Click /\ Quiet /\ pg # page /\ page' = pg /\ param' = t
    /\ changed' = IF t # param THEN {"url"} ELSE {}
    /\ store' = None /\ options' = None
    /\ UNCHANGED <<filesVars, selected, object, following, preceding, recompute, wanted, computed>>

SetStore(t, cut) == store' = [time |-> t, cut |-> cut] /\ changed' = changed \cup {"store"}

Choose ==
  /\ Click /\ page = "snapshot" /\ options # None
  /\ \E d \in options : SetStore(Floor(d), TRUE) /\ wanted' = FileAt(provider, d)
  /\ UNCHANGED <<filesVars, page, param, selected, object, following, preceding, recompute, options, computed>>

(* The buttons take what was last computed for them; as long as the page    *)
(* has no selection of its own a click only copies the shared one.          *)
Step ==
  \E t \in {following, preceding} \ {None} :
    /\ Click /\ page = "other" /\ ~ (store = None /\ selected = None)
    /\ IF store = None THEN SetStore(selected, FALSE) /\ UNCHANGED wanted
       ELSE SetStore(t, FALSE) /\ wanted' = FileAt(provider, t)
    /\ UNCHANGED <<filesVars, page, param, selected, object, following, preceding, recompute, options, computed>>

-----------------------------------------------------------------------------
(* What the pages do.                                                       *)
InitStore ==
  /\ page = "other" /\ store = None /\ selected # None /\ SetStore(selected, FALSE)
  /\ UNCHANGED <<filesVars, page, param, selected, object, following, preceding, recompute, options, clicks, wanted, computed>>

InitOptions ==
  /\ page = "snapshot" /\ options = None /\ selected # None
  /\ LET range == DateRange IN
       /\ provider' = range.provider /\ options' = range.dates
       /\ IF range.chosen = None THEN UNCHANGED <<store, changed>> ELSE SetStore(Floor(range.chosen), TRUE)
  /\ UNCHANGED <<now, disk, restarts, page, param, selected, object, following, preceding, recompute, clicks, wanted, computed>>

(* snapshot_params_changed: the page's choice goes before the address; with *)
(* neither, the newest is selected unless there is a selection.             *)
Asked == IF "store" \in changed /\ store # None THEN store ELSE IF param # None THEN [time |-> param, cut |-> TRUE] ELSE None

Selects == IF Asked = None \/ (Asked.cut /\ Asked.time = selected) THEN selected = None ELSE TRUE

Select ==
  /\ changed # {} /\ changed' = {}
  /\ IF ~ Selects THEN UNCHANGED <<provider, selected, object, recompute, wanted>>
     ELSE LET result == GetSnapshot(IF Asked = None THEN None ELSE Asked.time)
              file == result.file
          IN /\ provider' = result.provider
             /\ IF file # None /\ ~ Readable(file) THEN wanted' = None /\ UNCHANGED <<selected, object, recompute>>
                ELSE /\ recompute' = TRUE
                     /\ IF file = None THEN selected' = None /\ object' = None /\ wanted' = None
                        ELSE /\ object' = [file |-> file, time |-> result.provider.ids[file]]
                             /\ selected' = Floor(object'.time)
                             /\ wanted' = IF Asked = None THEN WithCurrent(provider).latest
                                          ELSE IF changed = {"url"} THEN FileAt(result.provider, object'.time) ELSE wanted
  /\ UNCHANGED <<now, disk, restarts, page, param, store, following, preceding, options, clicks, computed>>

(* set_next_prev_snaps                                                      *)
SetNeighbours ==
  /\ recompute /\ recompute' = FALSE /\ computed' = restarts
  /\ IF selected = None THEN following' = None /\ preceding' = None /\ UNCHANGED provider
     ELSE /\ provider' = Listed(provider)
          /\ following' = Following(provider', selected + Minute)
          /\ preceding' = Previous(provider', selected - Minute)
  /\ UNCHANGED <<now, disk, restarts, page, param, store, changed, selected, object, options, clicks, wanted>>

-----------------------------------------------------------------------------
Init ==
  /\ FilesInit
  /\ page = "other" /\ param = None /\ changed = {"url"}
  /\ store = None /\ selected = None /\ object = None /\ following = None /\ preceding = None
  /\ recompute = FALSE /\ options = None /\ clicks = 0 /\ computed = 0 /\ wanted = None

Next ==
  \/ LoadApp \/ Open \/ Choose \/ Step
  \/ InitStore \/ InitOptions \/ Select \/ SetNeighbours
  \/ FilesNext /\ UNCHANGED tabVars

-----------------------------------------------------------------------------
SelectionTypeOK ==
  /\ FilesTypeOK
  /\ page \in {"snapshot", "other"} /\ changed \subseteq {"url", "store"} /\ recompute \in BOOLEAN
  /\ clicks \in 0 .. MaxClicks /\ computed \in 0 .. MaxRestarts /\ (options = None \/ options \subseteq Nat)
  /\ selected = None <=> object = None

(* When all callbacks are through, the tab shows the file the user chose    *)
(* last (the newest, if nothing was asked for), the shared selection is the *)
(* minute of that file, and so is the selection of the page.  Chosen files  *)
(* that cannot be read are left out.                                        *)
TabShowsTheChoice ==
  Quiet /\ wanted # None =>
    /\ object # None /\ object.file = wanted /\ selected = Floor(TimeOf[wanted])
    /\ store # None => Floor(store.time) = selected

(* Going to the following or the preceding snapshot leaves none out, and    *)
(* never stays at the same.  (After a restart of the service files are      *)
(* listed anew, one without a time at another one; the tab learns of it     *)
(* when its selection changes.)                                             *)
ButtonsLeaveNoneOut ==
  ~ recompute /\ computed = restarts /\ object # None /\ object.time = TimeOf[object.file] =>
    /\ following # None => object.time < following /\ \A t \in Times(provider) : ~ (object.time < t /\ t < following)
    /\ preceding # None => preceding < object.time /\ \A t \in Times(provider) : ~ (preceding < t /\ t < object.time)

(* The list of the snapshot page offers what the tab shows.                 *)
ShownIsOffered == page = "snapshot" /\ options # None /\ wanted # None /\ Quiet => Floor(object.time) \in {Floor(d) : d \in options}

=============================================================================
