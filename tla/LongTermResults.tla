-------------------------- MODULE LongTermResults --------------------------
(***************************************************************************)
(* The long term planning of the GUI and the store of its results: a       *)
(* thread per run, results in files or in memory, and two caches in front  *)
(* of the files, one of the months and one of the solutions of a month.    *)
(* (DynReActService/dynreact/gui/pages/long_term_planning.py,              *)
(*  ltp_results.py, DynReActBase/dynreact/base/impl/FileResultsPersistence  *)
(*  .py, MemoryResultsPersistence.py)                                      *)
(*                                                                         *)
(* Callbacks of sessions and threads of runs interleave at every access to *)
(* what they share.  What a run computes is the run itself.  delete_ltp,   *)
(* which nothing in the service calls, is left out.                        *)
(***************************************************************************)
EXTENDS Integers, FiniteSets

CONSTANTS
  None,
  Session,
  StartTime,   \* starts of planning periods
  Month,
  MonthOf,     \* [StartTime -> Month]
  MaxRuns,     \* bound: runs in one behaviour
  MaxSecond,   \* bound: the clock, in seconds
  MaxRestarts  \* bound

ResultsAssumption ==
  /\ MonthOf \in [StartTime -> Month]
  /\ MaxRuns \in Nat /\ MaxSecond \in Nat /\ MaxRestarts \in Nat
  /\ \A found \in (SUBSET Month) \cup SUBSET (StartTime \X ((0 .. MaxSecond) \X {0})) : found # None

VARIABLES
  ltpThread,   \* ltp_thread of the page module
  run,         \* the threads, by number
  numRuns,
  second,      \* the clock, as far as ids show it
  files,       \* solution files: [<<start, id>> -> run that wrote it]
  memory,      \* results in memory, likewise
  months,      \* _ltp_months_cache
  ids,         \* _ltp_ids_cache
  session,     \* what a session's callback is doing
  raced,       \* (observed) files stored while somebody was filling a cache
  restarts

cacheVars == <<months, ids>>
vars == <<ltpThread, run, numRuns, second, files, memory, cacheVars, session, raced, restarts>>

Runs == 1 .. MaxRuns
Idle == [at |-> "idle"]
OfMonth(m) == {f \in DOMAIN files : MonthOf[f[1]] = m}

-----------------------------------------------------------------------------
(* Filling the caches: list the folder, then assign.  A month that is not   *)
(* known has no solutions; whatever a callback wants, it looks there first. *)
MonthsOnDisk == {MonthOf[f[1]] : f \in DOMAIN files}
Filling == {s \in Session : session[s].at \in {"months", "ids"}}

Needs(t, then) ==
  IF months = None THEN [at |-> "months", start |-> t, found |-> MonthsOnDisk, then |-> then]
  ELSE IF MonthOf[t] \in months /\ ids[MonthOf[t]] = None
  THEN [at |-> "ids", start |-> t, found |-> OfMonth(MonthOf[t]), then |-> then]
  ELSE [at |-> then, start |-> t]

FillMonths(s) ==
  /\ session[s].at = "months"
  /\ months' = session[s].found
  /\ LET c == session[s]
         m == MonthOf[c.start]
     IN session' = [session EXCEPT ![s] =
          IF m \in c.found /\ ids[m] = None
          THEN [at |-> "ids", start |-> c.start, found |-> OfMonth(m), then |-> c.then]
          ELSE [at |-> c.then, start |-> c.start]]
  /\ UNCHANGED <<ltpThread, run, numRuns, second, files, memory, ids, raced, restarts>>

FillIds(s) ==
  /\ session[s].at = "ids"
  /\ ids' = [ids EXCEPT ![MonthOf[session[s].start]] = session[s].found]
  /\ session' = [session EXCEPT ![s] = [at |-> @.then, start |-> @.start]]
  /\ UNCHANGED <<ltpThread, run, numRuns, second, files, memory, months, raced, restarts>>

(* solutions_ltp, as the caches answer it now, or will once filled.         *)
Listed(t) ==
  {f \in IF months = None THEN DOMAIN files
         ELSE IF MonthOf[t] \notin months THEN {}
         ELSE IF ids[MonthOf[t]] = None THEN DOMAIN files ELSE ids[MonthOf[t]] : f[1] = t}

(* ltp_results.find_solutions: list, then load each.                        *)
ShowSolutions(s, t) ==
  /\ session[s] = Idle
  /\ session' = [session EXCEPT ![s] = Needs(t, "load")]
  /\ UNCHANGED <<ltpThread, run, numRuns, second, files, memory, cacheVars, raced, restarts>>

LoadSolutions(s) ==
  /\ session[s].at = "load"
  /\ session' = [session EXCEPT ![s] = Idle]
  /\ UNCHANGED <<ltpThread, run, numRuns, second, files, memory, cacheVars, raced, restarts>>

-----------------------------------------------------------------------------
(* check_start_stop.  run() asks the store whether it has the id; the file  *)
(* store compares the id with a list, and never has.                        *)
Ended(r) == run[r].at \in {"done", "failed"}
CheckedThread == IF ltpThread # None /\ Ended(ltpThread) THEN None ELSE ltpThread

StartLongTerm(s, t) ==
  /\ session[s] = Idle
  /\ ltpThread' = CheckedThread
  /\ CheckedThread = None /\ numRuns < MaxRuns
  /\ session' = [session EXCEPT ![s] = [at |-> "prepare", start |-> t]]
  /\ UNCHANGED <<run, numRuns, second, files, memory, cacheVars, raced, restarts>>

StartsBlindly(t) == [at |-> "start", start |-> t]
LooksFirst(t) == Needs(t, "start")

Prepare(s) ==
  /\ session[s].at = "prepare"
  /\ \/ session' = [session EXCEPT ![s] = LooksFirst(session[s].start)]
     \/ session' = [session EXCEPT ![s] = [at |-> "memory", start |-> session[s].start]]
     \/ session' = [session EXCEPT ![s] = Idle]  \* an error, e.g. of the availabilities
  /\ UNCHANGED <<ltpThread, run, numRuns, second, files, memory, cacheVars, raced, restarts>>

Launch(s, id, inMemory) ==
  /\ numRuns < MaxRuns
  /\ numRuns' = numRuns + 1
  /\ run' = [run EXCEPT ![numRuns + 1] =
       [at |-> "compute", key |-> <<session[s].start, id>>, memory |-> inMemory, killed |-> FALSE]]
  /\ ltpThread' = numRuns + 1
  /\ session' = [session EXCEPT ![s] = Idle]
  /\ UNCHANGED <<second, files, memory, cacheVars, raced, restarts>>

(* The id is the second, with a count where the store has it already.       *)
Count(t) == CHOOSE n \in 0 .. MaxRuns : /\ <<t, <<second, n>>>> \notin DOMAIN memory
                                        /\ \A k \in 0 .. n - 1 : <<t, <<second, k>>>> \in DOMAIN memory
StartInFile(s) == session[s].at = "start" /\ Launch(s, <<second, 0>>, FALSE)
StartInMemory(s) == session[s].at = "memory" /\ Launch(s, <<second, Count(session[s].start)>>, TRUE)

StopLongTerm(s) ==
  /\ session[s] = Idle /\ CheckedThread # None
  /\ run' = [run EXCEPT ![ltpThread].killed = TRUE]
  /\ ltpThread' = None
  /\ UNCHANGED <<numRuns, second, files, memory, cacheVars, session, raced, restarts>>

PollLongTerm(s) ==
  /\ session[s] = Idle /\ ltpThread # None /\ CheckedThread = None
  /\ ltpThread' = None
  /\ UNCHANGED <<run, numRuns, second, files, memory, cacheVars, session, raced, restarts>>

-----------------------------------------------------------------------------
(* LTPKillableOptimizationThread.run and store_ltp.                         *)
Goes(r, at) == run' = [run EXCEPT ![r].at = at]

Compute(r) ==
  /\ run[r].at = "compute"
  /\ \/ ~run[r].killed /\ Goes(r, "store")
     \/ Goes(r, "failed")
  /\ UNCHANGED <<ltpThread, numRuns, second, files, memory, cacheVars, session, raced, restarts>>

With(f, x, y) == [z \in DOMAIN f \cup {x} |-> IF z = x THEN y ELSE f[z]]
AlreadyExists(key) == key \in DOMAIN files

Store(r) ==
  /\ run[r].at = "store" /\ ~run[r].memory
  /\ IF AlreadyExists(run[r].key) THEN Goes(r, "failed") /\ UNCHANGED <<files, raced>>
     ELSE /\ files' = With(files, run[r].key, r)
          /\ raced' = IF Filling = {} THEN raced ELSE raced \cup {run[r].key}
          /\ Goes(r, "stored")
  /\ UNCHANGED <<ltpThread, numRuns, second, memory, cacheVars, session, restarts>>

StoreInMemory(r) ==
  /\ run[r].at = "store" /\ run[r].memory
  /\ memory' = With(memory, run[r].key, r)
  /\ Goes(r, "done")
  /\ UNCHANGED <<ltpThread, numRuns, second, files, cacheVars, session, raced, restarts>>

(* The caches learn of the solution, if they exist.                         *)
ToldBefore(r) == run[r].at = "store" /\ ~run[r].memory
ToldAfter(r) == run[r].at = "stored"

TellCaches(r) ==
  /\ ToldAfter(r)
  /\ LET m == MonthOf[run[r].key[1]] IN
     /\ ids' = [ids EXCEPT ![m] = (IF @ = None THEN {} ELSE @) \cup {run[r].key}]
     /\ months' = IF months = None THEN None ELSE months \cup {m}
  /\ raced' = IF Filling = {} THEN raced ELSE raced \cup {run[r].key}
  /\ Goes(r, "done")
  /\ UNCHANGED <<ltpThread, numRuns, second, files, memory, session, restarts>>

TimePasses ==
  /\ second < MaxSecond /\ second' = second + 1
  /\ UNCHANGED <<ltpThread, run, numRuns, files, memory, cacheVars, session, raced, restarts>>

(* A new process: files stay.                                               *)
NoRun == [at |-> "done", key |-> None, memory |-> FALSE, killed |-> FALSE]
RestartService ==
  /\ restarts < MaxRestarts /\ restarts' = restarts + 1
  /\ ltpThread' = None /\ run' = [r \in Runs |-> NoRun] /\ memory' = <<>>
  /\ months' = None /\ ids' = [m \in Month |-> None]
  /\ session' = [s \in Session |-> Idle] /\ raced' = {}
  /\ UNCHANGED <<numRuns, second, files>>

Init ==
  /\ ltpThread = None /\ run = [r \in Runs |-> NoRun] /\ numRuns = 0 /\ second = 0
  /\ files = <<>> /\ memory = <<>> /\ months = None /\ ids = [m \in Month |-> None]
  /\ session = [s \in Session |-> Idle] /\ raced = {} /\ restarts = 0

Next ==
  \/ \E s \in Session :
       \/ FillMonths(s) \/ FillIds(s) \/ LoadSolutions(s) \/ Prepare(s)
       \/ StartInFile(s) \/ StartInMemory(s) \/ StopLongTerm(s) \/ PollLongTerm(s)
       \/ \E t \in StartTime : ShowSolutions(s, t) \/ StartLongTerm(s, t)
  \/ \E r \in Runs : Compute(r) \/ Store(r) \/ StoreInMemory(r) \/ TellCaches(r)
  \/ TimePasses \/ RestartService

Spec == Init /\ [][Next]_vars

-----------------------------------------------------------------------------
(* Every variable keeps its type.                                           *)
ResultsTypeOK ==
  /\ ltpThread \in Runs \cup {None} /\ numRuns \in 0 .. MaxRuns /\ second \in 0 .. MaxSecond
  /\ \A f \in DOMAIN files : f[1] \in StartTime /\ files[f] \in Runs
  /\ months = None \/ months \subseteq Month
  /\ \A m \in Month : ids[m] = None \/ ids[m] \subseteq DOMAIN files

(* A stored solution is listed, also after a restart and although storing   *)
(* one begins a cache that knows no other: the page has looked for the new  *)
(* id by then, which fills it.  (Not so if somebody was filling the cache   *)
(* just when the solution was stored.)                                      *)
StoredIsListed ==
  \A f \in DOMAIN files \ raced : f \in Listed(f[1]) \/ \E r \in Runs : run[r].at = "stored" /\ run[r].key = f
=============================================================================
