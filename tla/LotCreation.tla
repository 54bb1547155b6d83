---------------------------- MODULE LotCreation ----------------------------
(***************************************************************************)
(* Lot creation in the service: the LotCreator, which holds the thread and *)
(* the listener of the current optimization, the tabu searches that run in *)
(* those threads, and the users of the GUI who start, stop, continue and   *)
(* poll it.  (DynReActService/dynreact/lots_optimization.py and            *)
(* gui/pages/lot_creation2.py, MidTermPlanning/.../LotsOptimizerImpl.py)   *)
(*                                                                         *)
(* Every operation of the LotCreator holds its lock and is one action.  An *)
(* iteration of a search is one action too: the time it takes passes       *)
(* before it, in the search for the next step, and stop, continue and      *)
(* start may come in between.  It sets the state of the optimizer and      *)
(* tells the listener in steps that only another run of the same optimizer *)
(* could disturb; PatientUsers allow none.                                 *)
(*                                                                         *)
(* Abstracted: a solution is its objective value.  What a search finds     *)
(* next, and what a shuffle leads to, is any value.  Forced orders and     *)
(* plant performance models, which replace the solution a search starts    *)
(* from, are left out.  The results persistence stores what it is given.   *)
(* Its results have the ids of the listeners that store them; an id is     *)
(* named here after the first optimization that has it.                    *)
(***************************************************************************)
EXTENDS Integers

CONSTANTS
  Optimizer,         \* optimizations; each has one FrontendOptimizationListener
  Run,               \* KillableOptimizationThreads
  None,
  Value,             \* objective values
  Optimum,           \* optimum_possible_costs
  Iterations,        \* max_iterations of a run
  NMinUntilShuffle,  \* TabuParams.NMinUntilShuffle
  ShortRun,          \* runs below this number of iterations shuffle at their end: 30
  LongestWait,       \* most iterations without a shuffle: 100
  Timed,             \* optimizations whose listener has a timeout (the batch job's)
  PatientUsers,      \* users go on from an optimization or a result only once the
                     \* runs that work on it, or store under its id, have ended
  MayFail            \* whether a search may raise an exception

ASSUME NoneAssumption ==
  None \notin Run \cup Optimizer \cup Value /\ None \notin [cur : Value, best : Value]
ASSUME NumbersAssumption ==
  /\ Value \subseteq Int /\ Optimum \in Int /\ \A v \in Value : Optimum <= v
  /\ Iterations \in Nat \ {0}
  /\ NMinUntilShuffle \in Nat /\ ShortRun \in Nat /\ LongestWait \in Nat
ASSUME UsersAssumption == Timed \subseteq Optimizer /\ PatientUsers \in BOOLEAN /\ MayFail \in BOOLEAN

VARIABLES
  thread,    \* LotCreator._lot_creation_thread
  listener,  \* LotCreator._lot_creation_listener
  active,    \* FrontendOptimizationListener._active
  storing,   \* FrontendOptimizationListener._store_results
  front,     \* FrontendOptimizationListener._state
  id,        \* FrontendOptimizationListener._id
  object,    \* which LotsOptimizationState object its _state is
  stored,    \* what the results persistence holds under an id
  cached,    \* the object that FileResultsPersistence.load has cached for an id,
             \* once a listener has it
  cur, best, \* LotsOptimizer._state: current_object_value, best_objective_value
  ready,     \* TabuSearch._initialized
  killed,    \* KillableOptimizationThread._kill
  pc,        \* where a run is
  opt,       \* the optimization of a run
  continued, \* whether it continues an earlier one
  left,      \* ntotal - niter
  vbest,     \* target_vbest
  gbest,     \* target_vbest_global
  minima,    \* MinCount
  since,     \* iterations_without_shuffle
  wait,      \* max_iterations_without_shuffle
  given      \* history: the best value an optimization was created with

creatorVars == <<thread, listener, killed>>
resultVars == <<stored, cached>>
listenerVars == <<active, storing, front, id, object, resultVars>>
optimizerVars == <<cur, best, ready>>
runVars == <<pc, opt, continued, left, vbest, gbest, minima, since, wait>>
vars == <<creatorVars, listenerVars, optimizerVars, runVars, given>>

Shown == [cur : Value, best : Value]
Alive(r) == r # None /\ pc[r] \in {"ready", "search", "close"}
Fresh(r) == pc[r] = "none"
HasStarted(o) == given[o] # None

-----------------------------------------------------------------------------
(* LotCreator.  is_running forgets a thread that has died and switches its  *)
(* listener off; start and continue call it before anything else.           *)

IsRunning == Alive(thread)
SwitchOff(act) ==
  IF thread # None /\ listener # None THEN [act EXCEPT ![listener] = FALSE] ELSE act

Poll ==
  /\ ~IsRunning
  /\ thread' = None
  /\ active' = SwitchOff(active)
  /\ UNCHANGED <<listener, killed, storing, front, id, object, resultVars, optimizerVars,
                 runVars, given>>

Launch(r, o, cont) ==
  /\ Fresh(r)
  /\ thread' = r
  /\ listener' = o
  /\ pc' = [pc EXCEPT ![r] = "ready"]
  /\ opt' = [opt EXCEPT ![r] = o]
  /\ continued' = [continued EXCEPT ![r] = cont]
  /\ left' = [left EXCEPT ![r] = Iterations]
  /\ UNCHANGED <<killed, vbest, gbest, minima, since, wait>>

StartAnyway == TRUE
MayStart == ~IsRunning

(* A new optimization with current value c and best value b, whose listener *)
(* stores under id i and has the state `from', which is the object s.       *)
NobodyStoresUnder(i) == \A r \in Run : Alive(r) => id[opt[r]] # i

Start(r, o, c, b, i, s, from, store) ==
  /\ MayStart
  /\ ~HasStarted(o)
  /\ PatientUsers => NobodyStoresUnder(i)
  /\ cur' = [cur EXCEPT ![o] = c]
  /\ best' = [best EXCEPT ![o] = b]
  /\ given' = [given EXCEPT ![o] = b]
  /\ active' = [SwitchOff(active) EXCEPT ![o] = TRUE]
  /\ storing' = [storing EXCEPT ![o] = store]
  /\ id' = [id EXCEPT ![o] = i]
  /\ object' = [object EXCEPT ![o] = s]
  /\ front' = [front EXCEPT ![o] = from]
  /\ Launch(r, o, FALSE)
  /\ UNCHANGED ready

(* From an initial solution, under an id made of the process and the minute *)
(* of the start, which an optimization started in the same minute has, too. *)
StartNew(r, o, v, store) ==
  /\ \E i \in {o} \cup {id[p] : p \in {q \in Optimizer : HasStarted(q)}} :
       Start(r, o, v, v, i, o, None, store)
  /\ UNCHANGED resultVars

(* From a result of before, which the model has not seen stored.            *)
StartFromOld(r, o, c, b, store) ==
  LET result == [cur |-> c, best |-> b]
  IN /\ b <= c
     /\ Start(r, o, c, b, o, o, result, store)
     /\ stored' = [stored EXCEPT ![o] = result]
     /\ cached' = [cached EXCEPT ![o] = o]

(* From a result stored under id i, and under that id again.  What is       *)
(* loaded is the object that was loaded before, with all that its listener  *)
(* was told since, unless a result was stored or many were loaded: then it  *)
(* is what was stored.                                                      *)
StartFrom(r, o, i, store) ==
  /\ stored[i] # None
  /\ \/ LET held == cached[i]
        IN /\ held # None
           /\ Start(r, o, front[held].cur, front[held].best, i, object[held], front[held], store)
           /\ UNCHANGED cached
     \/ /\ Start(r, o, stored[i].cur, stored[i].best, i, o, stored[i], store)
        /\ cached' = [cached EXCEPT ![i] = o]
  /\ UNCHANGED stored

Stop ==
  /\ thread # None \/ listener # None
  /\ killed' = IF thread # None THEN [killed EXCEPT ![thread] = TRUE] ELSE killed
  /\ thread' = None
  /\ active' = IF listener # None THEN [active EXCEPT ![listener] = FALSE] ELSE active
  /\ UNCHANGED <<listener, storing, front, id, object, resultVars, optimizerVars,
                 runVars, given>>

(* FileResultsPersistence.store forgets all that load has cached.           *)
StoreUnder(i, result) ==
  /\ stored' = [stored EXCEPT ![i] = result]
  /\ cached' = [j \in Optimizer |-> None]

NothingNow(store) == FALSE
StoreNow(store) == store /\ ~storing[listener] /\ front[listener] # None

(* listener.restart: active again, and what it has is stored if it was not. *)
Continue(r, store) ==
  /\ ~IsRunning
  /\ listener # None
  /\ PatientUsers => \A old \in Run : opt[old] = listener => ~Alive(old)
  /\ active' = [active EXCEPT ![listener] = TRUE]
  /\ storing' = [storing EXCEPT ![listener] = store]
  /\ IF StoreNow(store) THEN StoreUnder(id[listener], front[listener]) ELSE UNCHANGED resultVars
  /\ Launch(r, listener, TRUE)
  /\ UNCHANGED <<front, id, object, optimizerVars, given>>

-----------------------------------------------------------------------------
(* TabuSearch.run                                                           *)

AtMost(a, b) == IF a <= b THEN a ELSE b
ShuffleWait == IF Iterations >= ShortRun THEN AtMost(LongestWait, Iterations \div 2) ELSE Iterations
Shorter(n) == IF n >= ShortRun THEN (3 * n) \div 4 ELSE n

(* FrontendOptimizationListener.update_solution with value v: it changes    *)
(* the state it has, and so that of every listener with the same object.    *)
ShowLast(o, v) == [cur |-> v, best |-> v]
Show(o, v) ==
  [cur |-> v, best |-> IF front[o] = None THEN v ELSE AtMost(v, front[o].best)]
Told(o) == {o} \cup {p \in Optimizer : front[p] # None /\ object[p] = object[o]}
Notify(o, v) ==
  /\ front' = [p \in Optimizer |-> IF p \in Told(o) THEN Show(p, v) ELSE front[p]]
  /\ IF storing[o] THEN StoreUnder(id[o], Show(o, v)) ELSE UNCHANGED resultVars
  /\ UNCHANGED <<active, storing, id, object>>

(* update_iteration: FALSE once the listener is off or its time is over.    *)
NeverStops(o) == {TRUE}
GoOn(o) == IF ~active[o] THEN {FALSE} ELSE IF o \in Timed THEN {TRUE, FALSE} ELSE {TRUE}
AfterAny(r, n, on) == IF on THEN "search" ELSE "close"
After(r, n, on) == IF n > 0 /\ on THEN "search" ELSE "close"

EnterLoop(r, value, lowest, on) ==
  /\ vbest' = [vbest EXCEPT ![r] = value]
  /\ gbest' = [gbest EXCEPT ![r] = lowest]
  /\ minima' = [minima EXCEPT ![r] = 0]
  /\ since' = [since EXCEPT ![r] = 0]
  /\ wait' = [wait EXCEPT ![r] = ShuffleWait]
  /\ pc' = [pc EXCEPT ![r] = After(r, left[r], on)]
  /\ UNCHANGED <<opt, continued, left, creatorVars, given>>

Resume(r) ==
  /\ pc[r] = "ready" /\ continued[r] /\ ready[opt[r]]
  /\ EnterLoop(r, cur[opt[r]], best[opt[r]], TRUE)
  /\ UNCHANGED <<listenerVars, optimizerVars>>

(* The lots of the initial assignment are sequenced afresh, to value v.     *)
Begin(r, v) ==
  /\ pc[r] = "ready" /\ ~(continued[r] /\ ready[opt[r]])
  /\ LET o == opt[r]
     IN /\ cur' = [cur EXCEPT ![o] = v]
        /\ best' = [best EXCEPT ![o] = AtMost(v, @)]
        /\ ready' = [ready EXCEPT ![o] = TRUE]
        /\ Notify(o, v)
        /\ \E on \in GoOn(o) : EnterLoop(r, v, AtMost(v, best[o]), on)

(* The search cannot become better, or finds no further step.               *)
Optimal(r) ==
  /\ pc[r] = "search" /\ vbest[r] = Optimum
  /\ cur' = [cur EXCEPT ![opt[r]] = vbest[r]]
  /\ best' = [best EXCEPT ![opt[r]] = vbest[r]]
  /\ pc' = [pc EXCEPT ![r] = "close"]
  /\ UNCHANGED <<creatorVars, listenerVars, ready, opt, continued, left, vbest, gbest,
                 minima, since, wait, given>>

NoNextStep(r) ==
  /\ pc[r] = "search" /\ vbest[r] # Optimum
  /\ pc' = [pc EXCEPT ![r] = "close"]
  /\ UNCHANGED <<creatorVars, listenerVars, optimizerVars, opt, continued, left, vbest,
                 gbest, minima, since, wait, given>>

(* FindNextStep takes the best of the moves that are not tabu; _shuffle     *)
(* takes orders out at random and refills the gaps.                         *)
NextValues == Value
ShuffledValues == Value

(* The end of every iteration that leaves the optimizer at value v.         *)
EndIteration(r, v) ==
  /\ cur' = [cur EXCEPT ![opt[r]] = v]
  /\ Notify(opt[r], v)
  /\ left' = [left EXCEPT ![r] = @ - 1]
  /\ \E on \in GoOn(opt[r]) : pc' = [pc EXCEPT ![r] = After(r, left[r] - 1, on)]
  /\ UNCHANGED <<creatorVars, ready, opt, continued, given>>

BeatsCurrent(r, v) == TRUE
BeatsBest(r, v) == v < gbest[r]

Improve(r, v) ==
  /\ pc[r] = "search" /\ vbest[r] # Optimum
  /\ v < vbest[r]
  /\ vbest' = [vbest EXCEPT ![r] = v]
  /\ IF BeatsBest(r, v)
     THEN /\ best' = [best EXCEPT ![opt[r]] = v]
          /\ gbest' = [gbest EXCEPT ![r] = v]
     ELSE UNCHANGED <<best, gbest>>
  /\ since' = [since EXCEPT ![r] = @ + 1]
  /\ EndIteration(r, v)
  /\ UNCHANGED <<minima, wait>>

Stuck(r) == ~(minima[r] <= NMinUntilShuffle /\ since[r] + 1 < wait[r])

Climb(r, v) ==
  /\ pc[r] = "search" /\ vbest[r] # Optimum
  /\ v >= vbest[r] /\ ~Stuck(r)
  /\ minima' = [minima EXCEPT ![r] = @ + 1]
  /\ since' = [since EXCEPT ![r] = @ + 1]
  /\ EndIteration(r, v)
  /\ UNCHANGED <<best, vbest, gbest, wait>>

(* The value the search found is no better, and the orders are shuffled.    *)
Shuffle(r, v) ==
  /\ pc[r] = "search" /\ vbest[r] # Optimum
  /\ \E found \in NextValues : found >= vbest[r]
  /\ Stuck(r)
  /\ vbest' = [vbest EXCEPT ![r] = v]
  /\ minima' = [minima EXCEPT ![r] = 0]
  /\ since' = [since EXCEPT ![r] = 0]
  /\ wait' = [wait EXCEPT ![r] = Shorter(@)]
  /\ EndIteration(r, v)
  /\ UNCHANGED <<best, gbest>>

LastIsBest(r) == vbest[r] < gbest[r]

(* The thread ends, and its locals with it.                                 *)
Die(r) ==
  /\ pc' = [pc EXCEPT ![r] = "dead"]
  /\ opt' = [opt EXCEPT ![r] = None]
  /\ continued' = [continued EXCEPT ![r] = FALSE]
  /\ vbest' = [vbest EXCEPT ![r] = None] /\ gbest' = [gbest EXCEPT ![r] = None]
  /\ left' = [left EXCEPT ![r] = 0] /\ minima' = [minima EXCEPT ![r] = 0]
  /\ since' = [since EXCEPT ![r] = 0] /\ wait' = [wait EXCEPT ![r] = 0]
  /\ UNCHANGED <<creatorVars, listenerVars, ready, given>>

Close(r) ==
  /\ pc[r] = "close"
  /\ IF LastIsBest(r)
     THEN /\ cur' = [cur EXCEPT ![opt[r]] = vbest[r]]
          /\ best' = [best EXCEPT ![opt[r]] = vbest[r]]
     ELSE UNCHANGED <<cur, best>>
  /\ Die(r)

(* An exception of the cost provider or of check_solution ends the thread.  *)
Fail(r) ==
  /\ MayFail
  /\ pc[r] \in {"ready", "search"}
  /\ Die(r)
  /\ UNCHANGED <<cur, best>>

-----------------------------------------------------------------------------
Init ==
  /\ thread = None /\ listener = None
  /\ killed = [r \in Run |-> FALSE]
  /\ active = [o \in Optimizer |-> FALSE]
  /\ storing = [o \in Optimizer |-> FALSE]
  /\ front = [o \in Optimizer |-> None]
  /\ id = [o \in Optimizer |-> None]
  /\ object = [o \in Optimizer |-> None]
  /\ stored = [i \in Optimizer |-> None]
  /\ cached = [i \in Optimizer |-> None]
  /\ cur = [o \in Optimizer |-> None]
  /\ best = [o \in Optimizer |-> None]
  /\ given = [o \in Optimizer |-> None]
  /\ ready = [o \in Optimizer |-> FALSE]
  /\ pc = [r \in Run |-> "none"]
  /\ opt = [r \in Run |-> None]
  /\ continued = [r \in Run |-> FALSE]
  /\ left = [r \in Run |-> 0]
  /\ vbest = [r \in Run |-> None]
  /\ gbest = [r \in Run |-> None]
  /\ minima = [r \in Run |-> 0]
  /\ since = [r \in Run |-> 0]
  /\ wait = [r \in Run |-> 0]

Iterate(r) ==
  \/ Optimal(r)
  \/ NoNextStep(r)
  \/ \E v \in NextValues : Improve(r, v) \/ Climb(r, v)
  \/ \E v \in ShuffledValues : Shuffle(r, v)

RunStep(r) ==
  \/ Resume(r)
  \/ \E v \in Value : Begin(r, v)
  \/ Iterate(r)
  \/ Close(r)
  \/ Fail(r)

UserStep ==
  \/ Poll
  \/ \E r \in Run, o \in Optimizer, store \in BOOLEAN :
       \/ \E v \in Value : StartNew(r, o, v, store)
       \/ \E c, b \in Value : StartFromOld(r, o, c, b, store)
       \/ \E i \in Optimizer : StartFrom(r, o, i, store)
  \/ Stop
  \/ \E r \in Run, store \in BOOLEAN : Continue(r, store)

Next == UserStep \/ \E r \in Run : RunStep(r)

Spec == Init /\ [][Next]_vars
=============================================================================
