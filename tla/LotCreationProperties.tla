----------------------- MODULE LotCreationProperties -----------------------
(***************************************************************************)
(* What lot creation promises: one optimization at a time, a stop that     *)
(* stops, and a best solution that is never lost.                          *)
(***************************************************************************)
EXTENDS LotCreation

Place == {"none", "ready", "search", "close", "dead"}
MaybeValue == Value \cup {None}

(* Every variable keeps the type of the field it stands for.                *)
LotTypeOK ==
  /\ thread \in Run \cup {None} /\ listener \in Optimizer \cup {None}
  /\ killed \in [Run -> BOOLEAN]
  /\ active \in [Optimizer -> BOOLEAN] /\ storing \in [Optimizer -> BOOLEAN]
  /\ front \in [Optimizer -> Shown \cup {None}]
  /\ id \in [Optimizer -> Optimizer \cup {None}] /\ object \in [Optimizer -> Optimizer \cup {None}]
  /\ stored \in [Optimizer -> Shown \cup {None}]
  /\ cached \in [Optimizer -> Optimizer \cup {None}]
  /\ cur \in [Optimizer -> MaybeValue] /\ best \in [Optimizer -> MaybeValue]
  /\ given \in [Optimizer -> MaybeValue]
  /\ ready \in [Optimizer -> BOOLEAN]
  /\ pc \in [Run -> Place]
  /\ opt \in [Run -> Optimizer \cup {None}]
  /\ continued \in [Run -> BOOLEAN]
  /\ left \in [Run -> Nat]
  /\ vbest \in [Run -> MaybeValue] /\ gbest \in [Run -> MaybeValue]
  /\ minima \in [Run -> Nat] /\ since \in [Run -> Nat] /\ wait \in [Run -> Nat]

(* Every run that is alive and that nobody has stopped is the one the       *)
(* LotCreator knows of: none goes on that no user can see or stop.          *)
NoRunIsLost == \A r \in Run : Alive(r) /\ ~killed[r] => thread = r

(* The best solution shown to the users, and taken into the batch results,  *)
(* is never worse than the best the optimizer knows, unless that is still   *)
(* the one it was created with, which no listener is shown.  So it is       *)
(* between the iterations: within one, the optimizer knows first.           *)
FrontKeepsBest ==
  \A o \in Optimizer :
    front[o] # None => front[o].best <= best[o] \/ best[o] = given[o]

(* While its results are stored, and once it has begun, what is stored      *)
(* under the id of the current optimization is what the users see of it: be *)
(* storing switched on at its start or later, and whoever else has stored   *)
(* under that id, or has changed a loaded result, before it.  For users who *)
(* wait for the runs of the result they start from.                         *)
StoredIsShown ==
  PatientUsers /\ listener # None /\ storing[listener] /\ ready[listener]
    => stored[id[listener]] = front[listener]

(* The best solution of an optimizer gives way to better ones only.         *)
BestOnlyImproves ==
  [][\A o \in Optimizer : HasStarted(o) => best'[o] <= best[o]]_vars

(* The iteration in which a run is stopped is its last.                     *)
StopEndsTheRun ==
  [][\A r \in Run : killed[r] /\ pc[r] = "search" /\ pc'[r] = "search"
                      => left'[r] = left[r]]_vars

(* What others may rely on: the searches below implement LotCreator.        *)
Creator == INSTANCE LotCreator WITH
  work <- opt,
  stopped <- killed,
  begun <- {r \in Run : ~Fresh(r)},
  used <- {o \in Optimizer : HasStarted(o)},
  shown <- {o \in Optimizer : front[o] # None}

ImplementsLotCreator == Creator!Spec

(* "Stateful optimization, remembers current best solution": once no run of *)
(* it is left, its best is no worse than the best it has shown.             *)
RemembersBest ==
  \A o \in Optimizer :
    front[o] # None /\ (\A r \in Run : opt[r] = o => ~Alive(r))
      => best[o] <= front[o].best
=============================================================================
