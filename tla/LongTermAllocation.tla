------------------------- MODULE LongTermAllocation -------------------------
(***************************************************************************)
(* One run of the long term planning: a flow problem over the storages and *)
(* equipments is solved, and its flows are then moved together into whole  *)
(* shifts, process by process and shift by shift.                          *)
(* (LongTermPlanning/dynreact/ltp/LongTermPlanningImpl.py, LtpInstance.py, *)
(*  ShiftAllocator.py, LtpUtils.py)                                        *)
(*                                                                         *)
(* Amounts are whole tons, levels of storages too.  There is one class of  *)
(* material, and each equipment delivers to one storage.  The solver       *)
(* returns any solution of the constraints, the objective is left out.     *)
(***************************************************************************)
EXTENDS Integers, Sequences, FiniteSetsExt, SequencesExt, Functions

CONSTANTS
  Equipment, Process, ProcessOf, NextSteps,  \* [Process -> set of processes]
  Storage, In, Out,      \* [Equipment -> Storage]; deliveries may also be "DONE"
  StorageCapacity, InitialLevel,  \* [Storage -> tons]
  Shifts, Length,        \* number of shifts, units of time of one
  Throughput,            \* [Equipment -> tons per unit of time]
  Hours,                 \* [Equipment -> [shift -> units of time it works]]
  FrozenLots             \* choices of [Equipment -> set of lots with start, end, weight]

Shift == 1 .. Shifts
Capacity(e) == Throughput[e] * Length

AllocationAssumption ==
  /\ Shifts \in Nat \ {0} /\ Length \in Nat \ {0} /\ ProcessOf \in [Equipment -> Process]
  /\ In \in [Equipment -> Storage] /\ Out \in [Equipment -> Storage \cup {"DONE"}]
  /\ Hours \in [Equipment -> [Shift -> 0 .. Length]]
  /\ \A s \in Storage : InitialLevel[s] \in 0 .. StorageCapacity[s]

VARIABLES
  frozen,       \* the lots that must not be changed
  phase,        \* "build", "solve", "allocate", "done", or "interrupted"
  checks,       \* interruption is still checked so often
  interrupted,
  flow,         \* [Equipment -> amounts of the solution, by shift]
  level,        \* levels of the solution, at the shift to be solved next
  shift,        \* the shift in work
  process, open,  \* the process that is allocated, those to follow
  delta,        \* [Equipment -> production it is behind the solution]
  inLevel,      \* levels of the storages the process takes from
  allocated,    \* [Equipment -> amounts by shift, as far as allocated]
  inFlows,      \* [Storage -> what flows into it, by shift]
  levels        \* [Storage -> final levels, by shift]

solution == <<flow, level>>
allocation == <<process, open, delta, inLevel, allocated, inFlows, levels>>
vars == <<frozen, phase, checks, interrupted, solution, shift, allocation>>

Total(f, S) == FoldSet(LAMBDA x, sum : f[x] + sum, 0, S)
EquipmentOf(p) == {e \in Equipment : ProcessOf[e] = p}
From(s) == {e \in Equipment : In[e] = s}
Into(s) == {e \in Equipment : Out[e] = s}
InputStorages == {s \in Storage : Into(s) = {}}
TakesFrom(p) == {In[e] : e \in EquipmentOf(p)}

-----------------------------------------------------------------------------
(* _shift_shares_for_lot: a lot is spread over the shifts it overlaps.      *)
Start(sh) == (sh - 1) * Length
End(sh) == sh * Length
Overlap(lot, sh) == Min({lot.end, End(sh)}) - Max({lot.start, Start(sh)})
Worked(e, lot) == [sh \in Shift |-> IF Overlap(lot, sh) > 0 THEN Overlap(lot, sh) * Hours[e][sh] ELSE 0]
ShareOf(e, lot, sh) ==
  LET worked == Worked(e, lot) IN IF worked[sh] = 0 THEN 0 ELSE (lot.weight * worked[sh]) \div Total(worked, Shift)

(* _determine_frozen_ranges.                                                *)
Horizon(e) == Max({0} \cup {lot.end : lot \in frozen[e]})
IsFrozen(e, sh) == Start(sh) < Horizon(e)
FrozenWeight(e, sh) ==
  Min({Throughput[e] * Hours[e][sh], FoldSet(LAMBDA lot, sum : ShareOf(e, lot, sh) + sum, 0, frozen[e])})

(* _build_model: the flows a shift may have at the levels it finds.         *)
MayFlow(e, sh, u) ==
  /\ u <= Throughput[e] * Hours[e][sh]
  /\ IsFrozen(e, sh) =>
       IF End(sh) > Horizon(e) THEN u >= FrozenWeight(e, sh) ELSE u = FrozenWeight(e, sh)
After(s, lv, u) == lv[s] + Total(u, Into(s)) - Total(u, From(s))
Feasible(sh, u) ==
  /\ \A e \in Equipment : MayFlow(e, sh, u[e])
  /\ \A s \in Storage :
       /\ Total(u, From(s)) <= level[s]
       /\ s \notin InputStorages => After(s, level, u) \in 0 .. StorageCapacity[s]
(* All targets and levels have weights; any solution may be the best.       *)
Solutions(sh) ==
  {u \in [Equipment -> 0 .. Max({Capacity(e) : e \in Equipment})] : Feasible(sh, u)}
(* Material may enter an input storage at any time, up to its capacity.     *)
NextLevels(u) ==
  [s \in Storage |-> IF s \in InputStorages THEN StorageCapacity[s] ELSE After(s, level, u)]

-----------------------------------------------------------------------------
(* interrupt and _check_interrupted: it helps until the solver runs.        *)
Interrupt ==
  /\ phase \in {"build", "solve", "allocate"} /\ ~interrupted /\ interrupted' = TRUE
  /\ UNCHANGED <<frozen, phase, checks, solution, shift, allocation>>
Check ==
  /\ phase = "build" /\ checks > 0
  /\ IF interrupted THEN phase' = "interrupted" /\ UNCHANGED checks
     ELSE checks' = checks - 1 /\ phase' = IF checks = 1 THEN "solve" ELSE phase
  /\ UNCHANGED <<frozen, interrupted, solution, shift, allocation>>

(* model.solve, one shift after the other.                                  *)
Solve ==
  /\ phase = "solve" /\ shift <= Shifts
  /\ \E u \in Solutions(shift) :
       /\ flow' = [e \in Equipment |-> Append(flow[e], u[e])] /\ level' = NextLevels(u)
  /\ shift' = shift + 1 /\ UNCHANGED <<frozen, phase, checks, interrupted, allocation>>

(* run: the next process, all whose predecessors have been allocated.       *)
NextProcesses == {p \in open : \A q \in open : p \notin NextSteps[q]}
Entered(p) ==
  /\ p \in NextProcesses /\ process' = p /\ open' = open \ {p} /\ shift' = 1
  /\ delta' = [e \in Equipment |-> 0] /\ inLevel' = [s \in TakesFrom(p) |-> InitialLevel[s]]
  /\ levels' = [s \in DOMAIN levels |-> IF s \in TakesFrom(p) THEN <<InitialLevel[s]>> ELSE levels[s]]
EndSolve ==
  /\ phase = "solve" /\ shift > Shifts /\ phase' = "allocate"
  /\ \E p \in Process : Entered(p)
  /\ UNCHANGED <<frozen, checks, interrupted, solution, allocated, inFlows>>

-----------------------------------------------------------------------------
(* _allocate_process: an equipment works a full shift once it is half a     *)
(* shift behind and the storage holds half of it, in the last shift always. *)
IsLast(sh) == sh = Shifts
Behind(e, sh) == delta[e] + flow[e][sh]
FullShift(e, sh, left) ==
  LET available == left[In[e]] IN
  IF 2 * Min({Behind(e, sh), available}) < Capacity(e) /\ ~IsLast(sh) THEN 0 ELSE Min({Capacity(e), available})
ThisShift(e, sh, left) ==
  IF IsFrozen(e, sh) THEN flow[e][sh] ELSE IF Behind(e, sh) <= 0 THEN 0 ELSE FullShift(e, sh, left)

(* storage_level_corrections: what the equipments before took already.      *)
Unaware(e, left, u) == left
TakenOut(e, left, u) == IF IsFrozen(e, shift) THEN left ELSE [left EXCEPT ![In[e]] = @ - u]
Amounts(order) ==
  FoldSeq(LAMBDA e, acc : LET u == ThisShift(e, shift, acc.left) IN
            [left |-> TakenOut(e, acc.left, u), of |-> [acc.of EXCEPT ![e] = u]],
          [left |-> inLevel, of |-> [e \in EquipmentOf(process) |-> 0]], order)

(* What other processes take: as allocated, or else as solved.              *)
OtherOut(s) == LET others == From(s) \ EquipmentOf(process) IN
  Total([e \in others |-> IF allocated[e] # <<>> THEN allocated[e][shift] ELSE flow[e][shift]], others)
OwnOut(s, of) == Total(of, From(s) \cap EquipmentOf(process))
InFlow(s, of) == Total(of, Into(s) \cap EquipmentOf(process))
Left(s, of) == inLevel[s] + inFlows[s][shift] - OwnOut(s, of) - OtherOut(s)

(* The level of an input storage is set for the start of the shift.         *)
InputLevels(s, of) ==
  IF shift = 1 THEN levels[s]
  ELSE LET before == FoldSet(LAMBDA e, sum : allocated[e][shift - 1] + sum, 0, From(s) \cap EquipmentOf(process)) IN
       Append(levels[s], Max({OwnOut(s, of), levels[s][shift - 1] - before}))
LevelsAfter(s, of) ==
  IF s = "DONE" /\ "DONE" \in {Out[e] : e \in EquipmentOf(process)}
  THEN LET before == IF shift = 1 THEN 0 ELSE levels[s][shift] IN
       SubSeq(IF levels[s] = <<>> THEN <<0>> ELSE levels[s], 1, shift)
         \o <<before + inFlows[s][shift] + InFlow(s, of)>>
  ELSE IF s \notin TakesFrom(process) THEN levels[s]
  ELSE IF s \in InputStorages THEN InputLevels(s, of) ELSE Append(levels[s], Left(s, of))

(* The equipments of the process come in any order.                         *)
AllocateShift ==
  /\ phase = "allocate" /\ shift <= Shifts
  /\ \E order \in SetToSeqs(EquipmentOf(process)) :
       LET of == Amounts(order).of IN
       /\ allocated' = [e \in Equipment |-> IF e \in DOMAIN of THEN Append(allocated[e], of[e]) ELSE allocated[e]]
       /\ delta' = [e \in Equipment |-> IF e \in DOMAIN of /\ ~IsFrozen(e, shift)
                                        THEN Behind(e, shift) - of[e] ELSE delta[e]]
       /\ inFlows' = [s \in DOMAIN inFlows |-> [inFlows[s] EXCEPT ![shift] = @ + InFlow(s, of)]]
       /\ inLevel' = [s \in DOMAIN inLevel |-> IF s \in InputStorages THEN inLevel[s] ELSE Left(s, of)]
       /\ levels' = [s \in DOMAIN levels |-> LevelsAfter(s, of)]
  /\ shift' = shift + 1 /\ UNCHANGED <<frozen, phase, checks, interrupted, solution, process, open>>

(* The next process, or to_results.                                         *)
EndProcess ==
  /\ phase = "allocate" /\ shift > Shifts
  /\ IF open = {} THEN phase' = "done" /\ UNCHANGED <<shift, allocation>>
     ELSE (\E p \in Process : Entered(p)) /\ UNCHANGED <<phase, allocated, inFlows>>
  /\ UNCHANGED <<frozen, checks, interrupted, solution>>

-----------------------------------------------------------------------------
Init ==
  /\ frozen \in FrozenLots /\ phase = "build" /\ checks = 4 /\ interrupted = FALSE
  /\ flow = [e \in Equipment |-> <<>>] /\ level = InitialLevel /\ shift = 1
  /\ process \in Process /\ open = Process /\ delta = [e \in Equipment |-> 0] /\ inLevel = <<>>
  /\ allocated = [e \in Equipment |-> <<>>] /\ levels = [s \in Storage \cup {"DONE"} |-> <<>>]
  /\ inFlows = [s \in Storage \cup {"DONE"} |-> [sh \in Shift |-> 0]]

Next == Interrupt \/ Check \/ Solve \/ EndSolve \/ AllocateShift \/ EndProcess

Spec == Init /\ [][Next]_vars

-----------------------------------------------------------------------------
(* Every variable keeps its type.                                           *)
AllocationTypeOK ==
  /\ phase \in {"build", "solve", "allocate", "done", "interrupted"} /\ checks \in 0 .. 4
  /\ interrupted \in BOOLEAN /\ shift \in 1 .. Shifts + 1
  /\ flow \in [Equipment -> Seq(Nat)] /\ allocated \in [Equipment -> Seq(Int)]
  /\ \A e \in Equipment : Len(flow[e]) <= Shifts /\ Len(allocated[e]) <= Shifts

(* "to ensure that storages do not run empty": unless frozen shifts or      *)
(* another process take from the same storage, its level never falls below  *)
(* zero, whatever order the equipments come in.                             *)
Alone(s) == \A e \in From(s) : ProcessOf[e] = ProcessOf[CHOOSE x \in From(s) : TRUE] /\ frozen[e] = {}
StoragesNeverRunEmpty ==
  \A s \in Storage : Alone(s) => \A i \in DOMAIN levels[s] : levels[s][i] >= 0

(* No equipment gets ahead of the solution by more than half a shift before *)
(* the last one, nor by a whole shift then; frozen shifts are kept.         *)
StaysWithinAShift ==
  \A e \in EquipmentOf(process) :
    phase = "allocate" => IF shift > Shifts THEN delta[e] > -Capacity(e) ELSE 2 * delta[e] >= -Capacity(e)
FrozenIsKept ==
  \A e \in Equipment : \A sh \in DOMAIN allocated[e] : IsFrozen(e, sh) => allocated[e][sh] = flow[e][sh]

(* What is done is what was delivered, whichever process delivered it.      *)
DoneIsDelivered ==
  phase = "done" => levels["DONE"][Shifts + 1]
    = FoldSet(LAMBDA e, sum : FoldSeq(LAMBDA x, y : x + y, 0, allocated[e]) + sum, 0, Into("DONE"))
=============================================================================
