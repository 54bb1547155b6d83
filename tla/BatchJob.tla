------------------------------ MODULE BatchJob ------------------------------
(***************************************************************************)
(* The batch lot creation: a thread that waits for its daily time or for a *)
(* user's trigger, takes the newest snapshot and runs one search after the *)
(* other in the LotCreator it shares with the users of the GUI.            *)
(* (DynReActService/dynreact/batch.py, gui/pages/lot_batch.py, cli.py)     *)
(*                                                                         *)
(* The LotCreator is the abstract one, so that what holds here holds for   *)
(* every search.  Time is reduced to whether the next invocation is due.   *)
(* Whether a process needs lots, and has the orders for them, is a free    *)
(* choice.  Waiting for a search ends after max_duration and five minutes, *)
(* whatever it does; how long that is is left open.                        *)
(***************************************************************************)
EXTENDS Integers, FiniteSets

CONSTANTS
  None,
  MaxInvocations,  \* bound: invocations in one behaviour
  NumProcesses,    \* processes configured, handled in their order
  MaxWaits,        \* lookups for a snapshot before an invocation is given up: 30
  Keep,            \* results kept beside the newest: 5
  Test,            \* BatchConfig.test: the first invocation is due at once
  UserRun          \* searches of the users, each an optimization of its own

ASSUME BatchAssumption ==
  /\ MaxInvocations \in Nat \ {0} /\ NumProcesses \in Nat /\ MaxWaits \in Nat /\ Keep \in Nat
  /\ Test \in BOOLEAN

VARIABLES
  pc,          \* where the job's thread is
  jobStopped,  \* _stopped
  interrupted, \* _user_interrupted
  due,         \* next_planned_invocation <= now
  byUser,      \* is_user_interrupted
  waits,       \* wait_cnt
  active,      \* _stats.is_active
  runs,        \* _runs
  proc,        \* the process the invocation is at
  joined,      \* the thread wait_for_completion waits for
  stat,        \* statistics of every invocation and process
  kept,        \* keys of previous_process_results
  snapshots,   \* whether there is any snapshot
  thread, listener, work, stopped, begun, used, shown  \* the LotCreator

Slot == (1..MaxInvocations) \X (1..NumProcesses)
ASSUME RunsAssumption == None \notin UserRun \cup Slot /\ UserRun \cap Slot = {}

(* A search of the job is named for its place in the schedule.              *)
Searches == Slot \cup UserRun
Creator == INSTANCE LotCreator WITH Optimizer <- Searches, Run <- Searches

creatorVars == <<thread, listener, work, stopped, begun, used, shown>>
jobVars == <<pc, byUser, waits, active, runs, proc, joined, stat, kept>>
vars == <<creatorVars, jobVars, jobStopped, interrupted, due, snapshots>>

Reason == {"covered", "missing", "error"}
ThisSlot == <<runs, proc>>

-----------------------------------------------------------------------------
(* run(): the flag of a trigger is cleared before the wait.                 *)
Top ==
  /\ pc = "top"
  /\ pc' = IF jobStopped THEN "exited" ELSE "arm"
  /\ UNCHANGED <<creatorVars, byUser, waits, active, runs, proc, joined, stat, kept,
                 jobStopped, interrupted, due, snapshots>>

Arm ==
  /\ pc = "arm"
  /\ interrupted' = FALSE /\ byUser' = FALSE
  /\ pc' = IF due THEN "woken" ELSE "wait"
  /\ UNCHANGED <<creatorVars, waits, active, runs, proc, joined, stat, kept, jobStopped, due, snapshots>>

Wake ==
  /\ pc = "wait"
  /\ due \/ interrupted
  /\ byUser' = interrupted
  /\ pc' = "woken"
  /\ UNCHANGED <<creatorVars, waits, active, runs, proc, joined, stat, kept,
                 jobStopped, interrupted, due, snapshots>>

(* Of a user, and in the first invocation of a test, any snapshot will do;  *)
(* else it must be recent.                                                  *)
FirstOfTest == Test /\ runs = 0
AnySnapshotWillDo == byUser \/ FirstOfTest

Begin ==
  /\ pc = "woken" /\ ~jobStopped /\ snapshots
  /\ runs' = runs + 1 /\ waits' = 0 /\ due' = FALSE
  /\ pc' = "load"
  /\ UNCHANGED <<creatorVars, byUser, active, proc, joined, stat, kept, jobStopped, interrupted, snapshots>>

WaitsOn == FALSE
GivesUp == waits > MaxWaits
NoSnapshot ==
  /\ pc = "woken" /\ ~jobStopped
  /\ ~(snapshots /\ AnySnapshotWillDo)
  /\ IF GivesUp
     THEN pc' = "top" /\ waits' = 0 /\ due' = FirstOfTest
     ELSE pc' = "sleep" /\ UNCHANGED <<waits, due>>
  /\ UNCHANGED <<creatorVars, byUser, active, runs, proc, joined, stat, kept, jobStopped, interrupted, snapshots>>

Sleep ==
  /\ pc = "sleep"
  /\ IF jobStopped THEN pc' = "exited" /\ UNCHANGED waits ELSE pc' = "top" /\ waits' = waits + 1
  /\ UNCHANGED <<creatorVars, byUser, active, runs, proc, joined, stat, kept,
                 jobStopped, interrupted, due, snapshots>>

Quit ==
  /\ pc = "woken" /\ jobStopped
  /\ pc' = "exited"
  /\ UNCHANGED <<creatorVars, byUser, waits, active, runs, proc, joined, stat, kept,
                 jobStopped, interrupted, due, snapshots>>

-----------------------------------------------------------------------------
(* _process().  An exception while the snapshot is loaded ends the thread.  *)
Load ==
  /\ pc = "load"
  /\ active' = TRUE
  /\ proc' = 1
  /\ pc' \in {"process", "died"}
  /\ UNCHANGED <<creatorVars, byUser, waits, runs, joined, stat, kept,
                 jobStopped, interrupted, due, snapshots>>

AnotherProcess == pc = "process" /\ proc <= NumProcesses /\ ~jobStopped

(* Existing lots cover the period, there are too few orders, or an error.   *)
Skip ==
  /\ AnotherProcess
  /\ \E reason \in Reason : stat' = [stat EXCEPT ![ThisSlot] = reason]
  /\ proc' = proc + 1
  /\ UNCHANGED <<creatorVars, pc, byUser, waits, active, runs, joined, kept,
                 jobStopped, interrupted, due, snapshots>>

(* LotCreator.start, whose result the job does not look at.                 *)
StartSearch ==
  /\ AnotherProcess
  /\ IF Creator!Busy THEN UNCHANGED creatorVars ELSE Creator!Start(ThisSlot, ThisSlot)
  /\ pc' = "started"
  /\ UNCHANGED <<byUser, waits, active, runs, proc, joined, stat, kept,
                 jobStopped, interrupted, due, snapshots>>

(* wait_for_completion takes whatever thread there is by then.              *)
Join ==
  /\ pc = "started"
  /\ joined' = IF Creator!Busy THEN thread ELSE None
  /\ pc' = "join"
  /\ UNCHANGED <<creatorVars, byUser, waits, active, runs, proc, stat, kept,
                 jobStopped, interrupted, due, snapshots>>

JoinWithoutTimeout == joined # None => work[joined] = None
JoinReturns == TRUE  \* the thread has ended, or the time is over
DropThread == thread' = None /\ UNCHANGED <<listener, work, stopped, begun, used, shown>>
LeaveCreator == UNCHANGED creatorVars
Collect ==
  /\ pc = "join" /\ JoinReturns
  /\ stat' = [stat EXCEPT ![ThisSlot] = IF ThisSlot \in shown THEN "solution" ELSE "none"]
  /\ joined' = None
  /\ proc' = proc + 1
  /\ pc' = "process"
  /\ LeaveCreator
  /\ UNCHANGED <<byUser, waits, active, runs, kept, jobStopped, interrupted, due, snapshots>>

Oldest(s) == CHOOSE i \in s : \A j \in s : i <= j
TooMany == Cardinality(kept) > Keep
Untrimmed == kept
Trimmed == IF TooMany THEN kept \ {Oldest(kept)} ELSE kept
Finish ==
  /\ pc = "process" /\ ~AnotherProcess
  /\ kept' = Trimmed \cup {runs}
  /\ active' = FALSE
  /\ pc' = "top"
  /\ UNCHANGED <<creatorVars, byUser, waits, runs, proc, joined, stat,
                 jobStopped, interrupted, due, snapshots>>

-----------------------------------------------------------------------------
(* What happens around the job.                                             *)
MayTrigger == ~active

Trigger ==
  /\ MayTrigger /\ runs < MaxInvocations
  /\ interrupted' = TRUE
  /\ UNCHANGED <<creatorVars, jobVars, jobStopped, due, snapshots>>

WakesTheJob == interrupted' = TRUE

StopJob ==
  /\ jobStopped' = TRUE
  /\ WakesTheJob
  /\ UNCHANGED <<creatorVars, jobVars, due, snapshots>>

TimePasses ==
  /\ runs < MaxInvocations \/ jobStopped
  /\ due' = TRUE
  /\ UNCHANGED <<creatorVars, jobVars, jobStopped, interrupted, snapshots>>

SnapshotArrives ==
  /\ snapshots' = TRUE
  /\ UNCHANGED <<creatorVars, jobVars, jobStopped, interrupted, due>>

(* The users of the GUI and the searches that run.                          *)
OthersUseCreator ==
  /\ \/ Creator!Forget \/ Creator!Stop
     \/ \E r \in UserRun : Creator!Start(r, r) \/ Creator!Continue(r)
     \/ \E r \in Searches : Creator!Report(r) \/ Creator!End(r)
  /\ UNCHANGED <<jobVars, jobStopped, interrupted, due, snapshots>>

Init ==
  /\ Creator!Init
  /\ pc = "top"
  /\ jobStopped = FALSE /\ interrupted = FALSE /\ due = Test /\ byUser = FALSE
  /\ waits = 0 /\ runs = 0 /\ proc = 0 /\ active = FALSE /\ joined = None
  /\ stat = [s \in Slot |-> "none"] /\ kept = {}
  /\ snapshots \in BOOLEAN

JobStep ==
  \/ Top \/ Arm \/ Wake \/ Begin \/ NoSnapshot \/ Sleep \/ Quit
  \/ Load \/ Skip \/ StartSearch \/ Join \/ Collect \/ Finish

Next ==
  \/ JobStep
  \/ Trigger \/ StopJob \/ TimePasses \/ SnapshotArrives
  \/ OthersUseCreator

(* The thread goes on and the clock does; nothing is assumed of the users,  *)
(* of the searches or of the snapshots.                                     *)
Spec == Init /\ [][Next]_vars /\ WF_vars(JobStep) /\ WF_vars(TimePasses)

-----------------------------------------------------------------------------
Newest(s) == CHOOSE i \in s : \A j \in s : i >= j

Place == {"top", "arm", "wait", "woken", "sleep", "load", "process", "started", "join",
          "exited", "died"}

(* Every variable keeps its type; the job counts what it has begun.         *)
BatchTypeOK ==
  /\ pc \in Place
  /\ jobStopped \in BOOLEAN /\ interrupted \in BOOLEAN /\ due \in BOOLEAN
  /\ byUser \in BOOLEAN /\ active \in BOOLEAN /\ snapshots \in BOOLEAN
  /\ waits \in 0..(MaxWaits + 1) /\ runs \in 0..MaxInvocations
  /\ proc \in 0..(NumProcesses + 1)
  /\ joined \in Searches \cup {None}
  /\ stat \in [Slot -> Reason \cup {"none", "solution"}]
  /\ kept \subseteq 1..runs

(* The searches of the job run one after the other, even if one of them     *)
(* outlasts the time the job waits for it; only after a user has stopped    *)
(* one may the next run beside it.                                          *)
OneSearchUnlessStopped ==
  \A r, s \in Slot :
    r # s /\ work[r] # None /\ work[s] # None => stopped[r] \/ stopped[s]

(* The results on the page are those of the newest invocations, and of no   *)
(* more than Keep + 1 of them.                                              *)
NewestAreKept ==
  kept # {} =>
    /\ Cardinality(kept) <= Keep + 1
    /\ kept = Oldest(kept)..Newest(kept)
    /\ Newest(kept) = IF active \/ pc = "load" THEN runs - 1 ELSE runs

(* Once it is told to stop the job's thread ends, also if the flag that     *)
(* wakes it is cleared again before it waits.                               *)
StopEndsTheJob == jobStopped ~> (pc \in {"exited", "died"})
=============================================================================
