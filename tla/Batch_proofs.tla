---------------------------- MODULE Batch_proofs ----------------------------
(***************************************************************************)
(* Proofs about the batch job, for every number of processes, invocations, *)
(* lookups and kept results, and whatever the users do with the LotCreator *)
(* it shares.                                                              *)
(***************************************************************************)
EXTENDS BatchJob, NumberLemmas, TLAPS

Working == {"load", "process", "started", "join", "died"}
AtProcess == {"process", "started", "join"}

(* The parts of BatchTypeOK.                                                *)
Flags ==
  /\ jobStopped \in BOOLEAN /\ interrupted \in BOOLEAN /\ due \in BOOLEAN
  /\ byUser \in BOOLEAN /\ active \in BOOLEAN /\ snapshots \in BOOLEAN
Counters ==
  /\ waits \in 0..(MaxWaits + 1) /\ runs \in 0..MaxInvocations
  /\ proc \in 0..(NumProcesses + 1)
Records ==
  /\ pc \in Place /\ joined \in Searches \cup {None}
  /\ stat \in [Slot -> Reason \cup {"none", "solution"}]

(* The types of the LotCreator's variables.                                 *)
CreatorTypes ==
  /\ thread \in Searches \cup {None} /\ listener \in Searches \cup {None}
  /\ work \in [Searches -> Searches \cup {None}]
  /\ stopped \in [Searches -> BOOLEAN]

(* An invocation has been begun while one is at work, and another may begin *)
(* when there was a reason for it.                                          *)
JobPlaces ==
  /\ active <=> pc \in Working \ {"load"}
  /\ pc \in Working => runs > 0
  /\ pc \in AtProcess => proc > 0
  /\ pc \in {"started", "join"} => proc <= NumProcesses
  /\ pc = "sleep" => waits <= MaxWaits

MayBegin == due \/ pc = "woken" \/ (pc = "wait" /\ interrupted)
BeginInv == MayBegin => runs < MaxInvocations \/ jobStopped

TypeInv == Flags /\ Counters /\ Records /\ CreatorTypes /\ JobPlaces /\ BeginInv

(* A search that works and was not stopped is the one the LotCreator knows. *)
KnownInv == \A r \in Searches : work[r] # None /\ ~stopped[r] => thread = r

(* The results kept are those of one row of invocations up to the newest.   *)
LastRun == IF pc \in Working THEN runs - 1 ELSE runs
KeptInv == kept = {} \/ \E a \in 1..LastRun : kept = a..LastRun /\ LastRun - a <= Keep

IInv == TypeInv /\ KnownInv /\ KeptInv

LEMMA Constants ==
  /\ MaxInvocations \in Nat \ {0} /\ NumProcesses \in Nat /\ MaxWaits \in Nat /\ Keep \in Nat
  /\ Test \in BOOLEAN /\ None \notin Searches /\ Slot \subseteq Searches /\ UserRun \subseteq Searches
BY BatchAssumption, RunsAssumption DEF Searches

LEMMA InitLemma == Init => IInv
<1> SUFFICES ASSUME Init PROVE IInv
  OBVIOUS
<1>1. CreatorTypes /\ KnownInv
  BY Constants DEF Init, Creator!Init, CreatorTypes, KnownInv
<1>2. Flags
  BY Constants DEF Init, Flags
<1>3. Counters
  BY Constants DEF Init, Counters
<1>4. Records
  BY DEF Init, Records, Place
<1>5. JobPlaces
  BY DEF Init, JobPlaces, Working, AtProcess
<1>6. BeginInv
  BY Constants DEF Init, BeginInv
<1> QED BY <1>1, <1>2, <1>3, <1>4, <1>5, <1>6 DEF Init, IInv, TypeInv, KeptInv

-----------------------------------------------------------------------------
(* What the users and the job do with the LotCreator.                       *)
LEMMA LaunchLemma ==
  ASSUME CreatorTypes, KnownInv, NEW r \in Searches, NEW o \in Searches, Creator!Launch(r, o)
  PROVE  CreatorTypes' /\ KnownInv'
<1>1. CreatorTypes'
  BY DEF CreatorTypes, Creator!Launch
<1>2. ASSUME NEW s \in Searches, work'[s] # None, ~stopped'[s] PROVE thread' = s
  <2>1. CASE s = r
    BY <2>1 DEF Creator!Launch
  <2>2. CASE s # r
    <3>1. work[s] # None /\ ~stopped[s]
      BY <1>2, <2>2 DEF CreatorTypes, Creator!Launch
    <3>2. Creator!Busy
      BY <3>1, Constants DEF KnownInv, Creator!Busy
    <3> QED BY <3>2 DEF Creator!Launch
  <2> QED BY <2>1, <2>2
<1> QED BY <1>1, <1>2 DEF KnownInv

LEMMA CreatorLemma ==
  ASSUME CreatorTypes, KnownInv,
         \/ UNCHANGED creatorVars \/ Creator!Forget \/ Creator!Stop
         \/ \E r \in Searches : Creator!Start(r, r) \/ Creator!Continue(r) \/ Creator!Report(r) \/ Creator!End(r)
  PROVE  CreatorTypes' /\ KnownInv'
<1>1. CASE UNCHANGED creatorVars
  BY <1>1 DEF creatorVars, CreatorTypes, KnownInv
<1>2. CASE Creator!Forget
  BY <1>2, Constants DEF Creator!Forget, Creator!Busy, CreatorTypes, KnownInv
<1>3. CASE Creator!Stop
  BY <1>3, Constants DEF Creator!Stop, CreatorTypes, KnownInv
<1>4. ASSUME NEW r \in Searches, Creator!Start(r, r) PROVE CreatorTypes' /\ KnownInv'
  BY <1>4, LaunchLemma DEF Creator!Start
<1>5. ASSUME NEW r \in Searches, Creator!Continue(r) PROVE CreatorTypes' /\ KnownInv'
  <2>1. listener \in Searches
    BY <1>5 DEF Creator!Continue, CreatorTypes
  <2> QED BY <1>5, <2>1, LaunchLemma DEF Creator!Continue
<1>6. ASSUME NEW r \in Searches, Creator!Report(r) PROVE CreatorTypes' /\ KnownInv'
  BY <1>6 DEF Creator!Report, CreatorTypes, KnownInv
<1>7. ASSUME NEW r \in Searches, Creator!End(r) PROVE CreatorTypes' /\ KnownInv'
  BY <1>7 DEF Creator!End, CreatorTypes, KnownInv
<1> QED BY <1>1, <1>2, <1>3, <1>4, <1>5, <1>6, <1>7

-----------------------------------------------------------------------------
LEMMA SlotLemma ==
  ASSUME TypeInv, pc \in AtProcess, proc <= NumProcesses
  PROVE  ThisSlot \in Slot
BY Constants DEF TypeInv, Counters, JobPlaces, AtProcess, Working, ThisSlot, Slot

LEMMA CreatorStep == TypeInv /\ KnownInv /\ [Next]_vars => CreatorTypes' /\ KnownInv'
<1> SUFFICES ASSUME TypeInv, KnownInv, [Next]_vars PROVE CreatorTypes' /\ KnownInv'
  OBVIOUS
<1>1. CreatorTypes
  BY DEF TypeInv
<1>2. CASE StartSearch
  <2>1. ThisSlot \in Searches
    BY <1>2, SlotLemma, Constants DEF StartSearch, AnotherProcess, AtProcess
  <2>2. UNCHANGED creatorVars \/ Creator!Start(ThisSlot, ThisSlot)
    BY <1>2 DEF StartSearch
  <2> HIDE DEF ThisSlot
  <2> QED BY <1>1, <2>1, <2>2, CreatorLemma
<1>3. CASE OthersUseCreator
  BY <1>1, <1>3, CreatorLemma, Constants DEF OthersUseCreator
<1>4. CASE ~StartSearch /\ ~OthersUseCreator
  <2>1. UNCHANGED creatorVars
    BY <1>4 DEF Next, JobStep, Top, Arm, Wake, Begin, NoSnapshot, Sleep, Quit, Load, Skip, Join, Collect,
      LeaveCreator, Finish, Trigger, StopJob, TimePasses, SnapshotArrives, vars
  <2> QED BY <1>1, <2>1, CreatorLemma
<1> QED BY <1>2, <1>3, <1>4

LEMMA JobTypes ==
  ASSUME TypeInv, JobStep
  PROVE  Flags' /\ Counters' /\ Records' /\ JobPlaces' /\ BeginInv'
<1> USE DEF Working, AtProcess, Place
<1>0. Flags /\ Counters /\ Records /\ JobPlaces /\ BeginInv /\ CreatorTypes
  BY DEF TypeInv
<1>1. CASE Top
  <2>1. Flags'
    BY <1>0, <1>1, Constants, Zenon DEF Top, Flags
  <2>2. Counters'
    BY <1>0, <1>1, Constants DEF Top, Counters, JobPlaces
  <2>3. Records'
    BY <1>0, <1>1 DEF Top, Records
  <2>4. JobPlaces'
    BY <1>0, <1>1, Constants DEF Top, JobPlaces, Counters, Flags
  <2>5. BeginInv'
    BY <1>0, <1>1, Constants DEF Top, BeginInv, MayBegin, Counters, Flags
  <2> QED BY <2>1, <2>2, <2>3, <2>4, <2>5
<1>2. CASE Arm
  <2>1. Flags'
    BY <1>0, <1>2, Constants, Zenon DEF Arm, Flags
  <2>2. Counters'
    BY <1>0, <1>2, Constants DEF Arm, Counters, JobPlaces
  <2>3. Records'
    BY <1>0, <1>2 DEF Arm, Records
  <2>4. JobPlaces'
    BY <1>0, <1>2, Constants DEF Arm, JobPlaces, Counters, Flags
  <2>5. BeginInv'
    BY <1>0, <1>2, Constants DEF Arm, BeginInv, MayBegin, Counters, Flags
  <2> QED BY <2>1, <2>2, <2>3, <2>4, <2>5
<1>3. CASE Wake
  <2>1. Flags'
    BY <1>0, <1>3, Constants, Zenon DEF Wake, Flags
  <2>2. Counters'
    BY <1>0, <1>3, Constants DEF Wake, Counters, JobPlaces
  <2>3. Records'
    BY <1>0, <1>3 DEF Wake, Records
  <2>4. JobPlaces'
    BY <1>0, <1>3, Constants DEF Wake, JobPlaces, Counters, Flags
  <2>5. BeginInv'
    BY <1>0, <1>3, Constants DEF Wake, BeginInv, MayBegin, Counters, Flags
  <2> QED BY <2>1, <2>2, <2>3, <2>4, <2>5
<1>4. CASE Begin
  <2>1. Flags'
    BY <1>0, <1>4, Constants, Zenon DEF Begin, Flags
  <2>2. Counters'
    BY <1>0, <1>4, Constants DEF Begin, Counters, JobPlaces, BeginInv, MayBegin, Flags
  <2>3. Records'
    BY <1>0, <1>4 DEF Begin, Records
  <2>4. JobPlaces'
    BY <1>0, <1>4, Constants DEF Begin, JobPlaces, Counters, Flags
  <2>5. BeginInv'
    BY <1>0, <1>4, Constants DEF Begin, BeginInv, MayBegin, Counters, Flags
  <2> QED BY <2>1, <2>2, <2>3, <2>4, <2>5
<1>5. CASE NoSnapshot
  <2>1. Flags'
    BY <1>0, <1>5, Constants, Zenon DEF NoSnapshot, FirstOfTest, GivesUp, Flags
  <2>2. Counters'
    BY <1>0, <1>5, Constants DEF NoSnapshot, GivesUp, FirstOfTest, Counters, JobPlaces
  <2>3. Records'
    BY <1>0, <1>5 DEF NoSnapshot, Records
  <2>4. JobPlaces'
    BY <1>0, <1>5, Constants DEF NoSnapshot, GivesUp, FirstOfTest, JobPlaces, Counters, Flags
  <2>5. BeginInv'
    BY <1>0, <1>5, Constants DEF NoSnapshot, GivesUp, FirstOfTest, BeginInv, MayBegin, Counters, Flags
  <2> QED BY <2>1, <2>2, <2>3, <2>4, <2>5
<1>6. CASE Sleep
  <2>1. Flags'
    BY <1>0, <1>6, Constants, Zenon DEF Sleep, Flags
  <2>2. Counters'
    BY <1>0, <1>6, Constants DEF Sleep, Counters, JobPlaces
  <2>3. Records'
    BY <1>0, <1>6 DEF Sleep, Records
  <2>4. JobPlaces'
    BY <1>0, <1>6, Constants DEF Sleep, JobPlaces, Counters, Flags
  <2>5. BeginInv'
    BY <1>0, <1>6, Constants DEF Sleep, BeginInv, MayBegin, Counters, Flags
  <2> QED BY <2>1, <2>2, <2>3, <2>4, <2>5
<1>7. CASE Quit
  <2>1. Flags'
    BY <1>0, <1>7, Constants, Zenon DEF Quit, Flags
  <2>2. Counters'
    BY <1>0, <1>7, Constants DEF Quit, Counters, JobPlaces
  <2>3. Records'
    BY <1>0, <1>7 DEF Quit, Records
  <2>4. JobPlaces'
    BY <1>0, <1>7, Constants DEF Quit, JobPlaces, Counters, Flags
  <2>5. BeginInv'
    BY <1>0, <1>7, Constants DEF Quit, BeginInv, MayBegin, Counters, Flags
  <2> QED BY <2>1, <2>2, <2>3, <2>4, <2>5
<1>8. CASE Load
  <2>1. Flags'
    BY <1>0, <1>8, Constants, Zenon DEF Load, Flags
  <2>2. Counters'
    BY <1>0, <1>8, Constants DEF Load, Counters, JobPlaces
  <2>3. Records'
    BY <1>0, <1>8 DEF Load, Records
  <2>4. JobPlaces'
    BY <1>0, <1>8, Constants DEF Load, JobPlaces, Counters, Flags
  <2>5. BeginInv'
    BY <1>0, <1>8, Constants DEF Load, BeginInv, MayBegin, Counters, Flags
  <2> QED BY <2>1, <2>2, <2>3, <2>4, <2>5
<1>9. CASE Skip
  <2>0. ThisSlot \in Slot
    BY <1>9, SlotLemma DEF Skip, AnotherProcess, JobPlaces, TypeInv
  <2>1. Flags'
    BY <1>0, <1>9, Constants, Zenon DEF Skip, Flags
  <2>2. Counters'
    BY <1>0, <1>9, Constants DEF Skip, AnotherProcess, ThisSlot, Counters, JobPlaces
  <2>3. Records'
    BY <1>0, <1>9, <2>0 DEF Skip, AnotherProcess, ThisSlot, Reason, Records
  <2>4. JobPlaces'
    BY <1>0, <1>9, Constants DEF Skip, AnotherProcess, ThisSlot, JobPlaces, Counters, Flags
  <2>5. BeginInv'
    BY <1>0, <1>9, Constants DEF Skip, AnotherProcess, ThisSlot, BeginInv, MayBegin, Counters, Flags
  <2> QED BY <2>1, <2>2, <2>3, <2>4, <2>5
<1>10. CASE StartSearch
  <2>1. Flags'
    BY <1>0, <1>10, Constants, Zenon DEF StartSearch, Flags
  <2>2. Counters'
    BY <1>0, <1>10, Constants DEF StartSearch, AnotherProcess, Counters, JobPlaces
  <2>3. Records'
    BY <1>0, <1>10 DEF StartSearch, Records
  <2>4. JobPlaces'
    BY <1>0, <1>10, Constants DEF StartSearch, AnotherProcess, JobPlaces, Counters, Flags
  <2>5. BeginInv'
    BY <1>0, <1>10, Constants DEF StartSearch, AnotherProcess, BeginInv, MayBegin, Counters, Flags
  <2> QED BY <2>1, <2>2, <2>3, <2>4, <2>5
<1>11. CASE Join
  <2>1. Flags'
    BY <1>0, <1>11, Constants, Zenon DEF Join, Flags
  <2>2. Counters'
    BY <1>0, <1>11, Constants DEF Join, Counters, JobPlaces
  <2>3. Records'
    BY <1>0, <1>11 DEF Join, Creator!Busy, Records, CreatorTypes
  <2>4. JobPlaces'
    BY <1>0, <1>11, Constants DEF Join, JobPlaces, Counters, Flags
  <2>5. BeginInv'
    BY <1>0, <1>11, Constants DEF Join, BeginInv, MayBegin, Counters, Flags
  <2> QED BY <2>1, <2>2, <2>3, <2>4, <2>5
<1>12. CASE Collect
  <2>0. ThisSlot \in Slot
    BY <1>12, SlotLemma DEF Collect, AnotherProcess, JobPlaces, TypeInv
  <2>1. Flags'
    BY <1>0, <1>12, Constants, Zenon DEF Collect, Flags
  <2>2. Counters'
    BY <1>0, <1>12, Constants DEF Collect, ThisSlot, Counters, JobPlaces
  <2>3. Records'
    BY <1>0, <1>12, <2>0 DEF Collect, Records
  <2>4. JobPlaces'
    BY <1>0, <1>12, Constants DEF Collect, ThisSlot, JobPlaces, Counters, Flags
  <2>5. BeginInv'
    BY <1>0, <1>12, Constants DEF Collect, ThisSlot, BeginInv, MayBegin, Counters, Flags
  <2> QED BY <2>1, <2>2, <2>3, <2>4, <2>5
<1>13. CASE Finish
  <2>1. Flags'
    BY <1>0, <1>13, Constants, Zenon DEF Finish, Flags
  <2>2. Counters'
    BY <1>0, <1>13, Constants DEF Finish, AnotherProcess, Counters, JobPlaces
  <2>3. Records'
    BY <1>0, <1>13 DEF Finish, Records
  <2>4. JobPlaces'
    BY <1>0, <1>13, Constants DEF Finish, AnotherProcess, JobPlaces, Counters, Flags
  <2>5. BeginInv'
    BY <1>0, <1>13, Constants DEF Finish, AnotherProcess, BeginInv, MayBegin, Counters, Flags
  <2> QED BY <2>1, <2>2, <2>3, <2>4, <2>5
<1> QED BY <1>1, <1>2, <1>3, <1>4, <1>5, <1>6, <1>7, <1>8, <1>9, <1>10, <1>11, <1>12, <1>13 DEF JobStep

LEMMA TypesStep == TypeInv /\ KnownInv /\ [Next]_vars => TypeInv' /\ KnownInv'
<1> SUFFICES ASSUME TypeInv, KnownInv, [Next]_vars PROVE TypeInv' /\ KnownInv'
  OBVIOUS
<1>1. CreatorTypes' /\ KnownInv'
  BY CreatorStep
<1> USE <1>1 DEF TypeInv
<1>2. CASE JobStep
  BY <1>2, JobTypes
<1>3. CASE Trigger
  BY <1>3, Constants DEF Trigger, jobVars, Flags, Counters, Records, JobPlaces, BeginInv, MayBegin
<1>4. CASE StopJob
  BY <1>4 DEF StopJob, WakesTheJob, jobVars, Flags, Counters, Records, JobPlaces, BeginInv
<1>5. CASE TimePasses
  BY <1>5 DEF TimePasses, jobVars, Flags, Counters, Records, JobPlaces, BeginInv
<1>6. CASE SnapshotArrives
  BY <1>6 DEF SnapshotArrives, jobVars, Flags, Counters, Records, JobPlaces, BeginInv, MayBegin
<1>7. CASE OthersUseCreator \/ UNCHANGED vars
  BY <1>7 DEF OthersUseCreator, vars, jobVars, Flags, Counters, Records, JobPlaces, BeginInv, MayBegin
<1> QED BY <1>2, <1>3, <1>4, <1>5, <1>6, <1>7 DEF Next

-----------------------------------------------------------------------------
(* The results that are kept.                                               *)
LEMMA IntervalEnds ==
  ASSUME NEW a \in Nat, NEW b \in Nat, a <= b
  PROVE  Oldest(a..b) = a /\ Newest(a..b) = b
<1>1. a \in a..b /\ b \in a..b /\ \A j \in a..b : a <= j /\ b >= j
  OBVIOUS
<1>2. \A i \in a..b : (\A j \in a..b : i <= j) => i = a
  BY <1>1
<1>3. \A i \in a..b : (\A j \in a..b : i >= j) => i = b
  BY <1>1
<1>4. Oldest(a..b) = a
  <2>1. \E i \in a..b : \A j \in a..b : i <= j
    BY <1>1
  <2>2. Oldest(a..b) \in a..b /\ \A j \in a..b : Oldest(a..b) <= j
    BY <2>1, Zenon DEF Oldest
  <2> QED BY <1>2, <2>2
<1>5. Newest(a..b) = b
  <2>1. \E i \in a..b : \A j \in a..b : i >= j
    BY <1>1
  <2>2. Newest(a..b) \in a..b /\ \A j \in a..b : Newest(a..b) >= j
    BY <2>1, Zenon DEF Newest
  <2> QED BY <1>3, <2>2
<1> QED BY <1>4, <1>5

(* Dropping the oldest of a row that is too long leaves room for one.       *)
LEMMA TrimLemma ==
  ASSUME NEW a \in Nat \ {0}, NEW b \in Nat, a <= b, kept = a..b, b - a <= Keep,
         NEW n \in Nat, n = b + 1
  PROVE  \E c \in 1..n : Trimmed \cup {n} = c..n /\ n - c <= Keep
<1>1. Cardinality(kept) = b - a + 1 /\ Oldest(kept) = a
  BY FS_Interval, IntervalEnds
<1>2. CASE TooMany
  <2>1. Trimmed = (a + 1)..b
    BY <1>1, <1>2 DEF Trimmed
  <2>2. Trimmed \cup {n} = (a + 1)..n
    BY <2>1
  <2> QED BY <2>2
<1>3. CASE ~TooMany
  <2>1. Trimmed = a..b /\ b - a + 1 <= Keep
    BY <1>1, <1>3, Constants DEF Trimmed, TooMany
  <2>2. Trimmed \cup {n} = a..n
    BY <2>1
  <2> QED BY <2>1, <2>2
<1> QED BY <1>2, <1>3

LEMMA KeptStep == TypeInv /\ KeptInv /\ [Next]_vars => KeptInv'
<1> SUFFICES ASSUME TypeInv, KeptInv, [Next]_vars PROVE KeptInv'
  OBVIOUS
<1>1. /\ runs \in Nat /\ (pc \in Working => runs > 0) /\ LastRun \in Nat
  BY Constants DEF TypeInv, Counters, JobPlaces, LastRun
<1>2. CASE Finish
  <2>1. pc = "process" /\ kept' = Trimmed \cup {runs} /\ LastRun' = runs /\ LastRun = runs - 1
    BY <1>2 DEF Finish, LastRun, Working
  <2>2. CASE kept = {}
    <3>1. Cardinality(kept) = 0
      BY <2>2, FS_EmptySet
    <3>2. kept' = {runs}
      BY <2>1, <2>2, <3>1, Constants DEF Trimmed, TooMany
    <3>3. kept' = runs..LastRun' /\ LastRun' - runs <= Keep
      BY <1>1, <2>1, <3>2, Constants
    <3>4. runs \in 1..LastRun'
      BY <1>1, <2>1 DEF Working
    <3> QED BY <3>3, <3>4 DEF KeptInv
  <2>3. CASE kept # {}
    <3>1. PICK a \in 1..LastRun : kept = a..LastRun /\ LastRun - a <= Keep
      BY <2>3 DEF KeptInv
    <3>2. a \in Nat \ {0} /\ a <= LastRun
      BY <1>1, <3>1
    <3>3. runs = LastRun + 1
      BY <1>1, <2>1
    <3>4. PICK c \in 1..runs : Trimmed \cup {runs} = c..runs /\ runs - c <= Keep
      BY <1>1, <3>1, <3>2, <3>3, TrimLemma
    <3> QED BY <2>1, <3>4 DEF KeptInv
  <2> QED BY <2>2, <2>3
<1>3. CASE JobStep /\ ~Finish
  <2>1. kept' = kept /\ LastRun' = LastRun
    BY <1>1, <1>3 DEF LastRun, Working, JobStep, AnotherProcess,
      Top, Arm, Wake, Begin, NoSnapshot, Sleep, Quit, Load, Skip, StartSearch, Join, Collect
  <2> QED BY <2>1 DEF KeptInv
<1>4. CASE ~JobStep
  <2>1. UNCHANGED <<kept, runs, pc>>
    BY <1>4 DEF Next, Trigger, StopJob, TimePasses, SnapshotArrives, OthersUseCreator, vars, jobVars
  <2> QED BY <2>1 DEF KeptInv, LastRun
<1> QED BY <1>2, <1>3, <1>4

-----------------------------------------------------------------------------
LEMMA Inductive == Spec => []IInv
<1>1. IInv /\ [Next]_vars => IInv'
  BY TypesStep, KeptStep DEF IInv
<1> QED BY <1>1, InitLemma, PTL DEF Spec

(* Every variable of the batch job keeps its type, and its counters their   *)
(* bounds: batch.py, whatever is configured.                                *)
THEOREM BatchTyped == Spec => []BatchTypeOK
<1>1. ASSUME IInv PROVE BatchTypeOK
  <2>1. Flags /\ Counters /\ Records
    BY <1>1 DEF IInv, TypeInv
  <2>2. kept \subseteq 1..runs
    BY <1>1, Constants DEF IInv, TypeInv, Counters, KeptInv, LastRun
  <2> QED BY <2>1, <2>2, Zenon DEF Flags, Counters, Records, BatchTypeOK
<1> QED BY <1>1, Inductive, PTL

(* The searches of the job run one after the other as long as no user stops *)
(* one, although the job waits for them no longer than max_duration.        *)
THEOREM SearchesFollowOneAnother == Spec => []OneSearchUnlessStopped
<1>1. ASSUME IInv PROVE OneSearchUnlessStopped
  BY <1>1, Constants DEF IInv, KnownInv, OneSearchUnlessStopped
<1> QED BY <1>1, Inductive, PTL

(* The page shows the newest results, in a row, for any number of results   *)
(* that are kept.                                                           *)
THEOREM NewestKept == Spec => []NewestAreKept
<1>1. ASSUME IInv PROVE NewestAreKept
  <2> SUFFICES ASSUME kept # {}
               PROVE  /\ Cardinality(kept) <= Keep + 1 /\ kept = Oldest(kept)..Newest(kept)
                      /\ Newest(kept) = LastRun
                      /\ LastRun = IF active \/ pc = "load" THEN runs - 1 ELSE runs
    BY DEF NewestAreKept
  <2>1. PICK a \in 1..LastRun : kept = a..LastRun /\ LastRun - a <= Keep
    BY <1>1 DEF IInv, KeptInv
  <2>2. LastRun \in Nat /\ runs \in Nat
    BY <1>1, Constants DEF IInv, TypeInv, Counters, JobPlaces, LastRun
  <2>3. a \in Nat /\ a <= LastRun
    BY <2>1, <2>2
  <2>4. Oldest(kept) = a /\ Newest(kept) = LastRun
    BY <2>1, <2>2, <2>3, IntervalEnds
  <2>5. Cardinality(kept) = LastRun - a + 1
    BY <2>1, <2>2, <2>3, FS_Interval
  <2>6. LastRun = IF active \/ pc = "load" THEN runs - 1 ELSE runs
    BY <1>1 DEF IInv, TypeInv, JobPlaces, LastRun, Working
  <2> QED BY <2>1, <2>2, <2>3, <2>4, <2>5, <2>6, Constants
<1> QED BY <1>1, Inductive, PTL
=============================================================================
