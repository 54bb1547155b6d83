------------------------ MODULE ServiceParts_proofs -------------------------
(***************************************************************************)
(* Proofs about the temporary restrictions, the results of the long term   *)
(* planning, the moves of the lot search, the pages that show its          *)
(* solutions and the snapshot their lots are transferred into, for any     *)
(* number of users, rules, sessions, runs, orders, lots, equipments,       *)
(* solutions and transfers.                                                *)
(***************************************************************************)
EXTENDS ServiceParts, NumberLemmas, FiniteSetTheorems, SequenceTheorems, TLAPS

-----------------------------------------------------------------------------
(* The temporary restrictions.  One thread changes them at a time, from its *)
(* change in memory to the end of its writing.                              *)
Changing == {"write", "backup", "copy", "close", "remove"}

RulesTypes ==
  /\ pc \in [User -> Rules!Place]
  /\ holder \in User \cup {None}

OneChanges == \A u \in User : pc[u] \in Changing => holder = u

(* Unless it is being replaced, or has not been the last time, the active   *)
(* file has what was completed last; a backup that is about to replace it,  *)
(* or does, has what is in memory.                                          *)
FilesFollow ==
  /\ ~copyFailed /\ (\A u \in User : pc[u] # "close") =>
       active # Rules!Corrupt /\ Rules!Parsed(active) = committed
  /\ \A u \in User :
       /\ pc[u] \in {"copy", "close"} => backup = Rules!File(Rules!Memory)
       /\ pc[u] = "close" => active = Rules!Corrupt
       /\ pc[u] = "remove" => DOMAIN rules = {}

RulesInv == RulesTypes /\ OneChanges /\ FilesFollow

(* What a file with rules, and one without, is read as.                     *)
LEMMA ParsedFile ==
  /\ \A content : Rules!File(content) # Rules!Corrupt /\ Rules!Parsed(Rules!File(content)) = content
  /\ Rules!Absent # Rules!Corrupt
  /\ Rules!Parsed(Rules!Absent) = Rules!NoRules
BY DEF Rules!File, Rules!Corrupt, Rules!Absent, Rules!Parsed

LEMMA MemoryOf ==
  /\ rules' = rules /\ lists' = lists => Rules!Memory' = Rules!Memory
  /\ DOMAIN rules = {} => Rules!Memory = Rules!NoRules
BY DEF Rules!Memory, Rules!NoRules

LEMMA RulesSafe ==
  ASSUME RulesInv
  PROVE  Rules!CrashKeepsRules
<1>1. CASE \E u \in User : pc[u] = "close"
  BY <1>1, ParsedFile DEF RulesInv, FilesFollow, Rules!CrashKeepsRules, Rules!Readable
<1>2. CASE \A u \in User : pc[u] # "close"
  BY <1>2 DEF RulesInv, FilesFollow, Rules!CrashKeepsRules, Rules!Readable
<1> QED
  BY <1>1, <1>2

LEMMA RulesStart ==
  ASSUME Rules!Init
  PROVE  RulesInv
BY ParsedFile DEF Rules!Init, RulesInv, RulesTypes, OneChanges, FilesFollow, Rules!Place, Changing

(* A step before the lock changes neither memory nor files.                 *)
LEMMA BeforeTheLock ==
  ASSUME RulesInv, NEW u \in User,
         Rules!BeginDelete(u) \/ Rules!NothingToDelete(u)
  PROVE  RulesInv'
<1>1. /\ pc[u] \in {"idle", "delete"}
      /\ \E p \in {"idle", "delete"} : pc' = [pc EXCEPT ![u] = p]
      /\ UNCHANGED <<rules, lists, active, backup, copyFailed, holder, committed>>
  BY DEF Rules!BeginDelete, Rules!NothingToDelete, Rules!Return, Rules!fileVars
<1>2. RulesTypes' /\ OneChanges'
  BY <1>1 DEF RulesInv, RulesTypes, OneChanges, Rules!Place, Changing
<1>3. FilesFollow'
  BY <1>1, MemoryOf DEF RulesInv, RulesTypes, FilesFollow, Rules!Parsed
<1> QED
  BY <1>2, <1>3 DEF RulesInv

(* A change takes the lock; nobody else is writing.                         *)
LEMMA ChangeTakesTheLock ==
  ASSUME RulesInv, NEW u \in User,
         Rules!Store(u) \/ Rules!Add(u) \/ Rules!Delete(u)
  PROVE  RulesInv'
<1>1. /\ pc[u] \in {"idle", "delete"} /\ holder = None /\ holder' = u
      /\ pc' = [pc EXCEPT ![u] = "write"]
      /\ UNCHANGED <<active, backup, copyFailed, committed>>
  BY Zenon DEF Rules!Store, Rules!Add, Rules!Delete, Rules!PutSetting, Rules!Change, Rules!fileVars
<1>2. \A v \in User : pc[v] \notin Changing
  BY <1>1, PartsAssumption DEF RulesInv, OneChanges, Rules!RestrictionsAssumption
<1>3. RulesTypes' /\ OneChanges'
  BY <1>1, <1>2 DEF RulesInv, RulesTypes, OneChanges, Rules!Place, Changing
<1>4. FilesFollow'
  BY <1>1, <1>2 DEF RulesInv, RulesTypes, FilesFollow, Rules!Parsed, Changing
<1> QED
  BY <1>3, <1>4 DEF RulesInv

(* The thread with the lock writes: memory stays as it is.                  *)
LEMMA WritingGoesOn ==
  ASSUME RulesInv, NEW u \in User,
         Rules!StartBackup(u) \/ Rules!EndBackup(u) \/ Rules!StartCopy(u) \/ Rules!RemoveBackup(u)
  PROVE  RulesInv'
<1>1. /\ pc[u] \in {"write", "backup", "copy"} /\ UNCHANGED <<rules, lists, holder, committed>>
      /\ \E p \in {"backup", "copy", "close", "remove"} : pc' = [pc EXCEPT ![u] = p]
  BY DEF Rules!StartBackup, Rules!EndBackup, Rules!StartCopy, Rules!RemoveBackup, Rules!Writes
<1>2. \A v \in User : v # u => pc[v] \notin Changing /\ pc'[v] = pc[v]
  BY <1>1 DEF RulesInv, OneChanges, Changing
<1>3. RulesTypes' /\ OneChanges'
  BY <1>1, <1>2 DEF RulesInv, RulesTypes, OneChanges, Rules!Place, Changing
<1>4. FilesFollow'
  <2>1. Rules!Memory' = Rules!Memory
    BY <1>1, MemoryOf
  <2>2. \A v \in User : pc[v] # "close"
    BY <1>1, <1>2 DEF Changing
  <2>3. CASE Rules!StartBackup(u)
    BY <2>1, <2>2, <2>3, <1>1, <1>2
    DEF RulesInv, RulesTypes, FilesFollow, Rules!Parsed, Rules!StartBackup, Rules!Writes, Changing
  <2>4. CASE Rules!EndBackup(u)
    <3>1. backup' = Rules!File(Rules!Memory) /\ active' = active /\ pc' = [pc EXCEPT ![u] = "copy"]
          /\ copyFailed' = copyFailed
      BY <2>4 DEF Rules!EndBackup, Rules!Writes
    <3>2. Rules!File(Rules!Memory)' = Rules!File(Rules!Memory)
      BY <2>1 DEF Rules!File
    <3> QED
      BY <3>1, <3>2, <2>2, <1>1, <1>2 DEF RulesInv, RulesTypes, FilesFollow, Rules!Parsed, Changing
  <2>5. CASE Rules!StartCopy(u)
    <3>1. /\ backup' = backup /\ active' = Rules!Corrupt /\ pc' = [pc EXCEPT ![u] = "close"]
          /\ pc[u] = "copy"
      BY <2>5 DEF Rules!StartCopy, Rules!Writes
    <3>2. Rules!File(Rules!Memory)' = Rules!File(Rules!Memory)
      BY <2>1 DEF Rules!File
    <3> QED
      BY <3>1, <3>2, <2>2, <1>1, <1>2 DEF RulesInv, RulesTypes, FilesFollow, Rules!Corrupt, Changing
  <2>6. CASE Rules!RemoveBackup(u)
    BY <2>1, <2>2, <2>6, <1>1, <1>2
    DEF RulesInv, RulesTypes, FilesFollow, Rules!Parsed, Rules!RemoveBackup, Rules!Writes, Changing
  <2> QED
    BY <2>3, <2>4, <2>5, <2>6
<1> QED
  BY <1>3, <1>4 DEF RulesInv

(* The writer leaves with what is in memory on the disk, or fails and goes  *)
(* back, or the service starts again with what it can read.                 *)
LEMMA WritingEnds ==
  ASSUME RulesInv, NEW u \in User, Rules!EndCopy(u) \/ Rules!RemoveActive(u)
  PROVE  RulesInv'
<1>1. /\ pc[u] \in {"close", "remove"} /\ pc' = [pc EXCEPT ![u] = "idle"]
      /\ UNCHANGED <<rules, lists>> /\ holder' = None /\ committed' = Rules!Memory
  BY DEF Rules!EndCopy, Rules!RemoveActive, Rules!Finish, Rules!Return
<1>2. \A v \in User : pc'[v] \notin Changing
  BY <1>1 DEF RulesInv, RulesTypes, OneChanges, Changing
<1>3. RulesTypes' /\ OneChanges'
  BY <1>1, <1>2 DEF RulesInv, RulesTypes, OneChanges, Rules!Place
<1>4. active' # Rules!Corrupt /\ Rules!Parsed(active') = Rules!Memory
  BY <1>1, ParsedFile, MemoryOf DEF RulesInv, FilesFollow, Rules!EndCopy, Rules!RemoveActive
<1>5. FilesFollow'
  BY <1>1, <1>2, <1>4 DEF FilesFollow, Rules!Parsed, Changing
<1> QED
  BY <1>3, <1>5 DEF RulesInv

LEMMA WritingFails ==
  ASSUME RulesInv, NEW u \in User, Rules!Fail(u)
  PROVE  RulesInv'
<1>1. /\ pc[u] \in Changing /\ pc' = [pc EXCEPT ![u] = "idle"]
      /\ UNCHANGED <<backup, committed>> /\ holder' = None
      /\ copyFailed' \/ (pc[u] # "close" /\ active' = active /\ copyFailed' = copyFailed)
  BY DEF Rules!Fail, Rules!Return, Changing
<1>2. \A v \in User : (v # u => pc[v] \notin Changing) /\ pc'[v] \notin Changing
  BY <1>1 DEF RulesInv, RulesTypes, OneChanges, Changing
<1>3. RulesTypes' /\ OneChanges'
  BY <1>1, <1>2 DEF RulesInv, RulesTypes, OneChanges, Rules!Place
<1>4. FilesFollow'
  BY <1>1, <1>2 DEF RulesInv, FilesFollow, Rules!Parsed, Changing
<1> QED
  BY <1>3, <1>4 DEF RulesInv

LEMMA ServiceStartsAgain ==
  ASSUME Rules!Restart
  PROVE  RulesInv'
<1>1. /\ pc' = [u \in User |-> "idle"] /\ holder' = None
      /\ copyFailed' \/ (active' # Rules!Corrupt /\ committed' = Rules!Parsed(active'))
  BY DEF Rules!Restart, Rules!Readable, Rules!Parsed
<1> QED
  BY <1>1 DEF RulesInv, RulesTypes, OneChanges, FilesFollow, Rules!Place, Changing, Rules!Parsed

LEMMA RulesStep ==
  ASSUME RulesInv, Rules!Next
  PROVE  RulesInv'
<1>1. CASE Rules!Restart
  BY <1>1, ServiceStartsAgain
<1>2. ASSUME NEW u \in User, Rules!Step(u) PROVE RulesInv'
  BY <1>2, BeforeTheLock, ChangeTakesTheLock, WritingGoesOn, WritingEnds, WritingFails DEF Rules!Step
<1> QED
  BY <1>1, <1>2 DEF Rules!Next

LEMMA RulesStay ==
  ASSUME RulesInv, UNCHANGED varsRules
  PROVE  RulesInv'
<1>1. Rules!Memory' = Rules!Memory
  BY MemoryOf DEF varsRules
<1> QED
  BY <1>1 DEF RulesInv, RulesTypes, OneChanges, FilesFollow, Rules!Parsed, Rules!File, varsRules

(* Whenever the service crashes one of the two files can be read, and has   *)
(* the rules of the last completed change or of the one under way, unless   *)
(* the last copy onto the active file has failed.                           *)
THEOREM RulesSurviveCrashes == PartsSpec => []CrashKeepsRules
<1> DEFINE Inv == IsRules => RulesInv
<1>1. PartsInit => Inv
  BY RulesStart DEF PartsInit, IsRules
<1>2. Inv /\ [PartsNext]_partsVars => Inv'
  <2> SUFFICES ASSUME IsRules', Inv, [PartsNext]_partsVars PROVE RulesInv'
    OBVIOUS
  <2>1. CASE IsRules /\ Rules!Next
    BY <2>1, RulesStep
  <2>2. CASE UNCHANGED <<part, varsRules>>
    BY <2>2, RulesStay DEF IsRules
  <2>3. QED
    BY <2>1, <2>2 DEF PartsNext, IsRules, IsLongTerm, IsMoves, IsPlanning, IsLots, partsVars
<1>3. Inv => CrashKeepsRules
  BY RulesSafe DEF CrashKeepsRules
<1>4. QED
  BY <1>1, <1>2, <1>3, PTL DEF PartsSpec

-----------------------------------------------------------------------------
(* The results of the long term planning.  A file is pending between its    *)
(* being stored and the caches being told; it is settled after that.        *)
ResultKey == StartTime \X ((0 .. MaxSecond) \X {0})
Pending(f) == \E r \in LongTerm!Runs : run[r].at = "stored" /\ run[r].key = f
Settled == {f \in DOMAIN files \ raced : ~Pending(f)}

Callback(c) ==
  \/ c = LongTerm!Idle
  \/ /\ c = [at |-> c.at, start |-> c.start] /\ c.start \in StartTime
     /\ c.at \in {"prepare", "start", "memory", "load"}
  \/ /\ c = [at |-> c.at, start |-> c.start, found |-> c.found, then |-> c.then] /\ c.start \in StartTime
     /\ c.then \in {"load", "start"}
     /\ \/ c.at = "months" /\ c.found \subseteq Month
        \/ c.at = "ids" /\ c.found \subseteq DOMAIN files
Thread(key) ==
  [at : {"compute", "store", "stored", "done", "failed"}, key : {key}, memory : BOOLEAN, killed : BOOLEAN]

ResultTypes ==
  /\ ltpThread \in LongTerm!Runs \cup {None} /\ numRuns \in 0 .. MaxRuns /\ second \in 0 .. MaxSecond
  /\ DOMAIN files \subseteq ResultKey /\ \A f \in DOMAIN files : files[f] \in LongTerm!Runs
  /\ months = None \/ months \subseteq Month
  /\ ids = [m \in Month |-> ids[m]] /\ \A m \in Month : ids[m] = None \/ ids[m] \subseteq DOMAIN files
  /\ session = [s \in Session |-> session[s]] /\ \A s \in Session : Callback(session[s])
  /\ run = [r \in LongTerm!Runs |-> run[r]]
  /\ \A r \in LongTerm!Runs :
       /\ run[r] \in Thread(run[r].key)
       /\ run[r].at = "stored" => ~run[r].memory /\ run[r].key \in DOMAIN files
       /\ r > numRuns => run[r].at = "done"

(* What is settled is in the caches, as far as there are any.               *)
CachesKnow ==
  \A f \in Settled : LET m == MonthOf[f[1]] IN
    (months # None => m \in months) /\ (ids[m] # None => f \in ids[m])

(* A callback that fills a cache has found all but what came in meanwhile;  *)
(* one that starts a run, and the run, have had the caches filled, so that  *)
(* the new solution does not begin a cache that knows no other.             *)
Looked(m) == months # None /\ (ids[m] # None \/ \A f \in Settled : MonthOf[f[1]] # m)

CallbackOK(c) ==
  /\ c.at = "months" => \A f \in DOMAIN files \ raced : MonthOf[f[1]] \in c.found
  /\ c.at = "ids" => /\ months # None
                     /\ \A f \in DOMAIN files \ raced : MonthOf[f[1]] = MonthOf[c.start] => f \in c.found
  /\ c.at = "start" => Looked(MonthOf[c.start])
ThreadOK(t) ==
  t.at \in {"compute", "store", "stored"} /\ ~t.memory => t.key \in ResultKey /\ Looked(MonthOf[t.key[1]])

ResultInv ==
  /\ ResultTypes /\ CachesKnow
  /\ \A s \in Session : CallbackOK(session[s])
  /\ \A r \in LongTerm!Runs : ThreadOK(run[r])

LEMMA MonthOfKey ==
  /\ \A f \in ResultKey : f[1] \in StartTime /\ MonthOf[f[1]] \in Month
  /\ \A t \in StartTime : MonthOf[t] \in Month
  /\ \A found : found \subseteq Month \/ found \subseteq ResultKey => found # None
<1>1. LongTerm!ResultsAssumption
  BY PartsAssumption
<1>2. \A t \in StartTime : MonthOf[t] \in Month
  BY <1>1 DEF LongTerm!ResultsAssumption
<1>3. \A found : found \subseteq Month \/ found \subseteq ResultKey => found # None
  <2> SUFFICES ASSUME NEW found, found \subseteq Month \/ found \subseteq ResultKey PROVE found # None
    OBVIOUS
  <2>1. \A x \in (SUBSET Month) \cup (SUBSET ResultKey) : x # None
    BY <1>1, Zenon DEF LongTerm!ResultsAssumption, ResultKey
  <2>2. found \in SUBSET Month \/ found \in SUBSET ResultKey
    OBVIOUS
  <2>3. found \in (SUBSET Month) \cup (SUBSET ResultKey)
    BY <2>2, Zenon
  <2> QED
    BY <2>1, <2>3, Zenon
<1>4. \A f \in ResultKey : f[1] \in StartTime
  BY DEF ResultKey
<1> QED
  BY <1>2, <1>3, <1>4

LEMMA ResultsSafe ==
  ASSUME ResultInv
  PROVE  LongTerm!StoredIsListed /\ LongTerm!ResultsTypeOK
<1>1. \A f \in DOMAIN files : f[1] \in StartTime
  BY MonthOfKey DEF ResultInv, ResultTypes
<1>2. LongTerm!ResultsTypeOK
  BY <1>1 DEF ResultInv, ResultTypes, LongTerm!ResultsTypeOK
<1>3. ASSUME NEW f \in DOMAIN files \ raced, ~Pending(f) PROVE f \in LongTerm!Listed(f[1])
  BY <1>3 DEF ResultInv, CachesKnow, Settled, LongTerm!Listed
<1> QED
  BY <1>2, <1>3 DEF LongTerm!StoredIsListed, Pending

LEMMA ResultsStart ==
  ASSUME LongTerm!Init
  PROVE  ResultInv
<1>1. /\ run = [r \in LongTerm!Runs |-> LongTerm!NoRun] /\ session = [s \in Session |-> LongTerm!Idle]
      /\ files = <<>> /\ months = None /\ ids = [m \in Month |-> None]
      /\ ltpThread = None /\ numRuns = 0 /\ second = 0
  BY DEF LongTerm!Init
<1>2. DOMAIN files = {}
  BY <1>1
<1>3. ResultTypes
  <2>1. numRuns \in 0 .. MaxRuns /\ second \in 0 .. MaxSecond
    BY <1>1, PartsAssumption DEF LongTerm!ResultsAssumption
  <2>2. ids = [m \in Month |-> ids[m]] /\ \A m \in Month : ids[m] = None
    BY <1>1
  <2>3. session = [s \in Session |-> session[s]] /\ \A s \in Session : Callback(session[s])
    BY <1>1 DEF Callback
  <2>4. run = [r \in LongTerm!Runs |-> run[r]]
    BY <1>1
  <2>5. \A r \in LongTerm!Runs : run[r] \in Thread(run[r].key) /\ run[r].at = "done"
    BY <1>1 DEF Thread, LongTerm!NoRun
  <2> QED
    BY <1>1, <1>2, <2>1, <2>2, <2>3, <2>4, <2>5 DEF ResultTypes
<1>4. CachesKnow
  BY <1>2 DEF CachesKnow, Settled
<1>5. \A s \in Session : CallbackOK(session[s])
  BY <1>1 DEF CallbackOK, LongTerm!Idle
<1>6. \A r \in LongTerm!Runs : ThreadOK(run[r])
  BY <1>1 DEF ThreadOK, LongTerm!NoRun
<1> QED
  BY <1>3, <1>4, <1>5, <1>6 DEF ResultInv

(* What a callback wants is looked up as the caches stand.                  *)
LEMMA NeedsOK ==
  ASSUME ResultInv, NEW t \in StartTime, NEW then \in {"load", "start"}
  PROVE  Callback(LongTerm!Needs(t, then)) /\ CallbackOK(LongTerm!Needs(t, then))
<1>1. CASE months = None
  <2>1. LongTerm!Needs(t, then) =
          [at |-> "months", start |-> t, found |-> {MonthOf[f[1]] : f \in DOMAIN files}, then |-> then]
    BY <1>1 DEF LongTerm!Needs, LongTerm!MonthsOnDisk
  <2>2. {MonthOf[f[1]] : f \in DOMAIN files} \subseteq Month
    BY MonthOfKey DEF ResultInv, ResultTypes
  <2> QED
    BY <2>1, <2>2 DEF Callback, CallbackOK
<1>2. CASE months # None /\ MonthOf[t] \in months /\ ids[MonthOf[t]] = None
  <2>1. LongTerm!Needs(t, then) =
          [at |-> "ids", start |-> t, found |-> {f \in DOMAIN files : MonthOf[f[1]] = MonthOf[t]}, then |-> then]
    BY <1>2 DEF LongTerm!Needs, LongTerm!OfMonth
  <2> QED
    BY <2>1, <1>2 DEF Callback, CallbackOK
<1>3. CASE months # None /\ ~(MonthOf[t] \in months /\ ids[MonthOf[t]] = None)
  <2>1. LongTerm!Needs(t, then) = [at |-> then, start |-> t]
    BY <1>3 DEF LongTerm!Needs
  <2>2. Looked(MonthOf[t])
    BY <1>3 DEF Looked, ResultInv, CachesKnow
  <2> QED
    BY <2>1, <2>2 DEF Callback, CallbackOK
<1> QED
  BY <1>1, <1>2, <1>3

(* A step that touches neither files nor caches, and stores nothing.        *)
ThreadsKeep ==
  \A r \in LongTerm!Runs :
    /\ run'[r] \in Thread(run'[r].key) /\ ThreadOK(run'[r])
    /\ run'[r].at = "stored" <=> run[r].at = "stored"
    /\ run'[r].at = "stored" => run'[r].key = run[r].key /\ ~run'[r].memory
    /\ r > numRuns' => run'[r].at = "done"

LEMMA QuietStep ==
  ASSUME ResultInv, UNCHANGED <<files, months, ids, raced>>,
         ltpThread' \in LongTerm!Runs \cup {None}, numRuns' \in 0 .. MaxRuns, second' \in 0 .. MaxSecond,
         session' = [s \in Session |-> session'[s]], run' = [r \in LongTerm!Runs |-> run'[r]],
         \A s \in Session : Callback(session'[s]) /\ CallbackOK(session'[s]), ThreadsKeep
  PROVE  ResultInv'
<1>1. \A f : Pending(f)' <=> Pending(f)
  BY DEF ThreadsKeep, Pending
<1>2. Settled' = Settled
  BY <1>1 DEF Settled
<1>3. CachesKnow' /\ \A m : Looked(m)' <=> Looked(m)
  BY <1>2 DEF ResultInv, CachesKnow, Looked
<1>4. ResultTypes'
  BY DEF ResultInv, ResultTypes, Callback, ThreadsKeep
<1>5. \A s \in Session : CallbackOK(session[s])'
  BY <1>3 DEF CallbackOK
<1>6. \A r \in LongTerm!Runs : ThreadOK(run[r])'
  BY <1>3 DEF ThreadOK, ThreadsKeep
<1> QED
  BY <1>3, <1>4, <1>5, <1>6 DEF ResultInv

LEMMA CallbackGoes ==
  ASSUME ResultInv, NEW s \in Session, NEW c, Callback(c), CallbackOK(c),
         session' = [session EXCEPT ![s] = c], ltpThread' \in LongTerm!Runs \cup {None},
         UNCHANGED <<run, numRuns, second, files, months, ids, raced>>
  PROVE  ResultInv'
<1>1. ThreadsKeep
  BY DEF ThreadsKeep, ResultInv, ResultTypes
<1>2. session' = [x \in Session |-> session'[x]]
      /\ \A x \in Session : Callback(session'[x]) /\ CallbackOK(session'[x])
  BY DEF ResultInv, ResultTypes
<1>3. /\ run' = [r \in LongTerm!Runs |-> run'[r]] /\ numRuns' \in 0 .. MaxRuns /\ second' \in 0 .. MaxSecond
      /\ UNCHANGED <<files, months, ids, raced>>
  BY DEF ResultInv, ResultTypes
<1> QED
  BY <1>1, <1>2, <1>3, QuietStep

LEMMA RunGoes ==
  ASSUME ResultInv, NEW r \in LongTerm!Runs, NEW t, t \in Thread(t.key), ThreadOK(t),
         t.at = "stored" <=> run[r].at = "stored",
         t.at = "stored" => t.key = run[r].key /\ ~t.memory, r > numRuns => t.at = "done",
         run' = [run EXCEPT ![r] = t], ltpThread' \in LongTerm!Runs \cup {None},
         UNCHANGED <<session, numRuns, second, files, months, ids, raced>>
  PROVE  ResultInv'
<1>1. ThreadsKeep
  BY DEF ThreadsKeep, ResultInv, ResultTypes
<1>2. session' = [x \in Session |-> session'[x]]
      /\ \A x \in Session : Callback(session'[x]) /\ CallbackOK(session'[x])
  BY DEF ResultInv, ResultTypes
<1>3. /\ run' = [x \in LongTerm!Runs |-> run'[x]] /\ numRuns' \in 0 .. MaxRuns /\ second' \in 0 .. MaxSecond
      /\ UNCHANGED <<files, months, ids, raced>>
  BY DEF ResultInv, ResultTypes
<1> QED
  BY <1>1, <1>2, <1>3, QuietStep

LEMMA PlainCallback ==
  /\ Callback(LongTerm!Idle) /\ CallbackOK(LongTerm!Idle)
  /\ \A t \in StartTime, at \in {"prepare", "memory", "load"} :
       Callback([at |-> at, start |-> t]) /\ CallbackOK([at |-> at, start |-> t])
BY DEF Callback, CallbackOK, LongTerm!Idle

(* The callbacks that look up, begin and stop.                              *)
LEMMA CallbackSteps ==
  ASSUME ResultInv, NEW s \in Session,
         LongTerm!LoadSolutions(s) \/ LongTerm!Prepare(s)
         \/ \E t \in StartTime : LongTerm!ShowSolutions(s, t) \/ LongTerm!StartLongTerm(s, t)
  PROVE  ResultInv'
<1>1. LongTerm!CheckedThread \in LongTerm!Runs \cup {None} /\ ltpThread \in LongTerm!Runs \cup {None}
  BY DEF LongTerm!CheckedThread, ResultInv, ResultTypes
<1>2. CASE LongTerm!LoadSolutions(s)
  BY <1>1, <1>2, PlainCallback, CallbackGoes DEF LongTerm!LoadSolutions, LongTerm!cacheVars
<1>3. CASE LongTerm!Prepare(s)
  <2>1. session[s].start \in StartTime
    BY <1>3 DEF LongTerm!Prepare, ResultInv, ResultTypes, Callback, LongTerm!Idle
  <2>2. PICK c : Callback(c) /\ CallbackOK(c) /\ session' = [session EXCEPT ![s] = c]
    BY <1>3, <2>1, NeedsOK, PlainCallback DEF LongTerm!Prepare, LongTerm!LooksFirst
  <2> QED
    BY <1>1, <1>3, <2>2, CallbackGoes DEF LongTerm!Prepare, LongTerm!cacheVars
<1>4. ASSUME NEW t \in StartTime, LongTerm!ShowSolutions(s, t) PROVE ResultInv'
  BY <1>1, <1>4, NeedsOK, CallbackGoes DEF LongTerm!ShowSolutions, LongTerm!cacheVars
<1>5. ASSUME NEW t \in StartTime, LongTerm!StartLongTerm(s, t) PROVE ResultInv'
  BY <1>1, <1>5, PlainCallback, CallbackGoes DEF LongTerm!StartLongTerm, LongTerm!cacheVars
<1> QED
  BY <1>2, <1>3, <1>4, <1>5

LEMMA RunStarts ==
  ASSUME ResultInv, NEW s \in Session, NEW id, NEW inMemory \in BOOLEAN, LongTerm!Launch(s, id, inMemory),
         ~inMemory => session[s].at = "start" /\ id = <<second, 0>>, session[s].at \in {"start", "memory"}
  PROVE  ResultInv'
<1>1. MaxRuns \in Nat
  BY PartsAssumption DEF LongTerm!ResultsAssumption
<1> DEFINE key == <<session[s].start, id>>
           t == [at |-> "compute", key |-> key, memory |-> inMemory, killed |-> FALSE]
<1>2. /\ numRuns + 1 \in LongTerm!Runs /\ numRuns' = numRuns + 1 /\ ltpThread' = numRuns + 1
      /\ run' = [run EXCEPT ![numRuns + 1] = t] /\ session' = [session EXCEPT ![s] = LongTerm!Idle]
      /\ UNCHANGED <<second, files, months, ids, raced>>
  BY <1>1 DEF LongTerm!Launch, LongTerm!Runs, ResultInv, ResultTypes, LongTerm!cacheVars
<1>3. session[s].start \in StartTime
  BY DEF ResultInv, ResultTypes, Callback, LongTerm!Idle
<1>4. ThreadOK(t)
  <2>1. CASE inMemory
    BY <2>1 DEF ThreadOK
  <2>2. CASE ~inMemory
    BY <2>2, <1>3 DEF ThreadOK, ResultKey, ResultInv, ResultTypes, CallbackOK
  <2> QED
    BY <2>1, <2>2
<1>5. t \in Thread(t.key) /\ t.at = "compute"
  BY DEF Thread
<1>6. run[numRuns + 1].at = "done"
  BY <1>2 DEF LongTerm!Runs, ResultInv, ResultTypes
<1> HIDE DEF t
<1>7. ThreadsKeep
  BY <1>2, <1>4, <1>5, <1>6 DEF ThreadsKeep, ResultInv, ResultTypes, LongTerm!Runs
<1>8. session' = [x \in Session |-> session'[x]]
      /\ \A x \in Session : Callback(session'[x]) /\ CallbackOK(session'[x])
  BY <1>2, PlainCallback DEF ResultInv, ResultTypes
<1>9. numRuns' \in 0 .. MaxRuns /\ second' \in 0 .. MaxSecond /\ ltpThread' \in LongTerm!Runs
  BY <1>1, <1>2 DEF ResultInv, ResultTypes, LongTerm!Runs
<1>10. run' = [x \in LongTerm!Runs |-> run'[x]]
  BY <1>2 DEF ResultInv, ResultTypes
<1> QED
  BY <1>2, <1>7, <1>8, <1>9, <1>10, QuietStep

LEMMA ThreadSteps ==
  ASSUME ResultInv,
         \/ \E s \in Session : LongTerm!StopLongTerm(s) \/ LongTerm!PollLongTerm(s)
         \/ \E r \in LongTerm!Runs : LongTerm!Compute(r) \/ LongTerm!StoreInMemory(r)
         \/ LongTerm!TimePasses
  PROVE  ResultInv'
<1>1. ASSUME NEW r \in LongTerm!Runs, NEW t, t \in Thread(run[r].key), t.memory = run[r].memory,
             t.at = run[r].at \/ (run[r].at \in {"compute", "store"} /\ t.at \in {"store", "failed", "done"}),
             run' = [run EXCEPT ![r] = t], ltpThread' \in LongTerm!Runs \cup {None},
             UNCHANGED <<session, numRuns, second, files, months, ids, raced>>
      PROVE  ResultInv'
  <2>1. t.key = run[r].key /\ t \in Thread(t.key)
    BY <1>1 DEF Thread
  <2>2. ThreadOK(run[r]) /\ (run[r].at = "stored" => ~run[r].memory) /\ (r > numRuns => run[r].at = "done")
    BY DEF ResultInv, ResultTypes
  <2>3. ThreadOK(t)
    BY <1>1, <2>1, <2>2 DEF ThreadOK
  <2> QED
    BY <1>1, <2>1, <2>2, <2>3, RunGoes
<1>2. ASSUME NEW r \in LongTerm!Runs
      PROVE  /\ LET t == [run[r] EXCEPT !.killed = TRUE] IN
                  t \in Thread(run[r].key) /\ t.memory = run[r].memory /\ t.at = run[r].at
             /\ \A at \in {"store", "done", "failed"} : LET t == [run[r] EXCEPT !.at = at] IN
                  t \in Thread(run[r].key) /\ t.memory = run[r].memory /\ t.at = at
  <2>1. run[r] \in Thread(run[r].key)
    BY DEF ResultInv, ResultTypes
  <2> QED
    BY <2>1 DEF Thread
<1>3. ASSUME NEW s \in Session, LongTerm!StopLongTerm(s) PROVE ResultInv'
  <2>1. PICK r \in LongTerm!Runs : r = ltpThread /\ ltpThread' = None
    BY <1>3 DEF LongTerm!StopLongTerm, LongTerm!CheckedThread, ResultInv, ResultTypes
  <2>2. PICK t : t = [run[r] EXCEPT !.killed = TRUE]
    OBVIOUS
  <2>3. run' = [run EXCEPT ![r] = t]
    BY <1>3, <2>1, <2>2 DEF LongTerm!StopLongTerm
  <2>4. UNCHANGED <<session, numRuns, second, files, months, ids, raced>>
    BY <1>3 DEF LongTerm!StopLongTerm, LongTerm!cacheVars
  <2>5. t \in Thread(run[r].key) /\ t.memory = run[r].memory /\ t.at = run[r].at
    BY <1>2, <2>2
  <2>6. ltpThread' \in LongTerm!Runs \cup {None}
    BY <2>1
  <2>7. t.at = run[r].at \/ (run[r].at \in {"compute", "store"} /\ t.at \in {"store", "failed", "done"})
    BY <2>5
  <2> QED
    BY <1>1, <2>3, <2>4, <2>5, <2>6, <2>7, Zenon
<1>4. ASSUME NEW r \in LongTerm!Runs, LongTerm!Compute(r) PROVE ResultInv'
  <2>1. PICK at \in {"store", "failed"} : run' = [run EXCEPT ![r].at = at]
    BY <1>4 DEF LongTerm!Compute, LongTerm!Goes
  <2>2. PICK t : t = [run[r] EXCEPT !.at = at]
    OBVIOUS
  <2>3. run' = [run EXCEPT ![r] = t] /\ run[r].at = "compute"
    BY <1>4, <2>1, <2>2 DEF LongTerm!Compute
  <2>4. UNCHANGED <<session, numRuns, second, files, months, ids, raced, ltpThread>>
    BY <1>4 DEF LongTerm!Compute, LongTerm!cacheVars
  <2>5. t \in Thread(run[r].key) /\ t.memory = run[r].memory /\ t.at = at
    BY <1>2, <2>1, <2>2
  <2>6. ltpThread' \in LongTerm!Runs \cup {None}
    BY <2>4 DEF ResultInv, ResultTypes
  <2> QED
    BY <1>1, <2>1, <2>3, <2>4, <2>5, <2>6
<1>5. ASSUME NEW r \in LongTerm!Runs, LongTerm!StoreInMemory(r) PROVE ResultInv'
  <2>1. PICK t : t = [run[r] EXCEPT !.at = "done"]
    OBVIOUS
  <2>2. run' = [run EXCEPT ![r] = t] /\ run[r].at = "store"
    BY <1>5, <2>1 DEF LongTerm!StoreInMemory, LongTerm!Goes
  <2>3. UNCHANGED <<session, numRuns, second, files, months, ids, raced, ltpThread>>
    BY <1>5 DEF LongTerm!StoreInMemory, LongTerm!cacheVars
  <2> QED
    BY <1>1, <1>2, <2>1, <2>2, <2>3 DEF ResultInv, ResultTypes
<1>6. ASSUME ltpThread' \in LongTerm!Runs \cup {None}, second' \in 0 .. MaxSecond,
             UNCHANGED <<session, run, numRuns, files, months, ids, raced>>
      PROVE  ResultInv'
  <2>1. ThreadsKeep /\ \A x \in Session : Callback(session'[x]) /\ CallbackOK(session'[x])
    BY <1>6 DEF ThreadsKeep, ResultInv, ResultTypes
  <2>2. /\ session' = [x \in Session |-> session'[x]] /\ run' = [x \in LongTerm!Runs |-> run'[x]]
        /\ numRuns' \in 0 .. MaxRuns
    BY <1>6 DEF ResultInv, ResultTypes
  <2> QED
    BY <1>6, <2>1, <2>2, QuietStep
<1>7. ASSUME NEW s \in Session, LongTerm!PollLongTerm(s) PROVE ResultInv'
  BY <1>6, <1>7 DEF LongTerm!PollLongTerm, LongTerm!cacheVars, ResultInv, ResultTypes
<1>8. CASE LongTerm!TimePasses
  <2>1. second' \in 0 .. MaxSecond
    BY <1>8, PartsAssumption DEF LongTerm!TimePasses, ResultInv, ResultTypes, LongTerm!ResultsAssumption
  <2> QED
    BY <1>6, <1>8, <2>1 DEF LongTerm!TimePasses, LongTerm!cacheVars, ResultInv, ResultTypes
<1> QED
  BY <1>3, <1>4, <1>5, <1>7, <1>8

(* A callback has listed the folder and fills a cache.                      *)
LEMMA MonthsFilled ==
  ASSUME ResultInv, NEW s \in Session, LongTerm!FillMonths(s)
  PROVE  ResultInv'
<1> PICK c : c = session[s]
  OBVIOUS
<1> PICK m : m = MonthOf[c.start]
  OBVIOUS
<1>1. /\ c.at = "months" /\ c.start \in StartTime /\ c.found \subseteq Month /\ c.then \in {"load", "start"}
      /\ \A f \in DOMAIN files \ raced : MonthOf[f[1]] \in c.found
  BY DEF LongTerm!FillMonths, ResultInv, ResultTypes, Callback, LongTerm!Idle, CallbackOK
<1>2. months' = c.found /\ months' # None /\ UNCHANGED <<ltpThread, run, numRuns, second, files, ids, raced>>
  BY <1>1, MonthOfKey DEF LongTerm!FillMonths
<1>3. Settled' = Settled /\ Settled \subseteq DOMAIN files \ raced
  BY <1>2 DEF Settled, Pending
<1>4. CachesKnow'
  BY <1>1, <1>2, <1>3 DEF CachesKnow, ResultInv
<1>5. \A k : Looked(k) => Looked(k)'
  BY <1>2, <1>3 DEF Looked
<1>6. \A d : (Callback(d) => Callback(d)') /\ (CallbackOK(d) => CallbackOK(d)')
  BY <1>2, <1>5 DEF Callback, CallbackOK
<1>7. \E d : session' = [session EXCEPT ![s] = d] /\ Callback(d)' /\ CallbackOK(d)'
  <2>1. CASE m \in c.found /\ ids[m] = None
    <3>1. PICK d : d = [at |-> "ids", start |-> c.start, found |-> {f \in DOMAIN files : MonthOf[f[1]] = m}, then |-> c.then]
      OBVIOUS
    <3>2. session' = [session EXCEPT ![s] =
            [at |-> "ids", start |-> c.start, found |-> LongTerm!OfMonth(m), then |-> c.then]]
      BY <2>1 DEF LongTerm!FillMonths
    <3>3. session' = [session EXCEPT ![s] = d]
      BY <3>1, <3>2 DEF LongTerm!OfMonth
    <3>4. /\ d = [at |-> d.at, start |-> d.start, found |-> d.found, then |-> d.then] /\ d.at = "ids"
          /\ d.start = c.start /\ d.found = {f \in DOMAIN files : MonthOf[f[1]] = m} /\ d.then = c.then
      BY <3>1
    <3>5. Callback(d)'
      BY <1>1, <1>2, <3>4 DEF Callback
    <3>6. CallbackOK(d)'
      BY <1>2, <3>4 DEF CallbackOK
    <3> QED
      BY <3>3, <3>5, <3>6
  <2>2. CASE ~(m \in c.found /\ ids[m] = None)
    <3>1. PICK d : d = [at |-> c.then, start |-> c.start]
      OBVIOUS
    <3>2. session' = [session EXCEPT ![s] = d]
      BY <2>2, <3>1 DEF LongTerm!FillMonths
    <3>3. Looked(m)'
      BY <1>1, <1>2, <1>3, <2>2 DEF Looked
    <3>4. Callback(d)' /\ CallbackOK(d)'
      BY <1>1, <3>1, <3>3 DEF Callback, CallbackOK
    <3> QED
      BY <3>2, <3>4
  <2> QED
    BY <2>1, <2>2
<1>8. ResultTypes' /\ \A x \in Session : CallbackOK(session[x])'
  BY <1>1, <1>2, <1>6, <1>7 DEF ResultInv, ResultTypes
<1>9. \A r \in LongTerm!Runs : ThreadOK(run[r])'
  BY <1>2, <1>5 DEF ThreadOK, ResultInv
<1> QED
  BY <1>4, <1>8, <1>9 DEF ResultInv

LEMMA IdsFilled ==
  ASSUME ResultInv, NEW s \in Session, LongTerm!FillIds(s)
  PROVE  ResultInv'
<1> DEFINE c == session[s]
           m == MonthOf[c.start]
<1>1. /\ c.at = "ids" /\ c.start \in StartTime /\ c.found \subseteq DOMAIN files /\ c.then \in {"load", "start"}
      /\ months # None /\ m \in Month
      /\ \A f \in DOMAIN files \ raced : MonthOf[f[1]] = m => f \in c.found
  BY MonthOfKey DEF LongTerm!FillIds, ResultInv, ResultTypes, Callback, LongTerm!Idle, CallbackOK
<1>2. /\ ids' = [ids EXCEPT ![m] = c.found] /\ session' = [session EXCEPT ![s] = [at |-> c.then, start |-> c.start]]
      /\ UNCHANGED <<ltpThread, run, numRuns, second, files, months, raced>>
  BY DEF LongTerm!FillIds
<1>3. c.found # None /\ ids'[m] = c.found /\ \A k \in Month : k # m => ids'[k] = ids[k]
  BY <1>1, <1>2, MonthOfKey DEF ResultInv, ResultTypes
<1>4. Settled' = Settled /\ \A f \in Settled : f \in DOMAIN files \ raced /\ MonthOf[f[1]] \in Month
  BY <1>2, MonthOfKey DEF Settled, Pending, ResultInv, ResultTypes
<1>5. CachesKnow'
  BY <1>1, <1>2, <1>3, <1>4 DEF CachesKnow, ResultInv
<1>6. \A k \in Month : Looked(k) => Looked(k)'
  BY <1>2, <1>3, <1>4 DEF Looked
<1>7. Looked(m)'
  BY <1>1, <1>2, <1>3 DEF Looked
<1>8. \A d : Callback(d) => Callback(d)' /\ (CallbackOK(d) => CallbackOK(d)')
  BY <1>2, <1>6, MonthOfKey DEF Callback, CallbackOK, LongTerm!Idle
<1>9. PICK d : d = [at |-> c.then, start |-> c.start]
  OBVIOUS
<1>10. Callback(d)' /\ CallbackOK(d)' /\ session' = [session EXCEPT ![s] = d]
  BY <1>1, <1>2, <1>7, <1>9 DEF Callback, CallbackOK
<1>11. ResultTypes' /\ \A x \in Session : CallbackOK(session[x])'
  BY <1>1, <1>2, <1>3, <1>8, <1>10 DEF ResultInv, ResultTypes
<1>12. \A r \in LongTerm!Runs : ThreadOK(run[r])'
  BY <1>2, <1>6, MonthOfKey DEF ThreadOK, ResultInv
<1> QED
  BY <1>5, <1>11, <1>12 DEF ResultInv

(* A thread stores its solution: its key is new, and pending from now on.   *)
LEMMA SolutionStored ==
  ASSUME ResultInv, NEW r \in LongTerm!Runs, LongTerm!Store(r)
  PROVE  ResultInv'
<1>1. run[r].at = "store" /\ ~run[r].memory /\ UNCHANGED <<ltpThread, numRuns, second, months, ids, session>>
  BY DEF LongTerm!Store, LongTerm!cacheVars
<1>2. PICK key : key = run[r].key
  OBVIOUS
<1>3. run[r] \in Thread(key) /\ key \in ResultKey /\ Looked(MonthOf[key[1]]) /\ ~(r > numRuns)
  BY <1>1, <1>2 DEF ResultInv, ResultTypes, ThreadOK
<1>4. CASE key \in DOMAIN files
  <2>1. PICK t : t = [run[r] EXCEPT !.at = "failed"]
    OBVIOUS
  <2>2. run' = [run EXCEPT ![r] = t] /\ UNCHANGED <<files, raced>>
    BY <1>2, <1>4, <2>1 DEF LongTerm!Store, LongTerm!AlreadyExists, LongTerm!Goes
  <2>3. t \in Thread(key) /\ t.at = "failed"
    BY <1>3, <2>1 DEF Thread
  <2>4. t.key = key /\ ThreadOK(t)
    BY <2>3 DEF Thread, ThreadOK
  <2>5. ltpThread' \in LongTerm!Runs \cup {None}
    BY <1>1 DEF ResultInv, ResultTypes
  <2> QED
    BY <1>1, <1>3, <2>2, <2>3, <2>4, <2>5, RunGoes
<1>5. CASE key \notin DOMAIN files
  <2>1. PICK t : t = [run[r] EXCEPT !.at = "stored"]
    OBVIOUS
  <2>2. /\ run' = [run EXCEPT ![r] = t] /\ files' = LongTerm!With(files, key, r)
        /\ raced' = IF LongTerm!Filling = {} THEN raced ELSE raced \cup {key}
    BY <1>2, <1>5, <2>1 DEF LongTerm!Store, LongTerm!AlreadyExists, LongTerm!Goes
  <2>3. t \in Thread(key) /\ t.at = "stored" /\ t.key = key /\ ~t.memory
    BY <1>1, <1>3, <2>1 DEF Thread
  <2>4. DOMAIN files' = DOMAIN files \cup {key} /\ \A f \in DOMAIN files : files'[f] = files[f]
    BY <1>5, <2>2 DEF LongTerm!With
  <2>5. files'[key] = r
    BY <2>2 DEF LongTerm!With
  <2>6. \A x \in LongTerm!Runs : run'[x] = IF x = r THEN t ELSE run[x]
    BY <2>2 DEF ResultInv, ResultTypes
  <2>7. \A f : Pending(f)' <=> Pending(f) \/ f = key
    BY <1>1, <2>3, <2>6 DEF Pending
  <2>8. Settled' = Settled
    <3>1. \A f : f \in Settled' => f \in Settled
      BY <2>2, <2>4, <2>7 DEF Settled
    <3>2. \A f : f \in Settled => f \in Settled'
      BY <1>5, <2>2, <2>4, <2>7 DEF Settled
    <3> QED
      BY <3>1, <3>2
  <2>9. CachesKnow'
    BY <1>1, <2>8 DEF CachesKnow, ResultInv
  <2>10. \A m : Looked(m)' <=> Looked(m)
    BY <1>1, <2>8 DEF Looked
  <2>11. \A s \in Session : Callback(session[s])'
    BY <1>1, <2>4 DEF Callback, ResultInv, ResultTypes
  <2>12. \A s \in Session : CallbackOK(session[s])'
    <3> SUFFICES ASSUME NEW s \in Session PROVE CallbackOK(session[s])'
      OBVIOUS
    <3>1. CallbackOK(session[s]) /\ session' = session /\ months' = months
      BY <1>1 DEF ResultInv
    <3>2. CASE LongTerm!Filling = {}
      <4>1. session[s].at \notin {"months", "ids"}
        BY <3>2 DEF LongTerm!Filling
      <4> QED
        BY <3>1, <4>1, <2>10 DEF CallbackOK
    <3>3. CASE LongTerm!Filling # {}
      <4>1. \A f \in (DOMAIN files \ raced)' : f \in DOMAIN files \ raced
        BY <2>2, <2>4, <3>3
      <4> QED
        BY <3>1, <4>1, <2>10 DEF CallbackOK
    <3> QED
      BY <3>2, <3>3
  <2>13. \A x \in LongTerm!Runs : ThreadOK(run[x])'
    BY <1>3, <2>3, <2>6, <2>10 DEF ThreadOK, ResultInv
  <2>14. \A x \in LongTerm!Runs :
           /\ run'[x] \in Thread(run'[x].key)
           /\ run'[x].at = "stored" => ~run'[x].memory /\ run'[x].key \in DOMAIN files'
           /\ x > numRuns' => run'[x].at = "done"
    BY <1>1, <1>3, <2>3, <2>4, <2>6 DEF ResultInv, ResultTypes
  <2>15. run' = [x \in LongTerm!Runs |-> run'[x]]
    BY <2>2 DEF ResultInv, ResultTypes
  <2>16. ResultTypes'
    BY <1>1, <1>3, <2>4, <2>5, <2>11, <2>14, <2>15 DEF ResultInv, ResultTypes
  <2> QED
    BY <2>9, <2>12, <2>13, <2>16 DEF ResultInv
<1> QED
  BY <1>4, <1>5

(* The caches learn of the solution, which settles it.  The cache of its    *)
(* month is filled, or there was nothing to fill it with.                   *)
LEMMA CachesTold ==
  ASSUME ResultInv, NEW r \in LongTerm!Runs, LongTerm!TellCaches(r)
  PROVE  ResultInv'
<1>1. run[r].at = "stored" /\ UNCHANGED <<ltpThread, numRuns, second, files, session>>
  BY DEF LongTerm!TellCaches, LongTerm!ToldAfter
<1>2. PICK key : key = run[r].key
  OBVIOUS
<1>3. PICK m : m = MonthOf[key[1]]
  OBVIOUS
<1>4. /\ run[r] \in Thread(key) /\ key \in ResultKey /\ Looked(m) /\ ~(r > numRuns) /\ ~run[r].memory
      /\ key \in DOMAIN files /\ m \in Month /\ months # None
  BY <1>1, <1>2, <1>3, MonthOfKey DEF ResultInv, ResultTypes, ThreadOK, Looked
<1>5. PICK t : t = [run[r] EXCEPT !.at = "done"]
  OBVIOUS
<1>6. PICK known : known = (IF ids[m] = None THEN {} ELSE ids[m]) \cup {key}
  OBVIOUS
<1>7. /\ run' = [run EXCEPT ![r] = t] /\ ids' = [ids EXCEPT ![m] = known] /\ months' = months \cup {m}
      /\ raced' = IF LongTerm!Filling = {} THEN raced ELSE raced \cup {key}
  BY <1>2, <1>3, <1>4, <1>5, <1>6 DEF LongTerm!TellCaches, LongTerm!Goes
<1>8. t \in Thread(key) /\ t.at = "done" /\ t.key = key
  BY <1>4, <1>5 DEF Thread
<1>9. \A x \in LongTerm!Runs : run'[x] = IF x = r THEN t ELSE run[x]
  BY <1>7 DEF ResultInv, ResultTypes
<1>10. \A k \in Month : ids'[k] = IF k = m THEN known ELSE ids[k]
  BY <1>7 DEF ResultInv, ResultTypes
<1>11. /\ known \subseteq DOMAIN files /\ known # None
       /\ months' \subseteq Month /\ months' # None
  BY <1>4, <1>6, <1>7, MonthOfKey DEF ResultInv, ResultTypes
<1>12. \A f : Pending(f) => Pending(f)' \/ f = key
  BY <1>2, <1>9 DEF Pending
<1>13. \A f \in Settled' : f \in Settled \/ f = key
  BY <1>1, <1>7, <1>12 DEF Settled
<1>14. \A f \in Settled : MonthOf[f[1]] = m => f \in known
  BY <1>4, <1>6 DEF Looked, ResultInv, CachesKnow
<1>15. \A f \in Settled : MonthOf[f[1]] \in Month /\ f \in DOMAIN files
  BY MonthOfKey DEF Settled, ResultInv, ResultTypes
<1>16. CachesKnow'
  <2>1. \A f \in Settled : MonthOf[f[1]] \in months'
    BY <1>4, <1>7 DEF ResultInv, CachesKnow
  <2>2. \A f \in Settled : ids'[MonthOf[f[1]]] # None => f \in ids'[MonthOf[f[1]]]
    BY <1>10, <1>14, <1>15 DEF ResultInv, CachesKnow
  <2>3. m \in months' /\ key \in ids'[m] /\ MonthOf[key[1]] = m
    BY <1>3, <1>4, <1>6, <1>7, <1>10
  <2> QED
    BY <1>13, <2>1, <2>2, <2>3 DEF CachesKnow
<1>17. \A k \in Month : Looked(k) => Looked(k)'
  BY <1>3, <1>10, <1>11, <1>13 DEF Looked
<1>18. \A f \in (DOMAIN files \ raced)' : f \in DOMAIN files \ raced
  BY <1>1, <1>7
<1>19. \A s \in Session : Callback(session[s])' /\ CallbackOK(session[s])'
  <2> SUFFICES ASSUME NEW s \in Session PROVE Callback(session[s])' /\ CallbackOK(session[s])'
    OBVIOUS
  <2>1. Callback(session[s]) /\ CallbackOK(session[s]) /\ session' = session /\ files' = files
    BY <1>1 DEF ResultInv, ResultTypes
  <2>2. Callback(session[s])'
    BY <2>1 DEF Callback
  <2>3. CallbackOK(session[s])'
    <3>1. session[s].at = "start" => session[s].start \in StartTime
      BY <2>1 DEF Callback, LongTerm!Idle
    <3>2. session[s].at = "start" => Looked(MonthOf[session[s].start])'
      BY <2>1, <3>1, <1>17, MonthOfKey DEF CallbackOK
    <3> QED
      BY <2>1, <3>2, <1>11, <1>18 DEF CallbackOK
  <2> QED
    BY <2>2, <2>3
<1>20. \A x \in LongTerm!Runs : ThreadOK(run[x])'
  <2>1. ThreadOK(t)'
    BY <1>8 DEF ThreadOK
  <2>2. \A d : ThreadOK(d) => ThreadOK(d)'
    BY <1>17, MonthOfKey DEF ThreadOK
  <2> QED
    BY <1>9, <2>1, <2>2 DEF ResultInv
<1>21. \A x \in LongTerm!Runs :
         /\ run'[x] \in Thread(run'[x].key)
         /\ run'[x].at = "stored" => ~run'[x].memory /\ run'[x].key \in DOMAIN files'
         /\ x > numRuns' => run'[x].at = "done"
  BY <1>1, <1>4, <1>8, <1>9 DEF ResultInv, ResultTypes
<1>22. run' = [x \in LongTerm!Runs |-> run'[x]] /\ ids' = [k \in Month |-> ids'[k]]
  BY <1>7 DEF ResultInv, ResultTypes
<1>23. \A k \in Month : ids'[k] = None \/ ids'[k] \subseteq DOMAIN files'
  BY <1>1, <1>10, <1>11 DEF ResultInv, ResultTypes
<1>24. ResultTypes'
  BY <1>1, <1>11, <1>19, <1>21, <1>22, <1>23 DEF ResultInv, ResultTypes
<1> QED
  BY <1>16, <1>19, <1>20, <1>24 DEF ResultInv

LEMMA ServiceRestarted ==
  ASSUME ResultInv, LongTerm!RestartService
  PROVE  ResultInv'
<1>1. /\ ltpThread' = None /\ run' = [r \in LongTerm!Runs |-> LongTerm!NoRun] /\ months' = None
      /\ ids' = [m \in Month |-> None] /\ session' = [s \in Session |-> LongTerm!Idle]
      /\ UNCHANGED <<numRuns, second, files>>
  BY DEF LongTerm!RestartService
<1>2. (\A m \in Month : ids'[m] = None) /\ (\A s \in Session : session'[s] = LongTerm!Idle)
  BY <1>1
<1>3. \A r \in LongTerm!Runs : run'[r] \in Thread(run'[r].key) /\ run'[r].at = "done"
  BY <1>1 DEF Thread, LongTerm!NoRun
<1>4. \A s \in Session : Callback(session[s])' /\ CallbackOK(session[s])'
  BY <1>2, PlainCallback DEF Callback, CallbackOK, LongTerm!Idle
<1>5. /\ ids' = [m \in Month |-> ids'[m]] /\ session' = [s \in Session |-> session'[s]]
      /\ run' = [r \in LongTerm!Runs |-> run'[r]]
  BY <1>1
<1>6. ResultTypes'
  BY <1>1, <1>2, <1>3, <1>4, <1>5 DEF ResultInv, ResultTypes
<1>7. CachesKnow'
  BY <1>1, <1>2, MonthOfKey DEF CachesKnow, Settled, ResultInv, ResultTypes
<1>8. \A r \in LongTerm!Runs : ThreadOK(run[r])'
  BY <1>3 DEF ThreadOK
<1> QED
  BY <1>4, <1>6, <1>7, <1>8 DEF ResultInv

LEMMA ResultsStep ==
  ASSUME ResultInv, LongTerm!Next
  PROVE  ResultInv'
<1>1. ASSUME NEW s \in Session, LongTerm!StartInFile(s) \/ LongTerm!StartInMemory(s) PROVE ResultInv'
  BY <1>1, RunStarts DEF LongTerm!StartInFile, LongTerm!StartInMemory
<1> QED
  BY <1>1, MonthsFilled, IdsFilled, CallbackSteps, ThreadSteps, SolutionStored, CachesTold, ServiceRestarted
  DEF LongTerm!Next

LEMMA ResultsStay ==
  ASSUME ResultInv, UNCHANGED varsLongTerm
  PROVE  ResultInv'
<1>1. /\ session' = session /\ run' = run /\ ltpThread' = ltpThread /\ numRuns' = numRuns
      /\ second' = second /\ files' = files /\ months' = months /\ ids' = ids /\ raced' = raced
  BY DEF varsLongTerm
<1>2. ThreadsKeep
  BY <1>1 DEF ThreadsKeep, ResultInv, ResultTypes
<1> QED
  BY <1>1, <1>2, QuietStep DEF ResultInv, ResultTypes

LEMMA ResultsKept ==
  /\ PartsInit => (IsLongTerm => ResultInv)
  /\ (IsLongTerm => ResultInv) /\ [PartsNext]_partsVars => (IsLongTerm => ResultInv)'
<1>1. PartsInit => (IsLongTerm => ResultInv)
  BY ResultsStart DEF PartsInit, IsLongTerm
<1>2. ASSUME IsLongTerm', IsLongTerm => ResultInv, [PartsNext]_partsVars PROVE ResultInv'
  <2>1. CASE IsLongTerm /\ LongTerm!Next
    BY <1>2, <2>1, ResultsStep
  <2>2. CASE UNCHANGED <<part, varsLongTerm>>
    BY <1>2, <2>2, ResultsStay DEF IsLongTerm
  <2> QED
    BY <1>2, <2>1, <2>2 DEF PartsNext, IsRules, IsLongTerm, IsMoves, IsPlanning, IsLots, partsVars
<1> QED
  BY <1>1, <1>2

(* A solution that is on the disk is listed, in every session and after     *)
(* every restart, from when the caches are told of it, unless a callback    *)
(* was filling one of them just when it was stored.                         *)
THEOREM StoredStaysListed == PartsSpec => []StoredIsListed
<1> DEFINE Inv == IsLongTerm => ResultInv
<1>1. Inv => StoredIsListed
  BY ResultsSafe DEF StoredIsListed
<1>2. (PartsInit => Inv) /\ (Inv /\ [PartsNext]_partsVars => Inv')
  BY ResultsKept
<1> QED
  BY <1>1, <1>2, PTL DEF PartsSpec

(* What is listed is stored: no cache has a solution without a file, nor    *)
(* does a callback that is filling one find it; ids are of the clock.       *)
THEOREM ListedIsStored == PartsSpec => [](IsLongTerm => LongTerm!ResultsTypeOK)
<1> DEFINE Inv == IsLongTerm => ResultInv
<1>1. Inv => (IsLongTerm => LongTerm!ResultsTypeOK)
  BY ResultsSafe
<1>2. (PartsInit => Inv) /\ (Inv /\ [PartsNext]_partsVars => Inv')
  BY ResultsKept
<1> QED
  BY <1>1, <1>2, PTL DEF PartsSpec

-----------------------------------------------------------------------------
(* The plannings of the lot search.  An equipment's orders have a route, in *)
(* which each occurs once, and the places where lots begin.                 *)
LEMMA MovesConstants ==
  /\ Moves!IsFiniteSet(Order) /\ None \notin Moves!Equipment
  /\ Starts \subseteq [Order -> Moves!Equipment \cup {None}]
  /\ Allowed \in [Order -> SUBSET Moves!Equipment]
  /\ Expiration \in Nat /\ Expiration # 0 /\ ExpirationAfterShuffle \in Nat /\ ExpirationAfterShuffle # 0
  /\ MaxLot \in Nat /\ Forced \subseteq Order
BY PartsAssumption DEF Moves!MovesAssumption

LEMMA MovesCardinality ==
  ASSUME NEW S
  PROVE  Moves!Cardinality(S) = Cardinality(S) /\ Moves!IsFiniteSet(S) = IsFiniteSet(S)
<1>1. Moves!Cardinality(S) = Cardinality(S)
  BY DEF Moves!Cardinality, Cardinality
<1>2. Moves!IsFiniteSet(S) = IsFiniteSet(S)
  BY DEF Moves!IsFiniteSet, IsFiniteSet
<1> QED
  BY <1>1, <1>2

(* A set of numbers with a bound has a largest one.                         *)
LEMMA LargestLemma ==
  ASSUME NEW n \in Nat, NEW S, S \subseteq 0 .. n, S # {}
  PROVE  Moves!Max(S) \in S /\ \A i \in S : i <= Moves!Max(S)
<1> DEFINE Rest == {n - i : i \in S}
<1>1. Rest \subseteq Nat /\ Rest # {}
  <2>1. \A i \in S : n - i \in Nat
    OBVIOUS
  <2>2. PICK i \in S : TRUE
    OBVIOUS
  <2>3. n - i \in Rest
    BY <2>2
  <2> QED
    BY <2>1, <2>3
<1> HIDE DEF Rest
<1>2. PICK m \in Rest : \A k \in Rest : m <= k
  BY <1>1, SmallestLemma
<1>3. PICK i \in S : m = n - i
  BY DEF Rest
<1>4. ASSUME NEW j \in S PROVE i >= j
  <2>1. n - j \in Rest
    BY DEF Rest
  <2>2. m <= n - j
    BY <1>2, <2>1
  <2>3. i \in 0 .. n /\ j \in 0 .. n
    OBVIOUS
  <2> QED
    BY <1>3, <2>2, <2>3
<1>5. Moves!Max(S) = CHOOSE x \in S : \A y \in S : x >= y
  BY DEF Moves!Max
<1>6. Moves!Max(S) \in S /\ \A y \in S : Moves!Max(S) >= y
  BY <1>4, <1>5, Zenon
<1> QED
  BY <1>6

LEMMA LargestIs ==
  ASSUME NEW n \in Nat, NEW S, S \subseteq 0 .. n, NEW x \in S, \A y \in S : y <= x
  PROVE  Moves!Max(S) = x
<1>1. PICK m : m = Moves!Max(S)
  OBVIOUS
<1>2. m \in S /\ x <= m
  BY <1>1, LargestLemma
<1>3. m \in 0 .. n /\ x \in 0 .. n /\ m <= x
  BY <1>2
<1>4. m = x
  BY <1>2, <1>3
<1> QED
  BY <1>1, <1>4

(* What Numbered makes of a route and the places where lots begin.          *)
IsNumbered(row, route, starts) ==
  /\ DOMAIN row = DOMAIN route
  /\ \A i \in DOMAIN row :
       /\ row[i] = [order |-> route[i], lot |-> row[i].lot, idx |-> row[i].idx]
       /\ row[i].lot \in Nat /\ row[i].idx \in Nat
       /\ i = 1 => row[i].idx = 1
       /\ i > 1 /\ starts[i] => row[i].idx = 1 /\ row[i].lot = row[i - 1].lot + 1
       /\ i > 1 /\ ~starts[i] => row[i].idx = row[i - 1].idx + 1 /\ row[i].lot = row[i - 1].lot

LEMMA NumberedLots ==
  ASSUME NEW n \in Nat, NEW route, DOMAIN route = 1 .. n, NEW starts
  PROVE  IsNumbered(Moves!Numbered(route, starts), route, starts)
<1> DEFINE Begun(i) == {j \in 2 .. i : starts[j]}
           First(i) == Moves!Max({1} \cup Begun(i))
           row == Moves!Numbered(route, starts)
<1>1. row = [i \in 1 .. n |-> [order |-> route[i], lot |-> Moves!Cardinality(Begun(i)), idx |-> i - First(i) + 1]]
  BY DEF Moves!Numbered
<1>2. \A i \in 1 .. n : IsFiniteSet(Begun(i)) /\ Cardinality(Begun(i)) \in Nat
  <2> TAKE i \in 1 .. n
  <2>1. IsFiniteSet(2 .. i)
    BY FS_Interval
  <2>2. IsFiniteSet(Begun(i))
    BY <2>1, FS_Subset
  <2> QED
    BY <2>2, FS_CardinalityType
<1>3. \A i \in 1 .. n : {1} \cup Begun(i) \subseteq 0 .. i /\ 1 \in {1} \cup Begun(i)
  OBVIOUS
<1>4. \A i \in 1 .. n : First(i) \in 1 .. i
  <2> TAKE i \in 1 .. n
  <2>1. First(i) \in {1} \cup Begun(i)
    BY <1>3, LargestLemma
  <2> QED
    BY <2>1
<1>5. First(1) = 1
  <2>1. Begun(1) = {}
    OBVIOUS
  <2>2. First(1) \in {1} \cup Begun(1)
    BY <1>3, LargestLemma
  <2> QED
    BY <2>1, <2>2
<1>6. ASSUME NEW i \in 2 .. n, starts[i]
      PROVE  First(i) = i /\ Cardinality(Begun(i)) = Cardinality(Begun(i - 1)) + 1
  <2>1. Begun(i) = Begun(i - 1) \cup {i} /\ i \notin Begun(i - 1)
    BY <1>6
  <2>2. Cardinality(Begun(i)) = Cardinality(Begun(i - 1)) + 1
    <3>1. i - 1 \in 1 .. n
      OBVIOUS
    <3> HIDE DEF Begun
    <3> QED
      BY <2>1, <3>1, <1>2, OneMoreLemma
  <2>3. {1} \cup Begun(i) \subseteq 0 .. i /\ i \in {1} \cup Begun(i) /\ \A y \in {1} \cup Begun(i) : y <= i
    BY <1>6
  <2>4. First(i) = i
    <3> HIDE DEF Begun
    <3> QED
      BY <2>3, LargestIs
  <2> QED
    BY <2>2, <2>4
<1>7. ASSUME NEW i \in 2 .. n, ~starts[i]
      PROVE  Begun(i) = Begun(i - 1)
  BY <1>7
<1>8. DOMAIN row = 1 .. n
      /\ \A i \in 1 .. n : row[i] = [order |-> route[i], lot |-> Cardinality(Begun(i)), idx |-> i - First(i) + 1]
  <2>1. \A i \in 1 .. n : Moves!Cardinality(Begun(i)) = Cardinality(Begun(i))
    BY MovesCardinality
  <2> HIDE DEF First, Begun
  <2> QED
    BY <1>1, <2>1
<1> SUFFICES ASSUME NEW i \in 1 .. n
             PROVE  /\ row[i] = [order |-> route[i], lot |-> row[i].lot, idx |-> row[i].idx]
                    /\ row[i].lot \in Nat /\ row[i].idx \in Nat
                    /\ i = 1 => row[i].idx = 1
                    /\ i > 1 /\ starts[i] => row[i].idx = 1 /\ row[i].lot = row[i - 1].lot + 1
                    /\ i > 1 /\ ~starts[i] => row[i].idx = row[i - 1].idx + 1 /\ row[i].lot = row[i - 1].lot
  BY <1>8 DEF IsNumbered
<1> HIDE DEF row, First, Begun
<1>9. row[i].lot \in Nat /\ row[i].idx \in Nat /\ (i = 1 => row[i].idx = 1)
      /\ row[i] = [order |-> route[i], lot |-> row[i].lot, idx |-> row[i].idx]
  <2>1. row[i] = [order |-> route[i], lot |-> Cardinality(Begun(i)), idx |-> i - First(i) + 1]
    BY <1>8
  <2>2. row[i].lot = Cardinality(Begun(i)) /\ row[i].idx = i - First(i) + 1
    BY <2>1
  <2>3. row[i].lot \in Nat
    BY <2>2, <1>2
  <2>4. row[i].idx \in Nat
    BY <2>2, <1>4
  <2>5. i = 1 => row[i].idx = 1
    BY <2>2, <1>5
  <2>6. row[i] = [order |-> route[i], lot |-> row[i].lot, idx |-> row[i].idx]
    BY <2>1, <2>2, Zenon
  <2> QED
    BY <2>3, <2>4, <2>5, <2>6
<1>10. i > 1 /\ starts[i] => row[i].idx = 1 /\ row[i].lot = row[i - 1].lot + 1
  <2> SUFFICES ASSUME i > 1, starts[i] PROVE row[i].idx = 1 /\ row[i].lot = row[i - 1].lot + 1
    OBVIOUS
  <2>1. i \in 2 .. n /\ i - 1 \in 1 .. n
    OBVIOUS
  <2> QED
    BY <2>1, <1>6, <1>8
<1>11. i > 1 /\ ~starts[i] => row[i].idx = row[i - 1].idx + 1 /\ row[i].lot = row[i - 1].lot
  <2> SUFFICES ASSUME i > 1, ~starts[i] PROVE row[i].idx = row[i - 1].idx + 1 /\ row[i].lot = row[i - 1].lot
    OBVIOUS
  <2>1. i \in 2 .. n /\ i - 1 \in 1 .. n
    OBVIOUS
  <2>2. First(i) = First(i - 1) /\ Cardinality(Begun(i)) = Cardinality(Begun(i - 1))
    BY <2>1, <1>7 DEF First
  <2>3. First(i - 1) \in Nat
    BY <2>1, <1>4
  <2> QED
    BY <2>1, <2>2, <2>3, <1>8
<1> QED
  BY <1>9, <1>10, <1>11

(* The lots of an equipment as they should be.                              *)
Entry == [order : Order, lot : Nat, idx : Nat]
InLots(row) ==
  \A i \in DOMAIN row :
    IF i = 1 \/ Moves!Changes(row, i)
    THEN row[i].idx = 1 /\ (i > 1 => row[i].lot = row[i - 1].lot + 1)
    ELSE row[i].idx = row[i - 1].idx + 1 /\ <<row[i - 1].order, row[i].order>> \notin Prohibitive
OnceEach(row) == \A i, j \in DOMAIN row : row[i].order = row[j].order => i = j
RowOK(row) == row \in Seq(Entry) /\ OnceEach(row) /\ InLots(row)

LEMMA RowOfRoute ==
  ASSUME NEW n \in Nat, NEW route, DOMAIN route = 1 .. n, \A i \in 1 .. n : route[i] \in Order,
         \A i, j \in 1 .. n : route[i] = route[j] => i = j,
         NEW starts, \A i \in 2 .. n : ~starts[i] => <<route[i - 1], route[i]>> \notin Prohibitive,
         NEW row, row = Moves!Numbered(route, starts)
  PROVE  RowOK(row) /\ Moves!OrdersOf(row) = {route[i] : i \in 1 .. n}
<1>1. IsNumbered(row, route, starts)
  BY NumberedLots
<1>2. DOMAIN row = 1 .. n /\ \A i \in 1 .. n : row[i] \in Entry /\ row[i].order = route[i]
  <2>1. DOMAIN row = 1 .. n
    BY <1>1 DEF IsNumbered
  <2>2. ASSUME NEW i \in 1 .. n PROVE row[i] \in Entry /\ row[i].order = route[i]
    <3>1. PICK lot : lot = row[i].lot
      OBVIOUS
    <3>2. PICK idx : idx = row[i].idx
      OBVIOUS
    <3>3. row[i] = [order |-> route[i], lot |-> lot, idx |-> idx] /\ lot \in Nat /\ idx \in Nat
      BY <1>1, <2>1, <3>1, <3>2, Zenon DEF IsNumbered
    <3> QED
      BY <3>3 DEF Entry
  <2> QED
    BY <2>1, <2>2
<1>3. row \in Seq(Entry)
  <2>1. row = [i \in 1 .. n |-> row[i]]
    BY DEF Moves!Numbered
  <2>2. row \in [1 .. n -> Entry]
    BY <1>2, <2>1
  <2> QED
    BY <2>2, SeqDef
<1>4. OnceEach(row)
  BY <1>2 DEF OnceEach
<1>5. ASSUME NEW i \in 2 .. n
      PROVE  /\ row[i].lot \in Nat /\ row[i - 1].lot \in Nat
             /\ starts[i] => row[i].idx = 1 /\ row[i].lot = row[i - 1].lot + 1
             /\ ~starts[i] => row[i].idx = row[i - 1].idx + 1 /\ row[i].lot = row[i - 1].lot
  <2>1. i \in DOMAIN row /\ i - 1 \in DOMAIN row /\ i > 1
    BY <1>2
  <2> QED
    BY <1>1, <2>1, Zenon DEF IsNumbered
<1>6. \A i \in 2 .. n : Moves!Changes(row, i) <=> starts[i]
  BY <1>5 DEF Moves!Changes
<1>7. n > 0 => row[1].idx = 1
  BY <1>1 DEF IsNumbered
<1>8. InLots(row)
  <2> SUFFICES ASSUME NEW i \in 1 .. n
               PROVE  IF i = 1 \/ Moves!Changes(row, i)
                      THEN row[i].idx = 1 /\ (i > 1 => row[i].lot = row[i - 1].lot + 1)
                      ELSE row[i].idx = row[i - 1].idx + 1 /\ <<row[i - 1].order, row[i].order>> \notin Prohibitive
    BY <1>2 DEF InLots
  <2>1. CASE i = 1
    BY <2>1, <1>7
  <2>2. CASE i \in 2 .. n
    <3>1. row[i - 1].order = route[i - 1] /\ row[i].order = route[i]
      BY <2>2, <1>2
    <3>2. CASE starts[i]
      <4>1. row[i].idx = 1 /\ row[i].lot = row[i - 1].lot + 1
        BY <2>2, <3>2, <1>5
      <4> QED
        BY <2>2, <3>2, <4>1, <1>6
    <3>3. CASE ~starts[i]
      <4>1. row[i].idx = row[i - 1].idx + 1 /\ <<route[i - 1], route[i]>> \notin Prohibitive
        BY <2>2, <3>3, <1>5
      <4> QED
        BY <2>2, <3>1, <3>3, <4>1, <1>6
    <3> QED
      BY <3>2, <3>3
  <2> QED
    BY <2>1, <2>2
<1>9. Moves!OrdersOf(row) = {route[i] : i \in 1 .. n}
  BY <1>2 DEF Moves!OrdersOf
<1> QED
  BY <1>3, <1>4, <1>8, <1>9 DEF RowOK

LEMMA EmptyRow == RowOK(<<>>) /\ Moves!OrdersOf(<<>>) = {}
<1>1. DOMAIN <<>> = {} /\ <<>> \in Seq(Entry)
  OBVIOUS
<1> QED
  BY <1>1 DEF RowOK, OnceEach, InLots, Moves!OrdersOf

(* The solver may return any route; the transitions decide where lots end.  *)
LEMMA SequencedRow ==
  ASSUME NEW orders, orders \subseteq Order, NEW row \in Moves!Sequences[orders]
  PROVE  RowOK(row) /\ Moves!OrdersOf(row) \subseteq orders
<1>1. PICK route \in Moves!SetToSeqs(orders) : row = Moves!Sequenced(route)
  BY DEF Moves!Sequences
<1>2. PICK n : n = Cardinality(orders)
  OBVIOUS
<1>3. n \in Nat
  <2>1. IsFiniteSet(Order)
    BY MovesConstants, MovesCardinality
  <2>2. IsFiniteSet(orders)
    BY <2>1, FS_Subset
  <2> QED
    BY <1>2, <2>2, FS_CardinalityType
<1>4. route \in [1 .. n -> orders] /\ \A i, j \in 1 .. n : i # j => route[i] # route[j]
  BY <1>2, MovesCardinality DEF Moves!SetToSeqs
<1>5. \E starts : row = Moves!Numbered(route, starts)
                 /\ \A i \in 2 .. n : ~starts[i] => <<route[i - 1], route[i]>> \notin Prohibitive
  <2> DEFINE apart == [i \in DOMAIN route |-> i > 1 /\ <<route[i - 1], route[i]>> \in Prohibitive]
  <2>1. \E weight : row = Moves!Numbered(route, [i \in DOMAIN route |-> apart[i] \/ weight[i] = WeightOf[route[i]]])
    BY <1>1, Zenon DEF Moves!Sequenced
  <2>2. PICK weight : row = Moves!Numbered(route, [i \in DOMAIN route |-> apart[i] \/ weight[i] = WeightOf[route[i]]])
    BY <2>1
  <2>3. PICK starts : starts = [i \in DOMAIN route |-> apart[i] \/ weight[i] = WeightOf[route[i]]]
    OBVIOUS
  <2>4. DOMAIN route = 1 .. n
    BY <1>4
  <2>5. ASSUME NEW i \in 2 .. n, ~starts[i] PROVE <<route[i - 1], route[i]>> \notin Prohibitive
    <3>1. i \in DOMAIN route /\ i > 1
      BY <2>4
    <3>2. starts[i] = (apart[i] \/ weight[i] = WeightOf[route[i]])
      BY <2>3, <3>1, Zenon
    <3>3. apart[i] = (i > 1 /\ <<route[i - 1], route[i]>> \in Prohibitive)
      BY <3>1, Zenon
    <3> QED
      BY <2>5, <3>1, <3>2, <3>3, Zenon
  <2> QED
    BY <2>2, <2>3, <2>5
<1>6. /\ DOMAIN route = 1 .. n /\ \A i \in 1 .. n : route[i] \in orders
      /\ \A i, j \in 1 .. n : route[i] = route[j] => i = j
  BY <1>4
<1>7. RowOK(row) /\ Moves!OrdersOf(row) = {route[i] : i \in 1 .. n}
  BY <1>3, <1>5, <1>6, RowOfRoute
<1> QED
  BY <1>6, <1>7

LEMMA PlannedAnew ==
  ASSUME NEW assigned, DOMAIN assigned \subseteq Order, NEW r \in Moves!Plannings(assigned)
  PROVE  /\ r = [e \in Moves!Equipment |-> r[e]]
         /\ \A e \in Moves!Equipment :
              RowOK(r[e]) /\ \A o \in Moves!OrdersOf(r[e]) : o \in DOMAIN assigned /\ assigned[o] = e
<1>1. /\ r = [e \in Moves!Equipment |-> r[e]]
      /\ \A e \in Moves!Equipment : r[e] \in Moves!Sequences[Moves!At(assigned, e)]
  BY DEF Moves!Plannings
<1>2. ASSUME NEW e \in Moves!Equipment
      PROVE  RowOK(r[e]) /\ \A o \in Moves!OrdersOf(r[e]) : o \in DOMAIN assigned /\ assigned[o] = e
  <2>1. Moves!At(assigned, e) = {o \in DOMAIN assigned : assigned[o] = e}
    BY DEF Moves!At
  <2>2. Moves!At(assigned, e) \subseteq Order
    BY <2>1
  <2>3. RowOK(r[e]) /\ Moves!OrdersOf(r[e]) \subseteq Moves!At(assigned, e)
    BY <1>1, <2>2, SequencedRow
  <2> QED
    BY <2>1, <2>3
<1> QED
  BY <1>1, <1>2

(* An order inserted into the route of an equipment, or taken out of it.    *)
LEMMA InsertedAt ==
  ASSUME NEW s \in Seq(Order), NEW o \in Order, NEW place \in 1 .. Len(s) + 1
  PROVE  /\ Moves!InsertAt(s, place, o) \in Seq(Order) /\ Len(Moves!InsertAt(s, place, o)) = Len(s) + 1
         /\ \A i \in 1 .. Len(s) + 1 :
              Moves!InsertAt(s, place, o)[i] = IF i < place THEN s[i] ELSE IF i = place THEN o ELSE s[i - 1]
<1> DEFINE before == SubSeq(s, 1, place - 1)
           after == SubSeq(s, place, Len(s))
<1>1. /\ before \in Seq(Order) /\ Len(before) = place - 1
      /\ \A i \in 1 .. place - 1 : before[i] = s[i]
  BY SubSeqProperties
<1>2. /\ after \in Seq(Order) /\ Len(after) = Len(s) - place + 1
      /\ \A i \in 1 .. Len(s) - place + 1 : after[i] = s[place + i - 1]
  BY SubSeqProperties
<1>3. <<o>> \in Seq(Order) /\ Len(<<o>>) = 1 /\ <<o>>[1] = o
  OBVIOUS
<1>4. Moves!InsertAt(s, place, o) = before \o <<o>> \o after
  BY DEF Moves!InsertAt
<1> HIDE DEF before, after
<1>5. PICK head : head = before \o <<o>>
  OBVIOUS
<1>6. /\ head \in Seq(Order) /\ Len(head) = place
      /\ \A i \in 1 .. place : head[i] = IF i < place THEN s[i] ELSE o
  BY <1>1, <1>3, <1>5, ConcatProperties
<1>7. /\ head \o after \in Seq(Order) /\ Len(head \o after) = Len(s) + 1
      /\ \A i \in 1 .. Len(s) + 1 : (head \o after)[i] = IF i <= place THEN head[i] ELSE after[i - place]
  <2>1. /\ head \o after \in Seq(Order) /\ Len(head \o after) = Len(head) + Len(after)
        /\ \A i \in 1 .. Len(head) + Len(after) :
            (head \o after)[i] = IF i <= Len(head) THEN head[i] ELSE after[i - Len(head)]
    BY <1>2, <1>6, ConcatProperties, Zenon
  <2>2. Len(head) + Len(after) = Len(s) + 1
    BY <1>2, <1>6
  <2> QED
    BY <2>1, <2>2, <1>6
<1>8. \A i \in 1 .. Len(s) + 1 : i > place => after[i - place] = s[i - 1]
  BY <1>2
<1>9. \A i \in 1 .. Len(s) + 1 :
        (head \o after)[i] = IF i < place THEN s[i] ELSE IF i = place THEN o ELSE s[i - 1]
  BY <1>6, <1>7, <1>8
<1> QED
  BY <1>4, <1>5, <1>7, <1>9

LEMMA RemovedAt ==
  ASSUME NEW T, NEW s \in Seq(T), NEW place \in 1 .. Len(s)
  PROVE  /\ Moves!RemoveAt(s, place) \in Seq(T) /\ Len(Moves!RemoveAt(s, place)) = Len(s) - 1
         /\ \A i \in 1 .. Len(s) - 1 :
              Moves!RemoveAt(s, place)[i] = IF i < place THEN s[i] ELSE s[i + 1]
<1> DEFINE before == SubSeq(s, 1, place - 1)
           after == SubSeq(s, place + 1, Len(s))
<1>1. /\ before \in Seq(T) /\ Len(before) = place - 1
      /\ \A i \in 1 .. place - 1 : before[i] = s[i]
  BY SubSeqProperties
<1>2. /\ after \in Seq(T) /\ Len(after) = Len(s) - place
      /\ \A i \in 1 .. Len(s) - place : after[i] = s[place + i]
  <2>1. \A i \in place + 1 .. Len(s) : s[i] \in T
    OBVIOUS
  <2> QED
    BY <2>1, SubSeqProperties
<1>3. Moves!RemoveAt(s, place) = before \o after
  BY DEF Moves!RemoveAt
<1> HIDE DEF before, after
<1>4. /\ before \o after \in Seq(T) /\ Len(before \o after) = Len(s) - 1
      /\ \A i \in 1 .. Len(s) - 1 : (before \o after)[i] = IF i <= place - 1 THEN before[i] ELSE after[i - place + 1]
  <2>1. /\ before \o after \in Seq(T) /\ Len(before \o after) = Len(before) + Len(after)
        /\ \A i \in 1 .. Len(before) + Len(after) :
            (before \o after)[i] = IF i <= Len(before) THEN before[i] ELSE after[i - Len(before)]
    BY <1>1, <1>2, ConcatProperties, Zenon
  <2>2. Len(before) + Len(after) = Len(s) - 1
    BY <1>1, <1>2
  <2>3. \A i \in 1 .. Len(s) - 1 : i - (place - 1) = i - place + 1
    OBVIOUS
  <2> QED
    BY <2>1, <2>2, <2>3, <1>1
<1>5. \A i \in 1 .. Len(s) - 1 : i >= place => after[i - place + 1] = s[i + 1]
  BY <1>2
<1>6. \A i \in 1 .. Len(s) - 1 : (before \o after)[i] = IF i < place THEN s[i] ELSE s[i + 1]
  BY <1>1, <1>4, <1>5
<1> QED
  BY <1>3, <1>4, <1>6

LEMMA RouteOfRow ==
  ASSUME NEW row, RowOK(row)
  PROVE  /\ Moves!Route(row) \in Seq(Order) /\ Len(Moves!Route(row)) = Len(row)
         /\ Len(row) \in Nat /\ DOMAIN row = 1 .. Len(row)
         /\ \A i \in 1 .. Len(row) : Moves!Route(row)[i] = row[i].order /\ row[i].order \in Order
         /\ Moves!OrdersOf(row) \subseteq Order
<1>1. Len(row) \in Nat /\ DOMAIN row = 1 .. Len(row) /\ \A i \in 1 .. Len(row) : row[i] \in Entry
  BY DEF RowOK
<1>2. \A i \in 1 .. Len(row) : row[i].order \in Order
  BY <1>1 DEF Entry
<1>3. Moves!Route(row) = [i \in 1 .. Len(row) |-> row[i].order]
  BY <1>1 DEF Moves!Route
<1>4. Moves!Route(row) \in [1 .. Len(row) -> Order]
  BY <1>2, <1>3
<1>5. Moves!Route(row) \in Seq(Order)
  BY <1>1, <1>4, SeqDef
<1>6. Len(Moves!Route(row)) = Len(row)
  BY <1>1, <1>4, <1>5
<1>7. Moves!OrdersOf(row) \subseteq Order
  BY <1>1, <1>2 DEF Moves!OrdersOf
<1> QED
  BY <1>1, <1>2, <1>3, <1>5, <1>6, <1>7

LEMMA InsertedRow ==
  ASSUME NEW row, RowOK(row), NEW o \in Order, o \notin Moves!OrdersOf(row), NEW place \in 1 .. Len(row) + 1
  PROVE  /\ RowOK(Moves!Inserted(row, o, place))
         /\ Moves!OrdersOf(Moves!Inserted(row, o, place)) \subseteq Moves!OrdersOf(row) \cup {o}
<1>1. CASE row = <<>>
  <2>1. PICK new : new = <<[order |-> o, lot |-> 1, idx |-> 1]>>
    OBVIOUS
  <2>2. Moves!Inserted(row, o, place) = new
    BY <1>1, <2>1 DEF Moves!Inserted
  <2>3. DOMAIN new = {1} /\ new[1].order = o /\ new[1].idx = 1 /\ new[1] \in Entry
    BY <2>1 DEF Entry
  <2>4. new \in Seq(Entry)
    BY <2>1, <2>3
  <2>5. RowOK(new) /\ Moves!OrdersOf(new) = {o}
    BY <2>3, <2>4 DEF RowOK, OnceEach, InLots, Moves!OrdersOf
  <2> QED
    BY <2>2, <2>5
<1>2. CASE row # <<>>
  <2>1. PICK n : n = Len(row)
    OBVIOUS
  <2>2. PICK old : old = Moves!Route(row)
    OBVIOUS
  <2>3. PICK route : route = Moves!InsertAt(old, place, o)
    OBVIOUS
  <2> DEFINE Begins(i) == IF i \in {place, place + 1} THEN i > 1 /\ <<route[i - 1], route[i]>> \in Prohibitive
                          ELSE Moves!Changes(row, IF i < place THEN i ELSE i - 1)
  <2>4. PICK starts : starts = [i \in DOMAIN route |-> Begins(i)]
    OBVIOUS
  <2>5. Moves!Inserted(row, o, place) = Moves!Numbered(route, starts)
    BY <1>2, <2>2, <2>3, <2>4, Zenon DEF Moves!Inserted
  <2> HIDE DEF Begins
  <2>6. /\ old \in Seq(Order) /\ Len(old) = n /\ n \in Nat /\ DOMAIN row = 1 .. n
        /\ \A i \in 1 .. n : old[i] = row[i].order /\ row[i].order \in Order /\ row[i].order # o
    BY <2>1, <2>2, RouteOfRow DEF Moves!OrdersOf
  <2>7. /\ route \in Seq(Order) /\ Len(route) = n + 1
        /\ \A i \in 1 .. n + 1 : route[i] = IF i < place THEN old[i] ELSE IF i = place THEN o ELSE old[i - 1]
    <3>1. place \in 1 .. Len(old) + 1
      BY <2>1, <2>6
    <3>2. /\ route \in Seq(Order) /\ Len(route) = Len(old) + 1
          /\ \A i \in 1 .. Len(old) + 1 : route[i] = IF i < place THEN old[i] ELSE IF i = place THEN o ELSE old[i - 1]
      <4>1. old \in Seq(Order) /\ o \in Order
        BY <2>6
      <4>2. Moves!InsertAt(old, place, o) \in Seq(Order) /\ Len(Moves!InsertAt(old, place, o)) = Len(old) + 1
        BY <3>1, <4>1, InsertedAt
      <4>3. \A i \in 1 .. Len(old) + 1 :
              Moves!InsertAt(old, place, o)[i] = IF i < place THEN old[i] ELSE IF i = place THEN o ELSE old[i - 1]
        BY <3>1, <4>1, InsertedAt
      <4> QED
        BY <2>3, <4>2, <4>3
    <3> QED
      BY <2>6, <3>2
  <2>8. DOMAIN route = 1 .. n + 1 /\ n + 1 \in Nat /\ \A i \in 1 .. n + 1 : route[i] \in Order
    BY <2>6, <2>7
  <2>9. ASSUME NEW i \in 1 .. n + 1, NEW j \in 1 .. n + 1, route[i] = route[j] PROVE i = j
    <3>1. \A k, l \in 1 .. n : old[k] = old[l] => k = l
      BY <2>6 DEF RowOK, OnceEach
    <3>2. \A k \in 1 .. n : old[k] # o
      BY <2>6
    <3>3. place \in 1 .. n + 1
      BY <2>1
    <3> QED
      BY <2>6, <2>7, <2>9, <3>1, <3>2, <3>3
  <2>10. ASSUME NEW i \in 2 .. n + 1, ~starts[i] PROVE <<route[i - 1], route[i]>> \notin Prohibitive
    <3>1. ~Begins(i)
      <4>1. i \in DOMAIN route
        BY <2>8
      <4> QED
        BY <2>4, <2>10, <4>1, Zenon
    <3>2. CASE i \in {place, place + 1}
      BY <3>1, <3>2 DEF Begins
    <3>3. ASSUME NEW k \in 2 .. n, ~Moves!Changes(row, k), route[i - 1] = old[k - 1], route[i] = old[k]
          PROVE  <<route[i - 1], route[i]>> \notin Prohibitive
      BY <3>3, <2>6 DEF RowOK, InLots
    <3>4. CASE i < place
      <4>1. i \in 2 .. n /\ route[i - 1] = old[i - 1] /\ route[i] = old[i]
        BY <3>4, <2>1, <2>6, <2>7
      <4>2. i \notin {place, place + 1}
        BY <3>4
      <4>3. ~Moves!Changes(row, i)
        BY <3>1, <3>4, <4>2 DEF Begins
      <4> QED
        BY <3>3, <4>1, <4>3
    <3>5. CASE i > place + 1
      <4>1. i - 1 \in 2 .. n /\ route[i - 1] = old[(i - 1) - 1] /\ route[i] = old[i - 1]
        BY <3>5, <2>1, <2>6, <2>7
      <4>2. i \notin {place, place + 1} /\ ~(i < place)
        BY <3>5
      <4>3. ~Moves!Changes(row, i - 1)
        BY <3>1, <4>2 DEF Begins
      <4> QED
        BY <3>3, <4>1, <4>3
    <3> QED
      BY <3>2, <3>4, <3>5
  <2>11. RowOK(Moves!Numbered(route, starts))
         /\ Moves!OrdersOf(Moves!Numbered(route, starts)) = {route[i] : i \in 1 .. n + 1}
    BY <2>8, <2>9, <2>10, RowOfRoute
  <2>12. \A i \in 1 .. n + 1 : route[i] = o \/ route[i] \in Moves!OrdersOf(row)
    <3>1. \A k \in 1 .. n : row[k].order \in Moves!OrdersOf(row)
      BY <2>6 DEF Moves!OrdersOf
    <3>2. place \in 1 .. n + 1 /\ route[place] = o
      BY <2>1, <2>6, <2>7
    <3> SUFFICES ASSUME NEW i \in 1 .. n + 1, i # place PROVE \E k \in 1 .. n : route[i] = row[k].order
      BY <3>1, <3>2
    <3>3. CASE i < place
      BY <3>3, <2>1, <2>6, <2>7
    <3>4. CASE i > place
      <4>1. i - 1 \in 1 .. n /\ route[i] = old[i - 1]
        BY <3>4, <2>6, <2>7, <2>1
      <4> QED
        BY <4>1, <2>6
    <3> QED
      BY <3>3, <3>4
  <2> QED
    BY <2>5, <2>11, <2>12
<1> QED
  BY <1>1, <1>2

LEMMA RemovedRow ==
  ASSUME NEW row, RowOK(row), NEW o \in Moves!OrdersOf(row)
  PROVE  /\ RowOK(Moves!Removed(row, o))
         /\ Moves!OrdersOf(Moves!Removed(row, o)) \subseteq Moves!OrdersOf(row) \ {o}
<1>1. PICK n : n = Len(row)
  OBVIOUS
<1>2. PICK place : place = CHOOSE i \in DOMAIN row : row[i].order = o
  OBVIOUS
<1>3. PICK old : old = Moves!Route(row)
  OBVIOUS
<1>4. PICK route : route = Moves!RemoveAt(old, place)
  OBVIOUS
<1> DEFINE Begins(i) == IF i = place THEN i > 1 /\ <<route[i - 1], route[i]>> \in Prohibitive
                        ELSE Moves!Changes(row, IF i < place THEN i ELSE i + 1)
<1>5. PICK starts : starts = [i \in DOMAIN route |-> Begins(i)]
  OBVIOUS
<1>6. Moves!Removed(row, o) = Moves!Numbered(route, starts)
  BY <1>2, <1>3, <1>4, <1>5, Zenon DEF Moves!Removed
<1> HIDE DEF Begins
<1>7. /\ old \in Seq(Order) /\ Len(old) = n /\ n \in Nat /\ DOMAIN row = 1 .. n
      /\ \A i \in 1 .. n : old[i] = row[i].order /\ row[i].order \in Order
  BY <1>1, <1>3, RouteOfRow
<1>8. place \in 1 .. n /\ row[place].order = o
  <2>1. \E i \in DOMAIN row : row[i].order = o
    BY DEF Moves!OrdersOf
  <2> QED
    BY <1>2, <1>7, <2>1
<1>9. /\ route \in Seq(Order) /\ Len(route) = n - 1
      /\ \A i \in 1 .. n - 1 : route[i] = IF i < place THEN old[i] ELSE old[i + 1]
  BY <1>4, <1>7, <1>8, RemovedAt
<1>10. DOMAIN route = 1 .. n - 1 /\ n - 1 \in Nat /\ \A i \in 1 .. n - 1 : route[i] \in Order
  BY <1>7, <1>8, <1>9
<1>11. ASSUME NEW i \in 1 .. n - 1 PROVE \E k \in 1 .. n : k # place /\ route[i] = row[k].order
  <2>1. CASE i < place
    <3>1. i \in 1 .. n /\ i # place /\ route[i] = old[i]
      BY <2>1, <1>7, <1>8, <1>9
    <3> QED
      BY <3>1, <1>7
  <2>2. CASE i >= place
    <3>1. i + 1 \in 1 .. n /\ i + 1 # place /\ route[i] = old[i + 1]
      BY <2>2, <1>7, <1>8, <1>9
    <3> QED
      BY <3>1, <1>7
  <2> QED
    BY <1>8, <2>1, <2>2
<1>12. ASSUME NEW i \in 1 .. n - 1, NEW j \in 1 .. n - 1, route[i] = route[j] PROVE i = j
  <2>1. \A k, l \in 1 .. n : old[k] = old[l] => k = l
    BY <1>7 DEF RowOK, OnceEach
  <2> QED
    BY <1>7, <1>8, <1>9, <1>12, <2>1
<1>13. ASSUME NEW i \in 2 .. n - 1, ~starts[i] PROVE <<route[i - 1], route[i]>> \notin Prohibitive
  <2>1. ~Begins(i)
    <3>1. i \in DOMAIN route
      BY <1>10
    <3> QED
      BY <1>5, <1>13, <3>1, Zenon
  <2>2. CASE i = place
    BY <2>1, <2>2 DEF Begins
  <2>3. ASSUME NEW k \in 2 .. n, ~Moves!Changes(row, k), route[i - 1] = old[k - 1], route[i] = old[k]
        PROVE  <<route[i - 1], route[i]>> \notin Prohibitive
    <3>1. k \in DOMAIN row /\ k # 1 /\ k - 1 \in 1 .. n
      BY <1>7
    <3>2. <<row[k - 1].order, row[k].order>> \notin Prohibitive
      BY <2>3, <3>1 DEF RowOK, InLots
    <3> QED
      BY <2>3, <3>1, <3>2, <1>7
  <2>4. CASE i < place
    <3>1. i \in 2 .. n /\ route[i - 1] = old[i - 1] /\ route[i] = old[i]
      BY <2>4, <1>7, <1>8, <1>9
    <3>2. ~Moves!Changes(row, i)
      BY <2>1, <2>4, <1>8 DEF Begins
    <3> QED
      BY <2>3, <3>1, <3>2
  <2>5. CASE i > place
    <3>1. i + 1 \in 2 .. n /\ route[i - 1] = old[(i + 1) - 1] /\ route[i] = old[i + 1]
      BY <2>5, <1>7, <1>8, <1>9
    <3>2. i # place /\ ~(i < place)
      BY <2>5, <1>8
    <3>3. ~Moves!Changes(row, i + 1)
      BY <2>1, <3>2 DEF Begins
    <3> QED
      BY <2>3, <3>1, <3>3
  <2> QED
    BY <1>8, <2>2, <2>4, <2>5
<1>14. RowOK(Moves!Numbered(route, starts))
       /\ Moves!OrdersOf(Moves!Numbered(route, starts)) = {route[i] : i \in 1 .. n - 1}
  <2>1. PICK l : l = n - 1
    OBVIOUS
  <2>2. l \in Nat /\ DOMAIN route = 1 .. l /\ \A i \in 1 .. l : route[i] \in Order
    BY <1>10, <2>1
  <2>3. \A i, j \in 1 .. l : route[i] = route[j] => i = j
    BY <1>12, <2>1
  <2>4. \A i \in 2 .. l : ~starts[i] => <<route[i - 1], route[i]>> \notin Prohibitive
    BY <1>13, <2>1
  <2>5. /\ RowOK(Moves!Numbered(route, starts))
        /\ Moves!OrdersOf(Moves!Numbered(route, starts)) = {route[i] : i \in 1 .. l}
    BY <2>2, <2>3, <2>4, RowOfRoute
  <2> QED
    BY <2>1, <2>5
<1>15. \A i \in 1 .. n - 1 : route[i] \in Moves!OrdersOf(row) \ {o}
  <2> TAKE i \in 1 .. n - 1
  <2>1. PICK k \in 1 .. n : k # place /\ route[i] = row[k].order
    BY <1>11
  <2>2. row[k].order # o
    BY <1>7, <1>8, <2>1 DEF RowOK, OnceEach
  <2> QED
    BY <1>7, <2>1, <2>2 DEF Moves!OrdersOf
<1> QED
  BY <1>6, <1>14, <1>15

(* The plannings: what the routes of all equipments have in common.         *)
PlanInv ==
  /\ startAt \in Starts /\ open \subseteq Order /\ rows = [e \in Moves!Equipment |-> rows[e]]
  /\ \A e \in Moves!Equipment :
       /\ RowOK(rows[e])
       /\ \A o \in Moves!OrdersOf(rows[e]) : o \notin open /\ e \in Allowed[o] \cup {startAt[o]}
  /\ \A e, f \in Moves!Equipment : e # f => Moves!OrdersOf(rows[e]) \cap Moves!OrdersOf(rows[f]) = {}
  /\ Moves!ForcedStayIn

LEMMA PlanSafe ==
  ASSUME PlanInv
  PROVE  Moves!PlansAreSound /\ Moves!ForcedStayIn
<1>1. ASSUME NEW e \in Moves!Equipment
      PROVE  /\ \A f \in Moves!Equipment \ {e} : Moves!OrdersOf(rows[e]) \cap Moves!OrdersOf(rows[f]) = {}
             /\ Moves!OrdersOf(rows[e]) \cap open = {}
             /\ \A o \in Moves!OrdersOf(rows[e]) : e \in Allowed[o] \cup {startAt[o]}
  BY <1>1 DEF PlanInv
<1>2. ASSUME NEW e \in Moves!Equipment PROVE Moves!IsInjective(Moves!Route(rows[e]))
  BY <1>2 DEF PlanInv, RowOK, OnceEach, Moves!IsInjective, Moves!Route
<1>3. ASSUME NEW e \in Moves!Equipment PROVE InLots(rows[e])
  BY <1>3 DEF PlanInv, RowOK
<1>4. Moves!PlansAreSound
  BY <1>1, <1>2, <1>3, Zenon DEF Moves!PlansAreSound, InLots
<1> QED
  BY <1>4 DEF PlanInv

LEMMA PlanPlaces ==
  ASSUME PlanInv
  PROVE  /\ Moves!Planned \subseteq Order
         /\ \A o : Moves!Place(o) \in Moves!Equipment \cup {None}
         /\ \A o : \A e \in Moves!Equipment : o \in Moves!OrdersOf(rows[e]) <=> Moves!Place(o) = e
         /\ \A o \in Moves!Planned : o \in open <=> Moves!Place(o) = None
<1>1. \A e \in Moves!Equipment : Moves!OrdersOf(rows[e]) \subseteq Order
  BY RouteOfRow DEF PlanInv
<1>2. Moves!Planned \subseteq Order
  BY <1>1 DEF PlanInv, Moves!Planned
<1>3. ASSUME NEW o PROVE Moves!Place(o) \in Moves!Equipment \cup {None}
  BY DEF Moves!Place
<1>4. ASSUME NEW o, NEW e \in Moves!Equipment
      PROVE  o \in Moves!OrdersOf(rows[e]) <=> Moves!Place(o) = e
  <2>1. e # None
    BY MovesConstants
  <2>2. \A f \in Moves!Equipment : o \in Moves!OrdersOf(rows[e]) /\ o \in Moves!OrdersOf(rows[f]) => e = f
    BY DEF PlanInv
  <2> QED
    BY <2>1, <2>2 DEF Moves!Place
<1>5. ASSUME NEW o \in Moves!Planned PROVE o \in open <=> Moves!Place(o) = None
  <2>1. o \in open => \A e \in Moves!Equipment : o \notin Moves!OrdersOf(rows[e])
    BY DEF PlanInv
  <2>2. o \notin open => \E e \in Moves!Equipment : o \in Moves!OrdersOf(rows[e])
    BY DEF Moves!Planned
  <2>3. o \in open => Moves!Place(o) = None
    BY <2>1 DEF Moves!Place
  <2>4. o \notin open => Moves!Place(o) # None
    BY <1>4, <2>2, MovesConstants
  <2> QED
    BY <2>3, <2>4
<1> QED
  BY <1>2, <1>3, <1>4, <1>5

(* Planning every equipment anew keeps to what is assigned.                 *)
LEMMA AnewIsSound ==
  ASSUME NEW assigned, DOMAIN assigned \subseteq Order, rows' \in Moves!Plannings(assigned),
         open' = Moves!At(assigned, None), startAt \in Starts, startAt' = startAt,
         \A o \in DOMAIN assigned, e \in Moves!Equipment : assigned[o] = e => e \in Allowed[o] \cup {startAt[o]},
         movesPc' = "search" /\ ~finalTsp' => \A o \in Forced \cap DOMAIN assigned : assigned[o] = None => Allowed[o] = {}
  PROVE  PlanInv'
<1>1. open' = {o \in DOMAIN assigned : assigned[o] = None}
  BY DEF Moves!At
<1>2. /\ rows' = [e \in Moves!Equipment |-> rows'[e]]
      /\ \A e \in Moves!Equipment :
           RowOK(rows'[e]) /\ \A o \in Moves!OrdersOf(rows'[e]) : o \in DOMAIN assigned /\ assigned[o] = e
  BY PlannedAnew
<1>3. ASSUME NEW e \in Moves!Equipment, NEW o \in Moves!OrdersOf(rows'[e])
      PROVE  o \notin open' /\ e \in Allowed[o] \cup {startAt'[o]}
  BY <1>1, <1>2, <1>3, MovesConstants
<1>4. \A e, f \in Moves!Equipment : e # f => Moves!OrdersOf(rows'[e]) \cap Moves!OrdersOf(rows'[f]) = {}
  BY <1>2
<1>5. Moves!ForcedStayIn'
  BY <1>1 DEF Moves!ForcedStayIn
<1> QED
  BY <1>1, <1>2, <1>3, <1>4, <1>5 DEF PlanInv

LEMMA PlanStart ==
  ASSUME Moves!Init
  PROVE  PlanInv
<1>1. rows = [e \in Moves!Equipment |-> <<>>] /\ open = {} /\ startAt \in Starts /\ movesPc = "start"
  BY DEF Moves!Init
<1>2. \A e \in Moves!Equipment : rows[e] = <<>>
  BY <1>1
<1> QED
  BY <1>1, <1>2, EmptyRow DEF PlanInv, Moves!ForcedStayIn

LEMMA PlanBegins ==
  ASSUME PlanInv, Moves!Begin
  PROVE  PlanInv'
<1>1. PICK withForced \in Moves!WithForced(startAt) :
        IF Moves!MissedLater(withForced)
        THEN movesPc' = "failed" /\ UNCHANGED <<rows, open>>
        ELSE LET assigned == Moves!Restrict(withForced, Order \ Moves!Dropped(withForced)) IN
             movesPc' = "search" /\ open' = Moves!At(assigned, None) /\ rows' \in Moves!Plannings(assigned)
  BY DEF Moves!Begin
<1>2. UNCHANGED <<startAt, finalTsp>> /\ startAt \in Starts
  BY DEF Moves!Begin, PlanInv
<1>3. CASE Moves!MissedLater(withForced)
  BY <1>1, <1>2, <1>3 DEF PlanInv, Moves!ForcedStayIn
<1>4. CASE ~Moves!MissedLater(withForced)
  <2>1. PICK assigned : assigned = Moves!Restrict(withForced, Order \ Moves!Dropped(withForced))
    OBVIOUS
  <2>2. movesPc' = "search" /\ open' = Moves!At(assigned, None) /\ rows' \in Moves!Plannings(assigned)
    BY <1>1, <1>4, <2>1
  <2>3. DOMAIN assigned \subseteq Order /\ \A o \in DOMAIN assigned : assigned[o] = withForced[o]
    BY <2>1 DEF Moves!Restrict
  <2>4. \A o \in Order : IF o \in Forced /\ startAt[o] = None /\ Allowed[o] # {}
                         THEN withForced[o] \in Allowed[o] ELSE withForced[o] = startAt[o]
    BY DEF Moves!WithForced
  <2>5. \A o \in Order : None \notin Allowed[o]
    BY MovesConstants
  <2>6. \A o \in DOMAIN assigned, e \in Moves!Equipment : assigned[o] = e => e \in Allowed[o] \cup {startAt[o]}
    BY <2>3, <2>4
  <2>7. \A o \in Forced \cap DOMAIN assigned : assigned[o] = None => Allowed[o] = {}
    BY <2>3, <2>4, <2>5
  <2> QED
    BY <1>2, <2>2, <2>3, <2>6, <2>7, AnewIsSound
<1> QED
  BY <1>3, <1>4

(* A step of the search moves an order of the planning from where it is to  *)
(* another place, and the move is not tabu.                                 *)
LEMMA StepMoves ==
  ASSUME PlanInv, NEW step \in Moves!NextSteps, NEW m, m = step.move
  PROVE  /\ m = [order |-> m.order, from |-> Moves!Place(m.order), to |-> m.to] /\ m \in Moves!Move
         /\ m.order \in Moves!Planned /\ m.order \in Order /\ m \notin DOMAIN tabu /\ m.to # m.from
         /\ m.from = Moves!Place(m.order)
         /\ m.to \in Allowed[m.order] \/ (m.to = None /\ m.order \notin Forced)
<1>1. PICK worker \in Moves!Shares : step \in Moves!Steps(worker)
  BY DEF Moves!NextSteps
<1>2. PICK w \in 1 .. NParallel : m \in Moves!NotTabu(Moves!Swaps(Moves!At(worker, w)))
  <2>1. ~Moves!WorkerFails(worker)
    BY <1>1 DEF Moves!Steps
  <2>2. \E w \in 1 .. NParallel : \E x \in Moves!NotTabu(Moves!Swaps(Moves!At(worker, w))) :
          \E solved, dummy : step = [move |-> x, solved |-> solved, dummy |-> dummy]
    BY <1>1, <2>1 DEF Moves!Steps
  <2> QED
    BY <2>2
<1>3. \A o \in Moves!At(worker, w) : o \in Moves!Planned
  BY DEF Moves!At, Moves!Shares
<1>4. m \notin DOMAIN tabu /\ m \in Moves!Swaps(Moves!At(worker, w))
  BY <1>2 DEF Moves!NotTabu
<1>5. PICK o \in Moves!At(worker, w) : \E e \in Moves!Targets(o) \ {Moves!Place(o)} :
        m = [order |-> o, from |-> Moves!Place(o), to |-> e]
  BY <1>4 DEF Moves!Swaps
<1>6. PICK e \in Moves!Targets(o) \ {Moves!Place(o)} : m = [order |-> o, from |-> Moves!Place(o), to |-> e]
  BY <1>5
<1>7. m.order = o /\ m.from = Moves!Place(o) /\ m.to = e /\ o \in Moves!Planned /\ o \in Order
  BY <1>3, <1>6, PlanPlaces
<1>8. e \in Allowed[o] \/ (e = None /\ o \notin Forced)
  BY <1>6 DEF Moves!Targets
<1>9. e \in Moves!Equipment \cup {None}
  BY <1>7, <1>8, MovesConstants
<1>10. Moves!Place(o) \in Moves!Equipment \cup {None}
  BY PlanPlaces
<1>11. m \in Moves!Move
  BY <1>6, <1>7, <1>9, <1>10 DEF Moves!Move
<1> QED
  BY <1>4, <1>6, <1>7, <1>8, <1>11

(* The candidates of a step, with the solver or without: nothing but the    *)
(* order goes anywhere.                                                     *)
Moved(r, m) ==
  /\ r = [e \in Moves!Equipment |-> r[e]]
  /\ \A e \in Moves!Equipment :
       /\ RowOK(r[e])
       /\ \A o \in Moves!OrdersOf(r[e]) :
            IF o = m.order THEN e = m.to ELSE o \in Moves!OrdersOf(rows[e])

LEMMA SolvedIsSound ==
  ASSUME PlanInv, NEW m \in Moves!Move, m.order \in Moves!Planned, m.from = Moves!Place(m.order), m.to # m.from,
         NEW r \in Moves!SolvedSwap(m)
  PROVE  Moved(r, m)
<1>1. PICK assigned : assigned = [Moves!Assignments EXCEPT ![m.order] = m.to]
  OBVIOUS
<1>2. DOMAIN assigned = Moves!Planned
      /\ \A o \in Moves!Planned : assigned[o] = IF o = m.order THEN m.to ELSE Moves!Place(o)
  BY <1>1 DEF Moves!Assignments
<1>3. /\ r = [e \in Moves!Equipment |-> r[e]]
      /\ \A e \in Moves!Equipment :
           r[e] \in IF e \in {m.from, m.to} THEN Moves!Sequences[Moves!At(assigned, e)] ELSE {rows[e]}
  BY <1>1 DEF Moves!SolvedSwap
<1>4. ASSUME NEW e \in Moves!Equipment
      PROVE  /\ RowOK(r[e])
             /\ \A o \in Moves!OrdersOf(r[e]) :
                  IF o = m.order THEN e = m.to ELSE o \in Moves!OrdersOf(rows[e])
  <2>1. CASE e \in {m.from, m.to}
    <3>1. Moves!At(assigned, e) = {o \in Moves!Planned : assigned[o] = e}
      BY <1>2 DEF Moves!At
    <3>2. RowOK(r[e]) /\ Moves!OrdersOf(r[e]) \subseteq Moves!At(assigned, e)
      BY <1>3, <2>1, <3>1, SequencedRow, PlanPlaces
    <3> QED
      BY <1>2, <3>1, <3>2, PlanPlaces
  <2>2. CASE e \notin {m.from, m.to}
    <3>1. r[e] = rows[e]
      BY <1>3, <2>2
    <3>2. m.order \notin Moves!OrdersOf(rows[e])
      BY <2>2, PlanPlaces
    <3> QED
      BY <3>1, <3>2 DEF PlanInv
  <2> QED
    BY <2>1, <2>2
<1> QED
  BY <1>3, <1>4 DEF Moved

LEMMA DummyIsSound ==
  ASSUME PlanInv, NEW m \in Moves!Move, m.order \in Moves!Planned, m.from = Moves!Place(m.order), m.to # m.from,
         NEW r \in Moves!DummySwap(m)
  PROVE  Moved(r, m)
<1>1. PICK place \in IF m.to = None THEN {1} ELSE 1 .. Len(rows[m.to]) + 1 :
        r = [e \in Moves!Equipment |->
               IF e = m.to THEN Moves!Inserted(rows[e], m.order, place)
               ELSE IF e = m.from THEN Moves!Removed(rows[e], m.order) ELSE rows[e]]
  BY DEF Moves!DummySwap
<1>2. ASSUME NEW e \in Moves!Equipment
      PROVE  /\ RowOK(r[e])
             /\ \A o \in Moves!OrdersOf(r[e]) :
                  IF o = m.order THEN e = m.to ELSE o \in Moves!OrdersOf(rows[e])
  <2>1. RowOK(rows[e]) /\ e # None /\ m.order \in Order
    BY MovesConstants DEF PlanInv, Moves!Move
  <2>2. m.order \in Moves!OrdersOf(rows[e]) <=> e = m.from
    BY PlanPlaces
  <2>3. CASE e = m.to
    <3>1. r[e] = Moves!Inserted(rows[e], m.order, place)
      BY <1>1, <2>3
    <3>2. place \in 1 .. Len(rows[e]) + 1
      BY <1>1, <2>1, <2>3
    <3>3. RowOK(r[e]) /\ Moves!OrdersOf(r[e]) \subseteq Moves!OrdersOf(rows[e]) \cup {m.order}
      BY <2>1, <2>2, <2>3, <3>1, <3>2, InsertedRow
    <3> QED
      BY <2>3, <3>3
  <2>4. CASE e # m.to /\ e = m.from
    <3>1. r[e] = Moves!Removed(rows[e], m.order)
      BY <1>1, <2>4
    <3>2. RowOK(r[e]) /\ Moves!OrdersOf(r[e]) \subseteq Moves!OrdersOf(rows[e]) \ {m.order}
      BY <2>1, <2>2, <2>4, <3>1, RemovedRow
    <3> QED
      BY <3>2
  <2>5. CASE e # m.to /\ e # m.from
    <3>1. r[e] = rows[e]
      BY <1>1, <2>5
    <3> QED
      BY <2>1, <2>2, <2>5, <3>1
  <2> QED
    BY <2>3, <2>4, <2>5
<1>3. r = [e \in Moves!Equipment |-> r[e]]
  BY <1>1
<1> QED
  BY <1>2, <1>3 DEF Moved

LEMMA PlanAdvances ==
  ASSUME PlanInv, Moves!Advance
  PROVE  PlanInv'
<1>1. PICK step \in Moves!NextSteps : \E r \in Moves!Candidates(step) :
        \/ /\ rows' = r
           /\ open' = (open \ {step.move.order}) \cup IF step.move.to = None THEN {step.move.order} ELSE {}
        \/ finalTsp /\ rows' = [e \in Moves!Equipment |-> <<>>] /\ open' = Moves!Planned
  BY DEF Moves!Advance
<1>2. PICK m : m = step.move
  OBVIOUS
<1>3. PICK r \in Moves!Candidates(step) :
        \/ rows' = r /\ open' = (open \ {m.order}) \cup IF m.to = None THEN {m.order} ELSE {}
        \/ finalTsp /\ rows' = [e \in Moves!Equipment |-> <<>>] /\ open' = Moves!Planned
  BY <1>1, <1>2
<1>4. UNCHANGED <<startAt, finalTsp, movesPc>> /\ startAt \in Starts
  BY DEF Moves!Advance, PlanInv
<1>5. /\ m \in Moves!Move /\ m.order \in Moves!Planned /\ m.order \in Order /\ m.to # m.from
      /\ m.from = Moves!Place(m.order)
      /\ m.to \in Allowed[m.order] \/ (m.to = None /\ m.order \notin Forced)
  BY <1>2, StepMoves
<1>6. CASE rows' = r /\ open' = (open \ {m.order}) \cup IF m.to = None THEN {m.order} ELSE {}
  <2>1. Moved(r, m)
    BY <1>2, <1>5, SolvedIsSound, DummyIsSound DEF Moves!Candidates
  <2>2. \A e \in Moves!Equipment : RowOK(rows'[e])
    BY <1>6, <2>1 DEF Moved
  <2>3. ASSUME NEW e \in Moves!Equipment, NEW o \in Moves!OrdersOf(rows'[e])
        PROVE  o \notin open' /\ e \in Allowed[o] \cup {startAt'[o]}
    <3>1. CASE o = m.order
      <4>1. e = m.to /\ e # None
        BY <1>6, <2>1, <2>3, <3>1, MovesConstants DEF Moved
      <4> QED
        BY <1>5, <1>6, <3>1, <4>1
    <3>2. CASE o # m.order
      <4>1. o \in Moves!OrdersOf(rows[e])
        BY <1>6, <2>1, <2>3, <3>2 DEF Moved
      <4>2. o \notin open /\ e \in Allowed[o] \cup {startAt[o]}
        BY <4>1 DEF PlanInv
      <4> QED
        BY <1>4, <1>6, <3>2, <4>2
    <3> QED
      BY <3>1, <3>2
  <2>4. ASSUME NEW e \in Moves!Equipment, NEW f \in Moves!Equipment, e # f,
               NEW o \in Moves!OrdersOf(rows'[e]) \cap Moves!OrdersOf(rows'[f])
        PROVE  FALSE
    BY <1>6, <2>1, <2>4 DEF Moved, PlanInv
  <2>5. Moves!ForcedStayIn'
    <3> SUFFICES ASSUME movesPc = "search", ~finalTsp, NEW o \in open' \cap Forced PROVE Allowed[o] = {}
      BY <1>4 DEF Moves!ForcedStayIn
    <3>1. \A x \in Order : None \notin Allowed[x]
      BY MovesConstants
    <3>2. o \in open
      BY <1>5, <1>6, <3>1
    <3> QED
      BY <3>2 DEF PlanInv, Moves!ForcedStayIn
  <2>6. open' \subseteq Order
    BY <1>5, <1>6 DEF PlanInv
  <2>7. rows' = [e \in Moves!Equipment |-> rows'[e]]
    BY <1>6, <2>1 DEF Moved
  <2> QED
    BY <1>4, <2>2, <2>3, <2>4, <2>5, <2>6, <2>7 DEF PlanInv
<1>7. CASE finalTsp /\ rows' = [e \in Moves!Equipment |-> <<>>] /\ open' = Moves!Planned
  <2>1. \A e \in Moves!Equipment : rows'[e] = <<>>
    BY <1>7
  <2>2. Moves!ForcedStayIn'
    BY <1>4, <1>7 DEF Moves!ForcedStayIn
  <2>3. open' \subseteq Order
    BY <1>7, PlanPlaces
  <2> QED
    BY <1>4, <1>7, <2>1, <2>2, <2>3, EmptyRow DEF PlanInv
<1> QED
  BY <1>6, <1>7, <1>3

LEMMA PlanShuffles ==
  ASSUME PlanInv, Moves!Shuffle
  PROVE  PlanInv'
<1>1. PICK removed \in SUBSET Moves!MayLeave : \E fill \in Moves!Refills(removed) :
        /\ open' = Moves!At(Moves!Shuffled(removed, fill), None)
        /\ rows' \in Moves!Plannings(Moves!Shuffled(removed, fill))
  BY DEF Moves!Shuffle
<1>2. PICK fill \in Moves!Refills(removed) :
        /\ open' = Moves!At(Moves!Shuffled(removed, fill), None)
        /\ rows' \in Moves!Plannings(Moves!Shuffled(removed, fill))
  BY <1>1
<1>3. UNCHANGED <<startAt, finalTsp, movesPc>> /\ startAt \in Starts
  BY DEF Moves!Shuffle, PlanInv
<1>4. PICK assigned : assigned = Moves!Shuffled(removed, fill)
  OBVIOUS
<1>5. DOMAIN fill = open \cup removed
      /\ \A o \in open \cup removed : fill[o] # None => fill[o] \in Allowed[o]
  BY DEF Moves!Refills, Moves!MayFill
<1>6. /\ DOMAIN assigned = Moves!Planned \ {o \in open : fill[o] = None}
      /\ \A o \in DOMAIN assigned : assigned[o] = IF o \in open \cup removed THEN fill[o] ELSE Moves!Place(o)
  BY <1>4, <1>5 DEF Moves!Shuffled
<1>7. DOMAIN assigned \subseteq Order
  BY <1>6, PlanPlaces
<1>8. ASSUME NEW o \in DOMAIN assigned, NEW e \in Moves!Equipment, assigned[o] = e
      PROVE  e \in Allowed[o] \cup {startAt[o]}
  <2>1. CASE o \in open \cup removed
    BY <1>5, <1>6, <1>8, <2>1, MovesConstants
  <2>2. CASE o \notin open \cup removed
    <3>1. o \in Moves!OrdersOf(rows[e])
      BY <1>6, <1>8, <2>2, PlanPlaces
    <3> QED
      BY <3>1 DEF PlanInv
  <2> QED
    BY <2>1, <2>2
<1>9. ASSUME NEW o \in Forced \cap DOMAIN assigned, assigned[o] = None PROVE FALSE
  <2>1. o \notin removed /\ o \in Moves!Planned
    BY <1>6 DEF Moves!MayLeave
  <2>2. o \notin open
    BY <1>6, <1>9
  <2>3. Moves!Place(o) = None
    BY <1>6, <1>9, <2>1, <2>2
  <2> QED
    BY <2>1, <2>2, <2>3, PlanPlaces
<1> QED
  BY <1>3, <1>4, <1>7, <1>8, <1>9, <1>2, AnewIsSound

LEMMA PlanStep ==
  ASSUME PlanInv, Moves!Next
  PROVE  PlanInv'
<1>1. CASE Moves!Fail
  <2>1. UNCHANGED <<startAt, rows, open>> /\ movesPc' = "failed"
    BY <1>1 DEF Moves!Fail
  <2>2. Moves!ForcedStayIn'
    BY <2>1 DEF Moves!ForcedStayIn
  <2> QED
    BY <2>1, <2>2 DEF PlanInv
<1> QED
  BY <1>1, PlanBegins, PlanAdvances, PlanShuffles DEF Moves!Next

(* The tabu list: a move of the last ones is in it with at least the steps  *)
(* it has left, and so is, before the first shuffle, its way back; the last *)
(* one's always.                                                            *)
LastMoves ==
  \A k \in 1 .. Len(past) : k <= Expiration => past[k] \in DOMAIN tabu /\ tabu[past[k]] >= Expiration - k + 1
BothWays == \A m \in DOMAIN tabu : Moves!WayBack(m) \in DOMAIN tabu /\ tabu[Moves!WayBack(m)] = tabu[m]
TabuInv ==
  /\ steps \in Nat /\ past \in Seq(Moves!Move) /\ Len(past) <= steps
  /\ DOMAIN tabu \subseteq Moves!Move /\ \A m \in DOMAIN tabu : tabu[m] \in Nat \ {0}
  /\ LastMoves
  /\ Len(past) > 0 => Moves!WayBack(past[1]) \in DOMAIN tabu
  /\ Len(past) = steps => BothWays
  /\ Moves!NoWayBack

LEMMA WayBackBack ==
  ASSUME NEW m \in Moves!Move
  PROVE  Moves!WayBack(m) \in Moves!Move /\ Moves!WayBack(Moves!WayBack(m)) = m
<1>1. ASSUME NEW o \in Order, NEW f, NEW t
      PROVE  Moves!WayBack([order |-> o, from |-> f, to |-> t]) = [order |-> o, from |-> t, to |-> f]
  <2>1. PICK x : x = [order |-> o, from |-> f, to |-> t]
    OBVIOUS
  <2>2. Moves!WayBack(x) = [x EXCEPT !.from = t, !.to = f]
    BY <2>1 DEF Moves!WayBack
  <2> QED
    BY <2>1, <2>2
<1>2. PICK o \in Order, f \in Moves!Equipment \cup {None}, t \in Moves!Equipment \cup {None} :
        m = [order |-> o, from |-> f, to |-> t]
  BY DEF Moves!Move
<1>3. Moves!WayBack(m) = [order |-> o, from |-> t, to |-> f]
  BY <1>1, <1>2
<1> QED
  BY <1>1, <1>2, <1>3 DEF Moves!Move

LEMMA TabuStart ==
  ASSUME Moves!Init
  PROVE  TabuInv
<1>1. steps = 0 /\ past = <<>> /\ tabu = <<>>
  BY DEF Moves!Init
<1>2. Len(past) = 0 /\ DOMAIN past = {} /\ DOMAIN tabu = {} /\ past \in Seq(Moves!Move)
  BY <1>1
<1> QED
  BY <1>1, <1>2 DEF TabuInv, LastMoves, BothWays, Moves!NoWayBack

(* What a step adds to the list, and what it leaves in it.                  *)
LEMMA TabuAdds ==
  ASSUME TabuInv, NEW m \in Moves!Move, m \notin DOMAIN tabu, NEW after, after = Moves!TabuAfter(m)
  PROVE  /\ DOMAIN after = {x \in DOMAIN tabu : tabu[x] > 1} \cup {m, Moves!WayBack(m)}
         /\ \A x \in DOMAIN tabu : tabu[x] > 1 => after[x] = tabu[x] - 1
         /\ after[m] = Expiration
         /\ Moves!WayBack(m) \notin DOMAIN tabu => after[Moves!WayBack(m)] = Expiration
         /\ DOMAIN after \subseteq Moves!Move /\ \A x \in DOMAIN after : after[x] \in Nat \ {0}
<1>1. PICK aged : aged = Moves!Aged
  OBVIOUS
<1>2. DOMAIN aged = {x \in DOMAIN tabu : tabu[x] > 1}
      /\ \A x \in DOMAIN tabu : tabu[x] > 1 => aged[x] = tabu[x] - 1
  BY <1>1 DEF Moves!Aged
<1>3. DOMAIN after = DOMAIN aged \cup {m, Moves!WayBack(m)}
      /\ \A x \in DOMAIN after : after[x] = IF x \in DOMAIN aged THEN aged[x] ELSE Expiration
  BY <1>1 DEF Moves!TabuAfter, Moves!AddTo
<1>4. \A x \in DOMAIN tabu : x \in Moves!Move /\ tabu[x] \in Nat \ {0}
  BY DEF TabuInv
<1>5. DOMAIN after \subseteq Moves!Move
  BY <1>2, <1>3, <1>4, WayBackBack
<1>6. \A x \in DOMAIN after : after[x] \in Nat \ {0}
  BY <1>2, <1>3, <1>4, MovesConstants
<1> QED
  BY <1>2, <1>3, <1>5, <1>6

LEMMA TabuAdvances ==
  ASSUME PlanInv, TabuInv, Moves!Advance
  PROVE  TabuInv'
<1>1. PICK step \in Moves!NextSteps : tabu' = Moves!TabuAfter(step.move) /\ past' = <<step.move>> \o past
  BY DEF Moves!Advance
<1>2. PICK m : m = step.move
  OBVIOUS
<1>3. steps' = steps + 1 /\ steps \in Nat /\ past \in Seq(Moves!Move) /\ Len(past) \in Nat /\ Len(past) <= steps
  BY DEF Moves!Advance, TabuInv
<1>4. m \in Moves!Move /\ m \notin DOMAIN tabu
  BY <1>2, StepMoves
<1>5. /\ DOMAIN tabu' = {x \in DOMAIN tabu : tabu[x] > 1} \cup {m, Moves!WayBack(m)}
      /\ \A x \in DOMAIN tabu : tabu[x] > 1 => tabu'[x] = tabu[x] - 1
      /\ tabu'[m] = Expiration
      /\ Moves!WayBack(m) \notin DOMAIN tabu => tabu'[Moves!WayBack(m)] = Expiration
      /\ DOMAIN tabu' \subseteq Moves!Move /\ \A x \in DOMAIN tabu' : tabu'[x] \in Nat \ {0}
  BY <1>1, <1>2, <1>4, TabuAdds
<1>6. Expiration \in Nat /\ Expiration # 0
  BY MovesConstants
<1>7. /\ past' \in Seq(Moves!Move) /\ Len(past') = Len(past) + 1
      /\ past'[1] = m /\ \A k \in 1 .. Len(past) : past'[k + 1] = past[k]
  <2>1. <<m>> \in Seq(Moves!Move) /\ Len(<<m>>) = 1 /\ <<m>>[1] = m
    BY <1>4
  <2>2. /\ past' \in Seq(Moves!Move) /\ Len(past') = 1 + Len(past)
        /\ \A i \in 1 .. 1 + Len(past) : past'[i] = IF i <= 1 THEN m ELSE past[i - 1]
    BY <1>1, <1>2, <1>3, <2>1, ConcatProperties
  <2> QED
    BY <1>3, <2>2
<1>8. ASSUME NEW k \in 1 .. Len(past), k <= Expiration
      PROVE  /\ past[k] \in DOMAIN tabu /\ tabu[past[k]] \in Nat /\ tabu[past[k]] >= Expiration - k + 1
             /\ past[k] \in Moves!Move
  BY <1>8 DEF TabuInv, LastMoves
<1>9. LastMoves'
  <2> SUFFICES ASSUME NEW k \in 1 .. Len(past'), k <= Expiration
               PROVE  past'[k] \in DOMAIN tabu' /\ tabu'[past'[k]] >= Expiration - k + 1
    BY DEF LastMoves
  <2>1. CASE k = 1
    BY <2>1, <1>5, <1>6, <1>7
  <2>2. CASE k # 1
    <3>1. PICK l \in 1 .. Len(past) : k = l + 1
      BY <2>2, <1>3, <1>7
    <3>2. past'[k] = past[l] /\ l <= Expiration
      BY <1>6, <1>7, <3>1
    <3>3. past[l] \in DOMAIN tabu /\ tabu[past[l]] \in Nat /\ tabu[past[l]] >= Expiration - l + 1
      BY <1>8, <3>2
    <3>4. tabu[past[l]] > 1
      BY <1>6, <3>1, <3>3
    <3>5. past[l] \in DOMAIN tabu' /\ tabu'[past[l]] = tabu[past[l]] - 1
      BY <1>5, <3>3, <3>4
    <3>6. tabu[past[l]] - 1 >= Expiration - k + 1
      BY <1>6, <3>1, <3>3
    <3> QED
      BY <3>2, <3>5, <3>6, Zenon
  <2> QED
    BY <2>1, <2>2
<1>10. Len(past) = steps => BothWays'
  <2> SUFFICES ASSUME Len(past) = steps, NEW x \in DOMAIN tabu'
               PROVE  Moves!WayBack(x) \in DOMAIN tabu' /\ tabu'[Moves!WayBack(x)] = tabu'[x]
    BY DEF BothWays
  <2>1. \A y \in DOMAIN tabu : Moves!WayBack(y) \in DOMAIN tabu /\ tabu[Moves!WayBack(y)] = tabu[y]
    BY DEF TabuInv, BothWays
  <2>2. Moves!WayBack(m) \notin DOMAIN tabu
    BY <1>4, <2>1, WayBackBack
  <2>3. tabu'[m] = Expiration /\ tabu'[Moves!WayBack(m)] = Expiration
    BY <1>5, <2>2
  <2>4. CASE x \in {m, Moves!WayBack(m)}
    BY <1>4, <1>5, <2>3, <2>4, WayBackBack
  <2>5. CASE x \in DOMAIN tabu /\ tabu[x] > 1
    BY <1>5, <2>1, <2>5
  <2> QED
    BY <1>5, <2>4, <2>5
<1>11. ASSUME NEW j \in 1 .. Len(past), j <= Expiration
       PROVE  m # past[j] /\ (m = Moves!WayBack(past[j]) => j > 1 /\ Len(past) < steps)
  <2>1. past[j] \in DOMAIN tabu /\ past[j] \in Moves!Move
    BY <1>8, <1>11
  <2>2. ASSUME m = Moves!WayBack(past[j]), j = 1 PROVE FALSE
    BY <1>3, <1>4, <2>2 DEF TabuInv
  <2>3. ASSUME m = Moves!WayBack(past[j]), Len(past) = steps PROVE FALSE
    BY <1>4, <2>1, <2>3 DEF TabuInv, BothWays
  <2> QED
    BY <1>3, <1>4, <2>1, <2>2, <2>3
<1>12. Moves!NoWayBack'
  <2> SUFFICES ASSUME NEW i \in DOMAIN past', NEW j \in DOMAIN past', i < j, j - i <= Expiration
               PROVE  /\ past'[i] # past'[j]
                      /\ past'[i] = Moves!WayBack(past'[j]) => j - i > 1 /\ Len(past') < steps'
    BY DEF Moves!NoWayBack
  <2>1. DOMAIN past' = 1 .. Len(past) + 1 /\ DOMAIN past = 1 .. Len(past)
    BY <1>3, <1>7
  <2>2. PICK l \in 1 .. Len(past) : j = l + 1 /\ past'[j] = past[l]
    <3>1. j - 1 \in 1 .. Len(past) /\ j = (j - 1) + 1
      BY <1>3, <2>1
    <3> QED
      BY <1>7, <3>1
  <2>3. CASE i = 1
    <3>1. past'[i] = m /\ l <= Expiration /\ j - i = l
      BY <2>2, <2>3, <1>6, <1>7
    <3> QED
      BY <1>3, <1>7, <1>11, <2>2, <3>1
  <2>4. CASE i # 1
    <3>1. PICK h \in 1 .. Len(past) : i = h + 1 /\ past'[i] = past[h]
      <4>1. i - 1 \in 1 .. Len(past) /\ i = (i - 1) + 1
        BY <1>3, <2>1, <2>4
      <4> QED
        BY <1>7, <4>1
    <3>2. h < l /\ l - h <= Expiration /\ l - h = j - i
      BY <2>2, <3>1, <1>6
    <3>3. past[h] # past[l] /\ (past[h] = Moves!WayBack(past[l]) => l - h > 1 /\ Len(past) < steps)
      BY <2>1, <3>2 DEF TabuInv, Moves!NoWayBack
    <3> QED
      BY <1>3, <1>7, <2>2, <3>1, <3>2, <3>3
  <2> QED
    BY <2>3, <2>4
<1>13. Moves!WayBack(past'[1]) \in DOMAIN tabu'
  BY <1>5, <1>7
<1> QED
  BY <1>3, <1>5, <1>7, <1>9, <1>10, <1>12, <1>13 DEF TabuInv

LEMMA TabuShuffles ==
  ASSUME PlanInv, TabuInv, Moves!Shuffle
  PROVE  TabuInv'
<1>1. PICK step \in Moves!NextSteps, removed \in SUBSET Moves!MayLeave :
        tabu' = Moves!AddTo(Moves!TabuAfter(step.move),
                            {[order |-> o, from |-> Moves!Place(o), to |-> None] : o \in removed},
                            ExpirationAfterShuffle)
  BY DEF Moves!Shuffle
<1>2. PICK m : m = step.move
  OBVIOUS
<1>3. m \in Moves!Move /\ m \notin DOMAIN tabu
  BY <1>2, StepMoves
<1>4. PICK after : after = Moves!TabuAfter(m)
  OBVIOUS
<1>5. DOMAIN after \subseteq Moves!Move /\ \A x \in DOMAIN after : after[x] \in Nat \ {0}
  BY <1>3, <1>4, TabuAdds
<1>6. PICK taken : taken = {[order |-> o, from |-> Moves!Place(o), to |-> None] : o \in removed}
  OBVIOUS
<1>7. taken \subseteq Moves!Move
  <2>1. \A o \in removed : o \in Order /\ Moves!Place(o) \in Moves!Equipment \cup {None}
    BY PlanPlaces DEF Moves!MayLeave
  <2> QED
    BY <1>6, <2>1 DEF Moves!Move
<1>8. DOMAIN tabu' = DOMAIN after \cup taken
      /\ \A x \in DOMAIN tabu' : tabu'[x] = IF x \in DOMAIN after THEN after[x] ELSE ExpirationAfterShuffle
  BY <1>1, <1>2, <1>4, <1>6 DEF Moves!AddTo
<1>9. DOMAIN tabu' \subseteq Moves!Move /\ \A x \in DOMAIN tabu' : tabu'[x] \in Nat \ {0}
  BY <1>5, <1>7, <1>8, MovesConstants
<1>10. steps' \in Nat /\ steps' > 0 /\ past' = <<>>
  BY DEF Moves!Shuffle, TabuInv
<1>11. Len(past') = 0 /\ DOMAIN past' = {} /\ past' \in Seq(Moves!Move)
  BY <1>10
<1> QED
  BY <1>9, <1>10, <1>11 DEF TabuInv, LastMoves, Moves!NoWayBack

LEMMA TabuStep ==
  ASSUME PlanInv, TabuInv, Moves!Next
  PROVE  TabuInv'
<1>1. CASE Moves!Begin \/ Moves!Fail
  <2>1. UNCHANGED <<steps, past, tabu>>
    BY <1>1 DEF Moves!Begin, Moves!Fail
  <2> QED
    BY <2>1 DEF TabuInv, LastMoves, BothWays, Moves!NoWayBack
<1> QED
  BY <1>1, TabuAdvances, TabuShuffles DEF Moves!Next

LEMMA MovesStay ==
  ASSUME PlanInv, TabuInv, UNCHANGED varsMoves
  PROVE  PlanInv' /\ TabuInv'
<1>1. UNCHANGED <<startAt, finalTsp, movesPc, rows, open>> /\ UNCHANGED <<tabu, steps, past>>
  BY DEF varsMoves
<1>2. PlanInv'
  BY <1>1 DEF PlanInv, Moves!ForcedStayIn
<1>3. TabuInv'
  BY <1>1 DEF TabuInv, LastMoves, BothWays, Moves!NoWayBack
<1> QED
  BY <1>2, <1>3

(* Every planning the search moves through has each order once, on an       *)
(* equipment that may process it or had it at the start, in lots numbered   *)
(* one after the other without transitions that are too dear; forced orders *)
(* are not taken off again, and the tabu list keeps moves from being        *)
(* repeated, and undone at once or before the first shuffle.                *)
THEOREM MovesStaySound == PartsSpec => []MovesAreSound
<1> DEFINE Inv == IsMoves => PlanInv /\ TabuInv
<1>1. PartsInit => Inv
  BY PlanStart, TabuStart DEF PartsInit, IsMoves
<1>2. Inv /\ [PartsNext]_partsVars => Inv'
  <2> SUFFICES ASSUME IsMoves', Inv, [PartsNext]_partsVars PROVE PlanInv' /\ TabuInv'
    OBVIOUS
  <2>1. CASE IsMoves /\ Moves!Next
    BY <2>1, PlanStep, TabuStep
  <2>2. CASE UNCHANGED <<part, varsMoves>>
    BY <2>2, MovesStay DEF IsMoves
  <2> QED
    BY <2>1, <2>2 DEF PartsNext, IsRules, IsLongTerm, IsMoves, IsPlanning, IsLots, partsVars
<1>3. Inv => MovesAreSound
  BY PlanSafe DEF MovesAreSound, TabuInv
<1> QED
  BY <1>1, <1>2, <1>3, PTL DEF PartsSpec

-----------------------------------------------------------------------------
(* The pages that show solutions and transfer lots of them.                 *)
PageField ==
  {"process", "listed", "row", "solution", "table", "lotRow", "dialog", "open", "startable", "polls",
   "starting", "transferred", "told", "left"}

PageFields ==
  /\ DOMAIN pages = User /\ \A u \in User : DOMAIN pages[u] = PageField
  /\ DOMAIN pagesAsked = User /\ \A u \in User : DOMAIN pagesAsked[u] = Planning!Callback

(* What a row of lots, or the dialog, shows is a lot of a solution as it    *)
(* was stored at some time.                                                 *)
SeenIn(lot, orders, seen) ==
  /\ seen.of \in Solution /\ seen.version \in 1 .. 2
  /\ lot \in DOMAIN Contents[seen.of][seen.version] /\ orders = Contents[seen.of][seen.version][lot]

AsChosen(t) ==
  t.inStep =>
    /\ t.carried = t.chosen /\ t.chosen # {}
    /\ \E s \in Solution, v \in 1 .. 2 :
         ProcessOf[s] = t.process /\ t.lot \in DOMAIN Contents[s][v] /\ t.chosen \subseteq Contents[s][v][t.lot]

PageChosen(p) ==
  /\ p.table.of # None => p.table.of \in Solution /\ p.table.version \in 1 .. 2
  /\ p.lotRow = None \/ SeenIn(p.lotRow.lot, p.lotRow.orders, p.lotRow.seen)
  /\ DOMAIN p.dialog = {"lot", "orders", "listed", "seen"}
  /\ p.dialog.orders \subseteq p.dialog.listed
  /\ p.dialog.listed = {} \/ SeenIn(p.dialog.lot, p.dialog.listed, p.dialog.seen)
  /\ p.starting.at = "load" => p.dialog.orders # {}
  /\ p.starting.at = "begin" => AsChosen(p.starting)

IsSeq(s) == s \in Seq(Planning!ToSet(s))

ChosenInv ==
  /\ PageFields
  /\ solVersion \in [Solution -> 1 .. 2]
  /\ \A u \in User : PageChosen(pages[u])
  /\ IsSeq(pageTransfers)
  /\ \A i \in DOMAIN pageTransfers : AsChosen(pageTransfers[i])

(* Each transfer was started by one page, which asks for its answer.        *)
Awaited(u) ==
  LET id == pages[u].transferred IN
    id # None /\ pages[u].told # id /\ ~pages[u].left /\ id \notin lostTransfers
      => /\ pages[u].polls \/ pagesAsked[u]["checkStart"] # {} \/ pages[u].starting.at # "idle"
         /\ id = transferThread \/ id \in Planning!ToSet(answers)

Number == 1 .. Len(pageTransfers)
AnswerInv ==
  /\ transferThread \in Number \cup {None}
  /\ answers \in Seq(Nat)
  /\ \A u \in User : pages[u].transferred \in Number \cup {None}
  /\ \A u, v \in User :
       u # v /\ pages[u].transferred = pages[v].transferred => pages[u].transferred = None
  /\ \A u \in User : Awaited(u)

(* What a callback or a click writes into its page.                         *)
LEMMA Written ==
  ASSUME PageFields, NEW u \in User, NEW stores, Planning!Writes(u, stores)
  PROVE  /\ DOMAIN pages' = User /\ \A v \in User : DOMAIN pages'[v] = PageField
         /\ \A v \in User \ {u} : pages'[v] = pages[v]
         /\ \A f \in PageField : pages'[u][f] = IF f \in DOMAIN stores THEN stores[f] ELSE pages[u][f]
<1>1. pages' = [pages EXCEPT ![u] = [f \in DOMAIN pages[u] |-> IF f \in DOMAIN stores THEN stores[f] ELSE pages[u][f]]]
  BY DEF Planning!Writes
<1> QED
  BY <1>1 DEF PageFields

LEMMA CallbackOf ==
  /\ Planning!Callback =
       {"solutionsTable", "solutionSelected", "solutionChanged", "lotRowSelected", "checkStart"}
  /\ "checkStart" \in Planning!Callback
BY DEF Planning!Callback, Planning!Inputs

(* Nothing that is asked for is forgotten but by the callback itself.       *)
KeepsAsking ==
  /\ DOMAIN pagesAsked' = User /\ \A v \in User : DOMAIN pagesAsked'[v] = Planning!Callback
  /\ \A v \in User : pagesAsked[v]["checkStart"] # {} => pagesAsked'[v]["checkStart"] # {}

LEMMA ClickAsks ==
  ASSUME PageFields, NEW u \in User, NEW written, pagesAsked' = [pagesAsked EXCEPT ![u] = Planning!Asked(@, written)]
  PROVE  KeepsAsking
BY CallbackOf DEF PageFields, KeepsAsking, Planning!Asked

LEMMA CallbackAsks ==
  ASSUME PageFields, NEW u \in User, NEW c \in Planning!Callback, NEW written, Planning!Done(u, c, written)
  PROVE  /\ DOMAIN pagesAsked' = User /\ \A v \in User : DOMAIN pagesAsked'[v] = Planning!Callback
         /\ \A v \in User : v # u \/ c # "checkStart" =>
              (pagesAsked[v]["checkStart"] # {} => pagesAsked'[v]["checkStart"] # {})
<1>1. pagesAsked' = [pagesAsked EXCEPT ![u] = Planning!Asked([@ EXCEPT ![c] = {}], written)]
  BY DEF Planning!Done
<1> QED
  BY <1>1, CallbackOf DEF PageFields, Planning!Asked

(* What is chosen.                                                          *)
LEMMA ChosenStays ==
  ASSUME ChosenInv, NEW u \in User, NEW stores, Planning!Writes(u, stores),
         DOMAIN pagesAsked' = User /\ \A v \in User : DOMAIN pagesAsked'[v] = Planning!Callback,
         UNCHANGED <<solVersion, pageTransfers>>,
         PageChosen(pages'[u])
  PROVE  ChosenInv'
<1>1. /\ DOMAIN pages' = User /\ \A v \in User : DOMAIN pages'[v] = PageField
      /\ \A v \in User \ {u} : pages'[v] = pages[v]
  BY Written DEF ChosenInv
<1>2. PageFields'
  BY <1>1 DEF PageFields
<1>3. ASSUME NEW v \in User PROVE PageChosen(pages'[v])
  BY <1>1, Zenon DEF ChosenInv
<1>4. \A v \in User : PageChosen(pages[v])'
  BY <1>3 DEF PageChosen
<1>5. IsSeq(pageTransfers)'
  BY DEF ChosenInv
<1> QED
  BY <1>2, <1>4, <1>5 DEF ChosenInv

ChosenFields == {"table", "lotRow", "dialog", "starting"}

LEMMA UnseenWrites ==
  ASSUME ChosenInv, NEW u \in User, NEW stores, Planning!Writes(u, stores),
         DOMAIN stores \cap ChosenFields = {}
  PROVE  PageChosen(pages'[u])
<1>1. \A f \in ChosenFields : pages'[u][f] = pages[u][f]
  BY Written DEF ChosenInv, ChosenFields, PageField
<1>2. /\ pages'[u].table = pages[u].table /\ pages'[u].lotRow = pages[u].lotRow
      /\ pages'[u].dialog = pages[u].dialog /\ pages'[u].starting = pages[u].starting
  BY <1>1 DEF ChosenFields
<1>3. PageChosen(pages[u])
  BY DEF ChosenInv
<1> QED
  BY <1>2, <1>3 DEF PageChosen

LEMMA ChosenUnseen ==
  ASSUME ChosenInv, NEW u \in User, UNCHANGED <<solVersion, pageTransfers>>,
         DOMAIN pagesAsked' = User /\ \A v \in User : DOMAIN pagesAsked'[v] = Planning!Callback,
         \/ UNCHANGED pages
         \/ \E stores : Planning!Writes(u, stores) /\ DOMAIN stores \cap ChosenFields = {}
  PROVE  ChosenInv'
<1>1. CASE UNCHANGED pages
  <2>1. PageFields'
    BY <1>1 DEF PageFields, ChosenInv
  <2>2. IsSeq(pageTransfers)'
    BY DEF ChosenInv
  <2> QED
    BY <1>1, <2>1, <2>2 DEF ChosenInv
<1>2. CASE \E stores : Planning!Writes(u, stores) /\ DOMAIN stores \cap ChosenFields = {}
  BY <1>2, ChosenStays, UnseenWrites
<1> QED
  BY <1>1, <1>2

(* Clicks and callbacks that write no lots.                                 *)
LEMMA ChosenQuiet ==
  ASSUME ChosenInv, NEW u \in User,
         \/ \E p \in Process : Planning!ChooseProcess(u, p)
         \/ \E s \in Solution \cup {Planning!Snapshot} : Planning!ChooseSolution(u, s)
         \/ Planning!PressStart(u) \/ Planning!Cancel(u) \/ Planning!Poll(u)
         \/ Planning!SolutionsTable(u) \/ Planning!SolutionSelected(u)
  PROVE  ChosenInv'
<1>1. PageFields
  BY DEF ChosenInv
<1>2. ASSUME NEW p \in Process, Planning!ChooseProcess(u, p) PROVE ChosenInv'
  <2>1. KeepsAsking /\ UNCHANGED <<solVersion, pageTransfers>>
    BY <1>1, <1>2, ClickAsks DEF Planning!ChooseProcess, Planning!Click, Planning!server
  <2>2. Planning!Writes(u, [process |-> p]) /\ DOMAIN [process |-> p] \cap ChosenFields = {}
    BY <1>2 DEF Planning!ChooseProcess, ChosenFields
  <2> QED
    BY <2>1, <2>2, ChosenUnseen DEF KeepsAsking
<1>3. ASSUME NEW s, Planning!ChooseSolution(u, s) PROVE ChosenInv'
  <2>1. KeepsAsking /\ UNCHANGED <<solVersion, pageTransfers>>
    BY <1>1, <1>3, ClickAsks DEF Planning!ChooseSolution, Planning!Click, Planning!server
  <2>2. Planning!Writes(u, [row |-> s]) /\ DOMAIN [row |-> s] \cap ChosenFields = {}
    BY <1>3 DEF Planning!ChooseSolution, ChosenFields
  <2> QED
    BY <2>1, <2>2, ChosenUnseen DEF KeepsAsking
<1>4. ASSUME Planning!PressStart(u) \/ Planning!Poll(u) PROVE ChosenInv'
  <2>1. KeepsAsking /\ UNCHANGED <<solVersion, pageTransfers, pages>>
    BY <1>1, <1>4, ClickAsks DEF Planning!PressStart, Planning!Poll, Planning!Click, Planning!server
  <2> QED
    BY <2>1, ChosenUnseen DEF KeepsAsking
<1>5. ASSUME Planning!Cancel(u) PROVE ChosenInv'
  <2>1. KeepsAsking /\ UNCHANGED <<solVersion, pageTransfers>>
    BY <1>1, <1>5, ClickAsks DEF Planning!Cancel, Planning!Click, Planning!server
  <2>2. Planning!Writes(u, [open |-> FALSE]) /\ DOMAIN [open |-> FALSE] \cap ChosenFields = {}
    BY <1>5 DEF Planning!Cancel, ChosenFields
  <2> QED
    BY <2>1, <2>2, ChosenUnseen DEF KeepsAsking
<1>6. ASSUME Planning!SolutionsTable(u) PROVE ChosenInv'
  <2>1. PICK stores : /\ Planning!Writes(u, stores) /\ DOMAIN stores = {"listed", "row"}
                      /\ Planning!Done(u, "solutionsTable", {"solutionRow"})
                      /\ UNCHANGED <<solVersion, pageTransfers>>
    BY <1>6 DEF Planning!SolutionsTable, Planning!server
  <2>2. DOMAIN stores \cap ChosenFields = {}
    BY <2>1 DEF ChosenFields
  <2>3. DOMAIN pagesAsked' = User /\ \A v \in User : DOMAIN pagesAsked'[v] = Planning!Callback
    BY <1>1, <2>1, CallbackAsks, CallbackOf
  <2> QED
    BY <2>1, <2>2, <2>3, ChosenUnseen
<1>7. ASSUME Planning!SolutionSelected(u) PROVE ChosenInv'
  <2>1. PICK stores : /\ Planning!Writes(u, stores) /\ DOMAIN stores = {"solution"}
                      /\ Planning!Done(u, "solutionSelected", {"solution"})
                      /\ UNCHANGED <<solVersion, pageTransfers>>
    BY <1>7 DEF Planning!SolutionSelected, Planning!server
  <2>2. DOMAIN stores \cap ChosenFields = {}
    BY <2>1 DEF ChosenFields
  <2>3. DOMAIN pagesAsked' = User /\ \A v \in User : DOMAIN pagesAsked'[v] = Planning!Callback
    BY <1>1, <2>1, CallbackAsks, CallbackOf
  <2> QED
    BY <2>1, <2>2, <2>3, ChosenUnseen
<1> QED
  BY <1>2, <1>3, <1>4, <1>5, <1>6, <1>7

LEMMA ChosenLot ==
  ASSUME ChosenInv, NEW u \in User, NEW l \in LotId, Planning!ChooseLot(u, l)
  PROVE  ChosenInv'
<1>1. PICK row : row = [lot |-> l, orders |-> Planning!Lots(pages[u].table)[l], seen |-> pages[u].table]
  OBVIOUS
<1>2. /\ Planning!Writes(u, [lotRow |-> row]) /\ l \in DOMAIN Planning!Lots(pages[u].table)
      /\ KeepsAsking /\ UNCHANGED <<solVersion, pageTransfers>>
  BY <1>1, ClickAsks DEF Planning!ChooseLot, Planning!Click, Planning!server, ChosenInv
<1>3. PageChosen(pages[u])
  BY DEF ChosenInv
<1>4. SeenIn(row.lot, row.orders, row.seen)
  <2>1. pages[u].table.of # None
    BY <1>2 DEF Planning!Lots
  <2>2. Planning!Lots(pages[u].table) = Contents[pages[u].table.of][pages[u].table.version]
    BY <2>1 DEF Planning!Lots
  <2> QED
    BY <1>1, <1>2, <1>3, <2>1, <2>2 DEF SeenIn, PageChosen
<1>5. /\ pages'[u].table = pages[u].table /\ pages'[u].lotRow = row
      /\ pages'[u].dialog = pages[u].dialog /\ pages'[u].starting = pages[u].starting
  BY <1>2, Written DEF ChosenInv, PageField
<1>6. PageChosen(pages'[u])
  BY <1>3, <1>4, <1>5 DEF PageChosen
<1> QED
  BY <1>2, <1>6, ChosenStays DEF KeepsAsking

(* Orders are chosen in the dialog before a transfer begins.                *)
LEMMA ChosenOrders ==
  ASSUME ChosenInv, NEW u \in User, NEW os, Planning!ChooseOrders(u, os)
  PROVE  ChosenInv'
<1>1. PICK dialog : dialog = [pages[u].dialog EXCEPT !.orders = os]
  OBVIOUS
<1>2. /\ Planning!Writes(u, [dialog |-> dialog]) /\ os \subseteq pages[u].dialog.listed
      /\ pages[u].starting.at = "idle"
      /\ KeepsAsking /\ UNCHANGED <<solVersion, pageTransfers>>
  BY <1>1, ClickAsks DEF Planning!ChooseOrders, Planning!Click, Planning!Idle, Planning!server, ChosenInv
<1>3. PageChosen(pages[u])
  BY DEF ChosenInv
<1>4. /\ DOMAIN dialog = {"lot", "orders", "listed", "seen"} /\ dialog.orders = os
      /\ dialog.lot = pages[u].dialog.lot /\ dialog.listed = pages[u].dialog.listed
      /\ dialog.seen = pages[u].dialog.seen
  BY <1>1, <1>3 DEF PageChosen
<1>5. /\ pages'[u].table = pages[u].table /\ pages'[u].lotRow = pages[u].lotRow
      /\ pages'[u].dialog = dialog /\ pages'[u].starting = pages[u].starting
  BY <1>2, Written DEF ChosenInv, PageField
<1>6. PageChosen(pages'[u])
  BY <1>2, <1>3, <1>4, <1>5 DEF PageChosen
<1> QED
  BY <1>2, <1>6, ChosenStays DEF KeepsAsking

LEMMA ChosenTable ==
  ASSUME ChosenInv, NEW u \in User, Planning!SolutionChanged(u)
  PROVE  ChosenInv'
<1>1. PICK table : table = Planning!Shown(u)
  OBVIOUS
<1>2. PICK written : /\ Planning!Writes(u, [table |-> table, lotRow |-> None])
                     /\ Planning!Done(u, "solutionChanged", written)
                     /\ UNCHANGED <<solVersion, pageTransfers>>
  BY <1>1 DEF Planning!SolutionChanged, Planning!server
<1>3. PageChosen(pages[u])
  BY DEF ChosenInv
<1>4. table.of # None => table.of \in Solution /\ table.version \in 1 .. 2
  BY <1>1 DEF Planning!Shown, Planning!EmptyTable, ChosenInv
<1>5. /\ pages'[u].table = table /\ pages'[u].lotRow = None
      /\ pages'[u].dialog = pages[u].dialog /\ pages'[u].starting = pages[u].starting
  BY <1>2, Written DEF ChosenInv, PageField
<1>6. PageChosen(pages'[u])
  BY <1>3, <1>4, <1>5 DEF PageChosen
<1>7. DOMAIN pagesAsked' = User /\ \A v \in User : DOMAIN pagesAsked'[v] = Planning!Callback
  BY <1>2, CallbackAsks, CallbackOf DEF ChosenInv
<1> QED
  BY <1>2, <1>6, <1>7, ChosenStays

(* The dialog opens on the row that is selected, or shows no orders.        *)
LEMMA ChosenDialog ==
  ASSUME ChosenInv, NEW u \in User, Planning!LotRowSelected(u)
  PROVE  ChosenInv'
<1>1. PICK row : row = pages[u].lotRow
  OBVIOUS
<1>2. PICK none : none = (row = None \/ pages[u].solution = Planning!Snapshot)
  OBVIOUS
<1>3. PICK dialog : dialog = IF none THEN [Planning!NoLot EXCEPT !.lot = pages[u].dialog.lot]
                             ELSE [lot |-> row.lot, orders |-> row.orders, listed |-> row.orders, seen |-> row.seen]
  OBVIOUS
<1>4. \E open2, left2, written :
        /\ Planning!Writes(u, [dialog |-> dialog, open |-> open2, left |-> left2])
        /\ Planning!Done(u, "lotRowSelected", written)
  BY <1>1, <1>2, <1>3, Zenon DEF Planning!LotRowSelected
<1>5. PICK stores, written :
        /\ Planning!Writes(u, stores) /\ DOMAIN stores = {"dialog", "open", "left"} /\ stores["dialog"] = dialog
        /\ Planning!Done(u, "lotRowSelected", written)
  BY <1>4
<1>6. UNCHANGED <<solVersion, pageTransfers>> /\ pages[u].starting.at = "idle"
  BY DEF Planning!LotRowSelected, Planning!Ready, Planning!Idle
<1>7. PageChosen(pages[u])
  BY DEF ChosenInv
<1>8. /\ DOMAIN dialog = {"lot", "orders", "listed", "seen"} /\ dialog.orders = dialog.listed
      /\ dialog.listed = {} \/ SeenIn(dialog.lot, dialog.listed, dialog.seen)
  <2>1. CASE none
    BY <1>3, <2>1 DEF Planning!NoLot
  <2>2. CASE ~none
    <3>1. SeenIn(row.lot, row.orders, row.seen)
      BY <1>1, <1>2, <1>7, <2>2 DEF PageChosen
    <3> QED
      BY <1>3, <2>2, <3>1
  <2> QED
    BY <2>1, <2>2
<1>9. /\ pages'[u].table = pages[u].table /\ pages'[u].lotRow = pages[u].lotRow
      /\ pages'[u].dialog = dialog /\ pages'[u].starting = pages[u].starting
  BY <1>5, Written DEF ChosenInv, PageField
<1>10. PageChosen(pages'[u])
  BY <1>6, <1>7, <1>8, <1>9 DEF PageChosen
<1>11. DOMAIN pagesAsked' = User /\ \A v \in User : DOMAIN pagesAsked'[v] = Planning!Callback
  BY <1>5, CallbackAsks, CallbackOf DEF ChosenInv
<1> QED
  BY <1>5, <1>6, <1>10, <1>11, ChosenStays

(* A transfer begins with orders chosen.                                    *)
LEMMA ChosenCheck ==
  ASSUME ChosenInv, NEW u \in User, Planning!CheckStart(u)
  PROVE  ChosenInv'
<1>1. PICK starts : starts = (~Planning!Runs /\ Planning!Complete(u) /\ "start" \in pagesAsked[u]["checkStart"])
  OBVIOUS
<1>2. Planning!Done(u, "checkStart", {}) /\ UNCHANGED <<solVersion, pageTransfers>>
  BY DEF Planning!CheckStart, Planning!server
<1>3. DOMAIN pagesAsked' = User /\ \A v \in User : DOMAIN pagesAsked'[v] = Planning!Callback
  BY <1>2, CallbackAsks, CallbackOf DEF ChosenInv
<1>4. CASE ~Planning!Choosable(u)
  <2>1. \E left2 : Planning!Writes(u, [polls |-> FALSE, startable |-> FALSE, left |-> left2])
    BY <1>4 DEF Planning!CheckStart
  <2>2. PICK stores : Planning!Writes(u, stores) /\ DOMAIN stores = {"polls", "startable", "left"}
    BY <2>1
  <2>3. DOMAIN stores \cap ChosenFields = {}
    BY <2>2 DEF ChosenFields
  <2> QED
    BY <1>2, <1>3, <2>2, <2>3, ChosenUnseen
<1>5. CASE Planning!Choosable(u)
  <2>1. \E polls2, startable2, told2 :
          Planning!Writes(u, [polls |-> polls2, startable |-> startable2, told |-> told2,
                              starting |-> [at |-> IF starts THEN "load" ELSE "idle"]])
    BY <1>1, <1>5 DEF Planning!CheckStart
  <2>2. PICK stores : /\ Planning!Writes(u, stores) /\ DOMAIN stores = {"polls", "startable", "told", "starting"}
                      /\ stores["starting"] = [at |-> IF starts THEN "load" ELSE "idle"]
    BY <2>1
  <2>3. /\ pages'[u].table = pages[u].table /\ pages'[u].lotRow = pages[u].lotRow
        /\ pages'[u].dialog = pages[u].dialog /\ pages'[u].starting.at = IF starts THEN "load" ELSE "idle"
    BY <2>2, Written DEF ChosenInv, PageField
  <2>4. starts => pages[u].dialog.orders # {}
    BY <1>1 DEF Planning!Complete
  <2>5. PageChosen(pages[u])
    BY DEF ChosenInv
  <2>6. PageChosen(pages'[u])
    BY <2>3, <2>4, <2>5 DEF PageChosen
  <2> QED
    BY <1>2, <1>3, <2>2, <2>6, ChosenStays
<1> QED
  BY <1>4, <1>5

(* The orders carried are those of the lot or, if there are fewer, those    *)
(* chosen.                                                                  *)
LEMMA PageCardinality ==
  \A S : Planning!IsFiniteSet(S) = IsFiniteSet(S) /\ Planning!Cardinality(S) = Cardinality(S)
<1>1. \A S : Planning!IsFiniteSet(S) = IsFiniteSet(S)
  BY DEF Planning!IsFiniteSet, IsFiniteSet
<1> QED
  BY <1>1 DEF Planning!Cardinality, Cardinality

LEMMA CarriedWhole ==
  ASSUME PartsAssumption, NEW orders \in SUBSET Order, NEW chosen \in SUBSET orders
  PROVE  Planning!Carried(chosen, orders) = chosen
<1>1. IsFiniteSet(Order)
  BY PageCardinality DEF PartsAssumption, Planning!PlanningAssumption
<1>2. IsFiniteSet(orders)
  BY <1>1, FS_Subset
<1>3. Cardinality(chosen) = Cardinality(orders) => chosen = orders
  BY <1>2, FS_Subset
<1> QED
  BY <1>3, PageCardinality DEF Planning!Carried

LEMMA LotOfContent ==
  ASSUME PartsAssumption, NEW s \in Solution, NEW v \in 1 .. 2, NEW l \in DOMAIN Contents[s][v]
  PROVE  Contents[s][v][l] \in SUBSET Order \ {{}}
<1>1. Contents[s][v] \in [DOMAIN Contents[s][v] -> SUBSET Order \ {{}}]
  BY Zenon DEF PartsAssumption, Planning!PlanningAssumption
<1> QED
  BY <1>1

LEMMA ChosenLoad ==
  ASSUME PartsAssumption, ChosenInv, NEW u \in User, Planning!LoadLot(u)
  PROVE  ChosenInv'
<1>1. /\ UNCHANGED <<solVersion, pageTransfers, pagesAsked>> /\ pages[u].starting.at = "load"
  BY DEF Planning!LoadLot, Planning!server
<1>2. DOMAIN pagesAsked' = User /\ \A v \in User : DOMAIN pagesAsked'[v] = Planning!Callback
  BY <1>1 DEF ChosenInv, PageFields
<1>3. PageChosen(pages[u])
  BY DEF ChosenInv
<1>4. CASE ~(Planning!Found(u) /\ transferThread = None)
  <2>1. Planning!Fails(u)
    BY <1>4 DEF Planning!LoadLot
  <2>2. PICK stores : /\ Planning!Writes(u, stores) /\ stores["starting"] = [at |-> "idle"]
                      /\ DOMAIN stores = {"starting", "transferred", "told", "left", "polls", "startable"}
    BY <2>1 DEF Planning!Fails, Planning!NoStart
  <2>3. /\ pages'[u].table = pages[u].table /\ pages'[u].lotRow = pages[u].lotRow
        /\ pages'[u].dialog = pages[u].dialog /\ pages'[u].starting.at = "idle"
    BY <2>2, Written DEF ChosenInv, PageField
  <2>4. PageChosen(pages'[u])
    BY <2>3, <1>3 DEF PageChosen
  <2> QED
    BY <1>1, <1>2, <2>2, <2>4, ChosenStays
<1>5. CASE Planning!Found(u) /\ transferThread = None
  <2> DEFINE s == pages[u].solution
             l == pages[u].dialog.lot
             os == pages[u].dialog.orders
  <2>1. PICK new : new = [at |-> "begin", lot |-> l, process |-> pages[u].process, chosen |-> os,
                          carried |-> Planning!Carried(os, Planning!Stored(s)[l]),
                          inStep |-> pages[u].dialog.seen = Planning!Shown(u)]
    OBVIOUS
  <2>2. Planning!Writes(u, [starting |-> new])
    BY <1>5, <2>1 DEF Planning!LoadLot
  <2>3. /\ pages'[u].table = pages[u].table /\ pages'[u].lotRow = pages[u].lotRow
        /\ pages'[u].dialog = pages[u].dialog /\ pages'[u].starting = new
    BY <2>2, Written DEF ChosenInv, PageField
  <2>4. AsChosen(new)
    <3>1. SUFFICES ASSUME new.inStep PROVE new.carried = new.chosen /\ new.chosen # {}
            /\ \E r \in Solution, v \in 1 .. 2 :
                 ProcessOf[r] = new.process /\ new.lot \in DOMAIN Contents[r][v] /\ new.chosen \subseteq Contents[r][v][new.lot]
      BY DEF AsChosen
    <3>2. /\ s \in Solution /\ ProcessOf[s] = pages[u].process
          /\ l \in DOMAIN Planning!Stored(s) /\ solVersion[s] \in 1 .. 2
      BY <1>5 DEF Planning!Found, ChosenInv
    <3>3. pages[u].dialog.seen = [of |-> s, version |-> solVersion[s]]
      BY <2>1, <3>1, <3>2 DEF Planning!Shown
    <3>4. os # {} /\ os \subseteq pages[u].dialog.listed
      BY <1>1, <1>3 DEF PageChosen
    <3>5. SeenIn(l, pages[u].dialog.listed, pages[u].dialog.seen)
      BY <1>3, <3>4 DEF PageChosen
    <3>6. pages[u].dialog.listed = Planning!Stored(s)[l]
      BY <3>3, <3>5 DEF SeenIn, Planning!Stored
    <3>7. Planning!Stored(s)[l] \in SUBSET Order
      BY <3>2, LotOfContent DEF Planning!Stored
    <3>8. Planning!Carried(os, Planning!Stored(s)[l]) = os
      BY <3>4, <3>6, <3>7, CarriedWhole
    <3> QED
      BY <2>1, <3>2, <3>4, <3>6, <3>8 DEF Planning!Stored
  <2>5. PageChosen(pages'[u])
    BY <1>3, <2>1, <2>3, <2>4 DEF PageChosen
  <2> QED
    BY <1>1, <1>2, <2>2, <2>5, ChosenStays
<1> QED
  BY <1>4, <1>5

LEMMA ChosenStart ==
  ASSUME ChosenInv, NEW u \in User, Planning!StartThread(u)
  PROVE  ChosenInv'
<1>1. PICK new : new = pages[u].starting
  OBVIOUS
<1>2. /\ UNCHANGED <<solVersion, pagesAsked>> /\ new.at = "begin"
      /\ pageTransfers' = Append(pageTransfers, new)
  BY <1>1 DEF Planning!StartThread
<1>3. \E id : Planning!Writes(u, [starting |-> [at |-> "idle"], transferred |-> id, told |-> None, left |-> FALSE,
                                  polls |-> TRUE, startable |-> FALSE])
  BY DEF Planning!StartThread, Planning!NoStart
<1>4. PICK stores : /\ Planning!Writes(u, stores) /\ stores["starting"] = [at |-> "idle"]
                    /\ DOMAIN stores = {"starting", "transferred", "told", "left", "polls", "startable"}
  BY <1>3
<1>5. /\ pages'[u].table = pages[u].table /\ pages'[u].lotRow = pages[u].lotRow
      /\ pages'[u].dialog = pages[u].dialog /\ pages'[u].starting.at = "idle"
  BY <1>4, Written DEF ChosenInv, PageField
<1>6. PageChosen(pages[u])
  BY DEF ChosenInv
<1>7. PageChosen(pages'[u])
  BY <1>5, <1>6 DEF PageChosen
<1>8. AsChosen(new)
  BY <1>1, <1>2, <1>6 DEF PageChosen
<1>9. /\ DOMAIN pages' = User /\ \A v \in User : DOMAIN pages'[v] = PageField
      /\ \A v \in User \ {u} : pages'[v] = pages[v]
  BY <1>4, Written DEF ChosenInv
<1>10. PageFields'
  BY <1>2, <1>9 DEF PageFields, ChosenInv
<1>11. \A v \in User : PageChosen(pages[v])'
  <2>1. ASSUME NEW v \in User PROVE PageChosen(pages'[v])
    BY <1>7, <1>9, Zenon DEF ChosenInv
  <2> QED
    BY <2>1 DEF PageChosen
<1>12. pageTransfers \in Seq(Planning!ToSet(pageTransfers))
  BY DEF ChosenInv, IsSeq
<1>13. /\ Len(pageTransfers') = Len(pageTransfers) + 1 /\ Len(pageTransfers) \in Nat
       /\ DOMAIN pageTransfers' = 1 .. Len(pageTransfers) + 1 /\ DOMAIN pageTransfers = 1 .. Len(pageTransfers)
       /\ \A i \in 1 .. Len(pageTransfers) : pageTransfers'[i] = pageTransfers[i]
       /\ pageTransfers'[Len(pageTransfers) + 1] = new
  <2> DEFINE T == Planning!ToSet(pageTransfers) \cup {new}
  <2>1. pageTransfers \in Seq(T) /\ new \in T
    BY <1>12
  <2> QED
    BY <2>1, <1>2, AppendProperties
<1>14. IsSeq(pageTransfers)'
  <2>1. \A i \in 1 .. Len(pageTransfers') : pageTransfers'[i] \in Planning!ToSet(pageTransfers')
    BY <1>13 DEF Planning!ToSet
  <2>2. pageTransfers' = [i \in 1 .. Len(pageTransfers') |-> pageTransfers'[i]]
    <3>1. \E T : pageTransfers' \in Seq(T)
      <4>1. pageTransfers \in Seq(Planning!ToSet(pageTransfers) \cup {new})
        BY <1>12
      <4> QED
        BY <1>2, <4>1, AppendProperties
    <3> QED
      BY <3>1
  <2>3. Len(pageTransfers') \in Nat
    BY <1>13
  <2> QED
    BY <2>1, <2>2, <2>3 DEF IsSeq
<1>15. \A i \in DOMAIN pageTransfers' : AsChosen(pageTransfers'[i])
  BY <1>8, <1>13 DEF ChosenInv
<1>16. \A i \in DOMAIN pageTransfers' : AsChosen(pageTransfers[i])'
  BY <1>15 DEF AsChosen
<1> QED
  BY <1>2, <1>10, <1>11, <1>14, <1>16 DEF ChosenInv

LEMMA ChosenImprove ==
  ASSUME ChosenInv, NEW s \in Solution, Planning!Improve(s)
  PROVE  ChosenInv'
<1>1. /\ solVersion' = [solVersion EXCEPT ![s] = 2] /\ UNCHANGED <<pages, pagesAsked, pageTransfers>>
  BY DEF Planning!Improve, Planning!server
<1>2. solVersion' \in [Solution -> 1 .. 2]
  BY <1>1 DEF ChosenInv
<1>3. PageFields' /\ IsSeq(pageTransfers)'
  BY <1>1 DEF ChosenInv, PageFields, IsSeq
<1>4. (\A u \in User : PageChosen(pages[u]))' /\ (\A i \in DOMAIN pageTransfers : AsChosen(pageTransfers[i]))'
  BY <1>1 DEF ChosenInv
<1> QED
  BY <1>2, <1>3, <1>4 DEF ChosenInv

LEMMA ChosenUnchanged ==
  ASSUME ChosenInv, UNCHANGED <<solVersion, pages, pagesAsked, pageTransfers>>
  PROVE  ChosenInv'
<1>1. PageFields' /\ IsSeq(pageTransfers)'
  BY DEF ChosenInv, PageFields, IsSeq
<1>2. (\A u \in User : PageChosen(pages[u]))' /\ (\A i \in DOMAIN pageTransfers : AsChosen(pageTransfers[i]))'
  BY DEF ChosenInv
<1> QED
  BY <1>1, <1>2 DEF ChosenInv

LEMMA ChosenNext ==
  ASSUME PartsAssumption, ChosenInv, Planning!Next
  PROVE  ChosenInv'
<1>1. ASSUME NEW u \in User,
             \/ \E p \in Process : Planning!ChooseProcess(u, p)
             \/ \E s \in Solution \cup {Planning!Snapshot} : Planning!ChooseSolution(u, s)
             \/ Planning!PressStart(u) \/ Planning!Cancel(u) \/ Planning!Poll(u)
             \/ Planning!SolutionsTable(u) \/ Planning!SolutionSelected(u)
      PROVE  ChosenInv'
  BY <1>1, ChosenQuiet
<1>2. ASSUME NEW u \in User,
             \/ \E l \in LotId : Planning!ChooseLot(u, l)
             \/ \E os \in SUBSET Order : Planning!ChooseOrders(u, os)
             \/ Planning!SolutionChanged(u) \/ Planning!LotRowSelected(u)
             \/ Planning!CheckStart(u) \/ Planning!LoadLot(u) \/ Planning!StartThread(u)
      PROVE  ChosenInv'
  BY <1>2, ChosenLot, ChosenOrders, ChosenTable, ChosenDialog, ChosenCheck, ChosenLoad, ChosenStart
<1>3. ASSUME NEW s \in Solution, Planning!Improve(s) PROVE ChosenInv'
  BY <1>3, ChosenImprove
<1>4. ASSUME NEW id, Planning!EndThread(id) PROVE ChosenInv'
  <2>1. UNCHANGED <<solVersion, pages, pagesAsked, pageTransfers>>
    BY <1>4 DEF Planning!EndThread
  <2> QED
    BY <2>1, ChosenUnchanged
<1> QED
  BY <1>1, <1>2, <1>3, <1>4, Zenon DEF Planning!Next

(* What becomes of the answers.                                             *)
AnswerFields == {"starting", "transferred", "told", "left", "polls"}

(* A step that writes one page and keeps what the others wait for.          *)
LEMMA AnswersStay ==
  ASSUME PageFields, AnswerInv, NEW u \in User, NEW stores, Planning!Writes(u, stores),
         transferThread' \in Number' \cup {None}, answers' \in Seq(Nat), Number \subseteq Number',
         pages'[u].transferred \in Number' \cup {None},
         \A v \in User \ {u} : pages[v].transferred = pages'[u].transferred => pages'[u].transferred = None,
         \A v \in User \ {u} : pagesAsked[v]["checkStart"] # {} => pagesAsked'[v]["checkStart"] # {},
         lostTransfers \subseteq lostTransfers',
         \A v \in User \ {u} : LET id == pages[v].transferred IN
           id # None /\ id \notin lostTransfers' /\ (id = transferThread \/ id \in Planning!ToSet(answers))
             => id = transferThread' \/ id \in Planning!ToSet(answers'),
         Awaited(u)'
  PROVE  AnswerInv'
<1>1. \A v \in User \ {u} : pages'[v] = pages[v]
  BY Written
<1>2. ASSUME NEW v \in User \ {u} PROVE Awaited(v)'
  BY <1>1, <1>2 DEF Awaited, AnswerInv
<1>3. \A v \in User : Awaited(v)'
  BY <1>2
<1>4. \A v \in User : pages'[v].transferred \in Number' \cup {None}
  BY <1>1 DEF AnswerInv
<1>5. \A v, w \in User :
        v # w /\ pages'[v].transferred = pages'[w].transferred => pages'[v].transferred = None
  BY <1>1 DEF AnswerInv
<1> QED
  BY <1>3, <1>4, <1>5 DEF AnswerInv

LEMMA AnswersQuiet ==
  ASSUME PageFields, AnswerInv, NEW u \in User, KeepsAsking,
         UNCHANGED <<transferThread, answers, pageTransfers, lostTransfers>>,
         \/ UNCHANGED pages
         \/ \E stores : Planning!Writes(u, stores) /\ DOMAIN stores \cap AnswerFields = {}
  PROVE  AnswerInv'
<1>1. Number' = Number /\ Planning!ToSet(answers)' = Planning!ToSet(answers)
  BY DEF Number, Planning!ToSet
<1>2. CASE UNCHANGED pages
  <2>1. \A v \in User : Awaited(v)'
    BY <1>1, <1>2 DEF AnswerInv, Awaited, KeepsAsking
  <2> QED
    BY <1>1, <1>2, <2>1 DEF AnswerInv
<1>3. ASSUME NEW stores, Planning!Writes(u, stores), DOMAIN stores \cap AnswerFields = {} PROVE AnswerInv'
  <2>1. /\ pages'[u].starting = pages[u].starting /\ pages'[u].transferred = pages[u].transferred
        /\ pages'[u].told = pages[u].told /\ pages'[u].left = pages[u].left /\ pages'[u].polls = pages[u].polls
    BY <1>3, Written DEF AnswerFields, PageField
  <2>2. Awaited(u)'
    BY <1>1, <2>1 DEF AnswerInv, Awaited, KeepsAsking
  <2>3. \A v \in User \ {u} : pages[v].transferred = pages'[u].transferred => pages'[u].transferred = None
    BY <2>1 DEF AnswerInv
  <2>4. /\ transferThread' \in Number' \cup {None} /\ answers' \in Seq(Nat)
        /\ pages'[u].transferred \in Number' \cup {None}
    BY <1>1, <2>1 DEF AnswerInv
  <2>5. \A v \in User \ {u} : pagesAsked[v]["checkStart"] # {} => pagesAsked'[v]["checkStart"] # {}
    BY DEF KeepsAsking
  <2> QED
    BY <1>1, <1>3, <2>2, <2>3, <2>4, <2>5, AnswersStay
<1> QED
  BY <1>2, <1>3

LEMMA AnswersClick ==
  ASSUME PageFields, AnswerInv, NEW u \in User,
         \/ \E p \in Process : Planning!ChooseProcess(u, p)
         \/ \E s \in Solution \cup {Planning!Snapshot} : Planning!ChooseSolution(u, s)
         \/ \E l \in LotId : Planning!ChooseLot(u, l)
         \/ \E os \in SUBSET Order : Planning!ChooseOrders(u, os)
         \/ Planning!PressStart(u) \/ Planning!Cancel(u) \/ Planning!Poll(u)
  PROVE  AnswerInv'
<1>1. UNCHANGED <<transferThread, answers, pageTransfers, lostTransfers>>
  BY DEF Planning!ChooseProcess, Planning!ChooseSolution, Planning!ChooseLot, Planning!ChooseOrders,
         Planning!PressStart, Planning!Cancel, Planning!Poll, Planning!server
<1>2. \E written : pagesAsked' = [pagesAsked EXCEPT ![u] = Planning!Asked(@, written)]
  BY DEF Planning!ChooseProcess, Planning!ChooseSolution, Planning!ChooseLot, Planning!ChooseOrders,
         Planning!PressStart, Planning!Cancel, Planning!Poll, Planning!Click
<1>3. KeepsAsking
  BY <1>2, ClickAsks
<1>4. \/ UNCHANGED pages
      \/ \E x : \/ Planning!Writes(u, [process |-> x]) \/ Planning!Writes(u, [row |-> x])
               \/ Planning!Writes(u, [lotRow |-> x]) \/ Planning!Writes(u, [dialog |-> x])
               \/ Planning!Writes(u, [open |-> x])
  <2>1. ASSUME NEW p \in Process, Planning!ChooseProcess(u, p) PROVE \E x : Planning!Writes(u, [process |-> x])
    BY <2>1, Zenon DEF Planning!ChooseProcess
  <2>2. ASSUME NEW s, Planning!ChooseSolution(u, s) PROVE \E x : Planning!Writes(u, [row |-> x])
    BY <2>2, Zenon DEF Planning!ChooseSolution
  <2>3. ASSUME NEW l, Planning!ChooseLot(u, l) PROVE \E x : Planning!Writes(u, [lotRow |-> x])
    BY <2>3, Zenon DEF Planning!ChooseLot
  <2>4. ASSUME NEW os, Planning!ChooseOrders(u, os) PROVE \E x : Planning!Writes(u, [dialog |-> x])
    BY <2>4, Zenon DEF Planning!ChooseOrders
  <2>5. ASSUME Planning!Cancel(u) PROVE \E x : Planning!Writes(u, [open |-> x])
    BY <2>5, Zenon DEF Planning!Cancel
  <2>6. ASSUME Planning!PressStart(u) \/ Planning!Poll(u) PROVE UNCHANGED pages
    BY <2>6 DEF Planning!PressStart, Planning!Poll
  <2> QED
    BY <2>1, <2>2, <2>3, <2>4, <2>5, <2>6, Zenon
<1>5. ASSUME NEW x
      PROVE  /\ DOMAIN [process |-> x] \cap AnswerFields = {} /\ DOMAIN [row |-> x] \cap AnswerFields = {}
             /\ DOMAIN [lotRow |-> x] \cap AnswerFields = {} /\ DOMAIN [dialog |-> x] \cap AnswerFields = {}
             /\ DOMAIN [open |-> x] \cap AnswerFields = {}
  BY DEF AnswerFields
<1>6. UNCHANGED pages \/ \E stores : Planning!Writes(u, stores) /\ DOMAIN stores \cap AnswerFields = {}
  BY <1>4, <1>5, Zenon
<1> QED
  BY <1>1, <1>3, <1>6, AnswersQuiet

(* Callbacks that have nothing to do with transfers.                        *)
LEMMA AnswersSelect ==
  ASSUME PageFields, AnswerInv, NEW u \in User,
         Planning!SolutionsTable(u) \/ Planning!SolutionSelected(u) \/ Planning!SolutionChanged(u)
  PROVE  AnswerInv'
<1>1. UNCHANGED <<transferThread, answers, pageTransfers, lostTransfers>>
  BY DEF Planning!SolutionsTable, Planning!SolutionSelected, Planning!SolutionChanged, Planning!server
<1>2. \E c \in Planning!Callback \ {"checkStart"} : \E written : Planning!Done(u, c, written)
  BY CallbackOf DEF Planning!SolutionsTable, Planning!SolutionSelected, Planning!SolutionChanged
<1>3. KeepsAsking
  BY <1>2, CallbackAsks DEF KeepsAsking
<1>4. PICK stores : Planning!Writes(u, stores) /\ DOMAIN stores \subseteq {"listed", "row", "solution", "table", "lotRow"}
  <2>1. ASSUME Planning!SolutionsTable(u)
        PROVE  \E x, y : Planning!Writes(u, [listed |-> x, row |-> y])
    BY <2>1, Zenon DEF Planning!SolutionsTable
  <2>2. ASSUME Planning!SolutionSelected(u) PROVE \E x : Planning!Writes(u, [solution |-> x])
    BY <2>2, Zenon DEF Planning!SolutionSelected
  <2>3. ASSUME Planning!SolutionChanged(u) PROVE \E x, y : Planning!Writes(u, [table |-> x, lotRow |-> y])
    BY <2>3, Zenon DEF Planning!SolutionChanged
  <2>4. ASSUME NEW x, NEW y
        PROVE  /\ DOMAIN [listed |-> x, row |-> y] = {"listed", "row"}
               /\ DOMAIN [solution |-> x] = {"solution"} /\ DOMAIN [table |-> x, lotRow |-> y] = {"table", "lotRow"}
    OBVIOUS
  <2> QED
    BY <2>1, <2>2, <2>3, <2>4
<1>5. DOMAIN stores \cap AnswerFields = {}
  BY <1>4 DEF AnswerFields
<1> QED
  BY <1>1, <1>3, <1>4, <1>5, AnswersQuiet

(* The answer a page takes is its own: those of the others stay.            *)
LEMMA OthersStay ==
  ASSUME answers \in Seq(Nat), NEW id
  PROVE  /\ Planning!Without(id) \in Seq(Nat)
         /\ \A other \in Planning!ToSet(answers) : other # id => other \in Planning!ToSet(Planning!Without(id))
         /\ id \notin Planning!ToSet(answers) => Planning!Without(id) = answers
<1>1. CASE id \notin Planning!ToSet(answers)
  BY <1>1 DEF Planning!Without
<1>2. CASE id \in Planning!ToSet(answers)
  <2>1. PICK place : place = Planning!Position(id)
    OBVIOUS
  <2>2. place \in 1 .. Len(answers) /\ answers[place] = id
    BY <1>2, <2>1 DEF Planning!Position, Planning!ToSet
  <2>3. PICK rest : rest = Moves!RemoveAt(answers, place)
    OBVIOUS
  <2>4. Planning!Without(id) = rest
    BY <1>2, <2>1, <2>3 DEF Planning!Without, Planning!RemoveAt, Moves!RemoveAt
  <2>5. /\ rest \in Seq(Nat) /\ Len(rest) = Len(answers) - 1
        /\ \A i \in 1 .. Len(answers) - 1 : rest[i] = IF i < place THEN answers[i] ELSE answers[i + 1]
    BY <2>2, <2>3, RemovedAt
  <2>6. ASSUME NEW other \in Planning!ToSet(answers), other # id PROVE other \in Planning!ToSet(rest)
    <3>1. PICK k \in 1 .. Len(answers) : answers[k] = other
      BY DEF Planning!ToSet
    <3>2. CASE k < place
      <4>1. k \in 1 .. Len(answers) - 1 /\ rest[k] = other
        BY <2>2, <2>5, <3>1, <3>2
      <4> QED
        BY <4>1, <2>5 DEF Planning!ToSet
    <3>3. CASE k >= place
      <4>1. k # place
        BY <2>2, <2>6, <3>1
      <4>2. k - 1 \in 1 .. Len(answers) - 1 /\ ~(k - 1 < place)
        BY <2>2, <3>3, <4>1
      <4>3. rest[k - 1] = other
        BY <2>5, <3>1, <4>2
      <4> QED
        BY <4>2, <4>3, <2>5 DEF Planning!ToSet
    <3> QED
      BY <2>2, <3>2, <3>3
  <2> QED
    BY <1>2, <2>4, <2>5, <2>6
<1> QED
  BY <1>1, <1>2

LEMMA AnswersDialog ==
  ASSUME PageFields, AnswerInv, NEW u \in User, Planning!LotRowSelected(u)
  PROVE  AnswerInv'
<1>1. PICK id : id = pages[u].transferred
  OBVIOUS
<1>2. PICK left2 : left2 = (pages[u].left \/ (id # None /\ id \in Planning!ToSet(answers) /\ pages[u].told # id))
  OBVIOUS
<1>3. /\ answers' = Planning!Without(id) /\ UNCHANGED <<transferThread, pageTransfers, lostTransfers>>
      /\ \E dialog2, open2, written :
           /\ Planning!Writes(u, [dialog |-> dialog2, open |-> open2, left |-> left2])
           /\ Planning!Done(u, "lotRowSelected", written)
  BY <1>1, <1>2, Zenon DEF Planning!LotRowSelected
<1>4. PICK stores, written :
        /\ Planning!Writes(u, stores) /\ DOMAIN stores = {"dialog", "open", "left"} /\ stores["left"] = left2
        /\ Planning!Done(u, "lotRowSelected", written)
  BY <1>3
<1>5. KeepsAsking
  BY <1>4, CallbackAsks, CallbackOf DEF KeepsAsking
<1>6. /\ pages'[u].starting = pages[u].starting /\ pages'[u].transferred = id /\ pages'[u].left = left2
      /\ pages'[u].told = pages[u].told /\ pages'[u].polls = pages[u].polls
  BY <1>1, <1>4, Written DEF PageField
<1>7. /\ answers' \in Seq(Nat)
      /\ \A other \in Planning!ToSet(answers) : other # id => other \in Planning!ToSet(answers')
      /\ id \notin Planning!ToSet(answers) => answers' = answers
  BY <1>3, OthersStay DEF AnswerInv
<1>8. Number' = Number
  BY <1>3 DEF Number
<1>9. Awaited(u)'
  <2>1. SUFFICES ASSUME id # None, pages[u].told # id, ~left2, id \notin lostTransfers
                 PROVE  /\ pages[u].polls \/ pagesAsked'[u]["checkStart"] # {} \/ pages[u].starting.at # "idle"
                        /\ id = transferThread \/ id \in Planning!ToSet(answers')
    BY <1>3, <1>6 DEF Awaited
  <2>2. ~pages[u].left /\ id \notin Planning!ToSet(answers)
    BY <1>2, <2>1
  <2>3. /\ pages[u].polls \/ pagesAsked[u]["checkStart"] # {} \/ pages[u].starting.at # "idle"
        /\ id = transferThread
    BY <1>1, <2>1, <2>2 DEF AnswerInv, Awaited
  <2> QED
    BY <1>5, <2>3 DEF KeepsAsking
<1>10. \A v \in User \ {u} : pages[v].transferred = id => id = None
  BY <1>1 DEF AnswerInv
<1>11. \A v \in User \ {u} : LET w == pages[v].transferred IN
         w # None /\ w \notin lostTransfers' /\ (w = transferThread \/ w \in Planning!ToSet(answers))
           => w = transferThread' \/ w \in Planning!ToSet(answers')
  BY <1>3, <1>7, <1>10
<1>12. /\ transferThread' \in Number' \cup {None} /\ Number \subseteq Number' /\ lostTransfers \subseteq lostTransfers'
       /\ pages'[u].transferred \in Number' \cup {None}
  BY <1>1, <1>3, <1>6, <1>8 DEF AnswerInv
<1>13. \A v \in User \ {u} : pagesAsked[v]["checkStart"] # {} => pagesAsked'[v]["checkStart"] # {}
  BY <1>5 DEF KeepsAsking
<1> QED
  BY <1>4, <1>6, <1>7, <1>9, <1>10, <1>11, <1>12, <1>13, AnswersStay

(* A thread that has ended leaves an answer, for which old ones may go.     *)
LEMMA Collecting ==
  ASSUME PartsAssumption, AnswerInv, Planning!Collected
  PROVE  /\ answers' = Planning!Kept /\ answers' \in Seq(Nat)
         /\ transferThread' = IF Planning!Ended THEN None ELSE transferThread
         /\ lostTransfers \subseteq lostTransfers'
         /\ \A id \in Planning!ToSet(answers) : id \in Planning!ToSet(answers') \/ id \in lostTransfers'
         /\ Planning!Ended => transferThread \in Planning!ToSet(answers')
<1>1. /\ answers' = Planning!Kept /\ transferThread' = IF Planning!Ended THEN None ELSE transferThread
      /\ lostTransfers \subseteq lostTransfers'
      /\ Planning!Ended =>
           lostTransfers' = lostTransfers \cup (Planning!ToSet(answers) \ Planning!ToSet(Planning!Kept))
  BY Zenon DEF Planning!Collected
<1>2. CASE ~Planning!Ended
  <2>1. answers' = answers
    BY <1>1, <1>2, Zenon DEF Planning!Kept
  <2> QED
    BY <1>1, <1>2, <2>1 DEF AnswerInv
<1>3. CASE Planning!Ended
  <2>1. transferThread \in Nat
    BY <1>3 DEF Planning!Ended, AnswerInv, Number
  <2>2. Planning!DropOldest \in Seq(Nat)
    <3>1. CASE ~(Len(answers) > MaxResults)
      BY <3>1 DEF Planning!DropOldest, AnswerInv
    <3>2. CASE Len(answers) > MaxResults
      <4>1. MaxResults \in Nat /\ answers \in Seq(Nat)
        BY DEF PartsAssumption, Planning!PlanningAssumption, AnswerInv
      <4>2. \A i \in Len(answers) - MaxResults + 1 .. Len(answers) : answers[i] \in Nat
        BY <3>2, <4>1
      <4>3. SubSeq(answers, Len(answers) - MaxResults + 1, Len(answers)) \in Seq(Nat)
        BY <3>2, <4>1, <4>2, SubSeqProperties
      <4> QED
        BY <3>2, <4>3 DEF Planning!DropOldest
    <3> QED
      BY <3>1, <3>2
  <2>3. answers' = Append(Planning!DropOldest, transferThread)
    BY <1>1, <1>3, Zenon DEF Planning!Kept
  <2>4. /\ answers' \in Seq(Nat) /\ Len(answers') = Len(Planning!DropOldest) + 1
        /\ answers'[Len(Planning!DropOldest) + 1] = transferThread /\ Len(Planning!DropOldest) \in Nat
    BY <2>1, <2>2, <2>3, AppendProperties
  <2>5. transferThread \in Planning!ToSet(answers')
    BY <2>4 DEF Planning!ToSet
  <2> QED
    BY <1>1, <1>3, <2>4, <2>5, Zenon
<1> QED
  BY <1>2, <1>3

LEMMA AnswersCheck ==
  ASSUME PartsAssumption, PageFields, AnswerInv, NEW u \in User, Planning!CheckStart(u)
  PROVE  AnswerInv'
<1>1. Planning!Done(u, "checkStart", {}) /\ UNCHANGED pageTransfers /\ pages[u].starting.at = "idle"
  BY DEF Planning!CheckStart, Planning!server, Planning!Ready, Planning!Idle
<1>2. \A v \in User \ {u} : pagesAsked[v]["checkStart"] # {} => pagesAsked'[v]["checkStart"] # {}
  BY <1>1, CallbackAsks, CallbackOf
<1>3. Number' = Number
  BY <1>1 DEF Number
<1>4. PICK id : id = pages[u].transferred
  OBVIOUS
<1>5. /\ id \in Number \cup {None}
      /\ \A v \in User \ {u} : pages[v].transferred = id => id = None
  BY <1>4 DEF AnswerInv
<1>6. CASE ~Planning!Choosable(u)
  <2>1. PICK left2 : left2 = (pages[u].left \/ pages[u].told # id)
    OBVIOUS
  <2>2. /\ Planning!Writes(u, [polls |-> FALSE, startable |-> FALSE, left |-> left2])
        /\ UNCHANGED <<transferThread, answers, lostTransfers>>
    BY <1>4, <1>6, <2>1 DEF Planning!CheckStart, Planning!server
  <2>3. PICK stores : /\ Planning!Writes(u, stores) /\ stores["left"] = left2
                      /\ DOMAIN stores = {"polls", "startable", "left"}
    BY <2>2
  <2>4. /\ pages'[u].transferred = id /\ pages'[u].left = left2 /\ pages'[u].told = pages[u].told
    BY <1>4, <2>3, Written DEF PageField
  <2>5. Awaited(u)'
    BY <2>1, <2>4 DEF Awaited
  <2>6. /\ transferThread' \in Number' \cup {None} /\ answers' \in Seq(Nat) /\ Number \subseteq Number'
        /\ lostTransfers \subseteq lostTransfers' /\ pages'[u].transferred \in Number' \cup {None}
    BY <1>3, <1>5, <2>2, <2>4 DEF AnswerInv
  <2> QED
    BY <1>2, <1>5, <2>2, <2>3, <2>4, <2>5, <2>6, AnswersStay
<1>7. CASE Planning!Choosable(u)
  <2>1. PICK told2, starting2 :
          /\ told2 = (IF id \in Planning!ToSet(Planning!Kept) THEN id ELSE pages[u].told)
          /\ Planning!Collected
          /\ Planning!Writes(u, [polls |-> Planning!Runs, startable |-> ~Planning!Runs /\ Planning!Complete(u),
                                 told |-> told2, starting |-> starting2])
    BY <1>4, <1>7, Zenon DEF Planning!CheckStart, Planning!Told
  <2>2. PICK stores : /\ Planning!Writes(u, stores) /\ stores["polls"] = Planning!Runs /\ stores["told"] = told2
                      /\ DOMAIN stores = {"polls", "startable", "told", "starting"}
    BY <2>1
  <2>3. /\ pages'[u].transferred = id /\ pages'[u].left = pages[u].left /\ pages'[u].told = told2
        /\ pages'[u].polls = Planning!Runs
    BY <1>4, <2>2, Written DEF PageField
  <2>4. /\ answers' = Planning!Kept /\ answers' \in Seq(Nat)
        /\ transferThread' = IF Planning!Ended THEN None ELSE transferThread
        /\ lostTransfers \subseteq lostTransfers'
        /\ \A w \in Planning!ToSet(answers) : w \in Planning!ToSet(answers') \/ w \in lostTransfers'
        /\ Planning!Ended => transferThread \in Planning!ToSet(answers')
    BY <2>1, Collecting
  <2>5. Awaited(u)'
    <3>1. SUFFICES ASSUME id # None, told2 # id, ~pages[u].left, id \notin lostTransfers'
                   PROVE  Planning!Runs /\ id = transferThread'
      BY <2>3 DEF Awaited
    <3>2. id \notin Planning!ToSet(answers') /\ pages[u].told # id
      BY <2>1, <2>4, <3>1
    <3>3. id = transferThread
      BY <1>4, <2>4, <3>1, <3>2 DEF AnswerInv, Awaited
    <3>4. ~Planning!Ended
      BY <2>4, <3>2, <3>3
    <3> QED
      BY <2>4, <3>1, <3>3, <3>4 DEF Planning!Runs
  <2>6. /\ transferThread' \in Number' \cup {None} /\ Number \subseteq Number'
        /\ pages'[u].transferred \in Number' \cup {None}
    BY <1>3, <1>5, <2>3, <2>4 DEF AnswerInv
  <2>7. \A v \in User \ {u} : LET w == pages[v].transferred IN
          w # None /\ w \notin lostTransfers' /\ (w = transferThread \/ w \in Planning!ToSet(answers))
            => w = transferThread' \/ w \in Planning!ToSet(answers')
    BY <2>4
  <2> QED
    BY <1>2, <1>5, <2>2, <2>3, <2>4, <2>5, <2>6, <2>7, AnswersStay
<1> QED
  BY <1>6, <1>7

(* A transfer that cannot begin is no longer waited for.                    *)
LEMMA AnswersLoad ==
  ASSUME PageFields, AnswerInv, NEW u \in User, Planning!LoadLot(u)
  PROVE  AnswerInv'
<1>1. /\ UNCHANGED <<pagesAsked, transferThread, answers, pageTransfers, lostTransfers>>
      /\ pages[u].starting.at = "load"
  BY DEF Planning!LoadLot, Planning!server
<1>2. Number' = Number
  BY <1>1 DEF Number
<1>3. CASE Planning!Found(u) /\ transferThread = None
  <2>1. PICK starting2 : starting2.at = "begin" /\ Planning!Writes(u, [starting |-> starting2])
    <3>1. \E l, p, os, carried2, in :
            Planning!Writes(u, [starting |-> [at |-> "begin", lot |-> l, process |-> p, chosen |-> os,
                                              carried |-> carried2, inStep |-> in]])
      BY <1>3, Zenon DEF Planning!LoadLot
    <3>2. ASSUME NEW l, NEW p, NEW os, NEW carried2, NEW in
          PROVE  [at |-> "begin", lot |-> l, process |-> p, chosen |-> os, carried |-> carried2, inStep |-> in].at = "begin"
      OBVIOUS
    <3> QED
      BY <3>1, <3>2, Zenon
  <2>2. /\ pages'[u].starting.at = "begin" /\ pages'[u].transferred = pages[u].transferred
        /\ pages'[u].told = pages[u].told /\ pages'[u].left = pages[u].left
    BY <2>1, Written DEF PageField
  <2>3. Awaited(u)'
    BY <1>1, <2>2 DEF Awaited, AnswerInv
  <2>4. /\ transferThread' \in Number' \cup {None} /\ answers' \in Seq(Nat) /\ Number \subseteq Number'
        /\ lostTransfers \subseteq lostTransfers' /\ pages'[u].transferred \in Number' \cup {None}
        /\ \A v \in User \ {u} : pages[v].transferred = pages'[u].transferred => pages'[u].transferred = None
    BY <1>1, <1>2, <2>2 DEF AnswerInv
  <2> QED
    BY <1>1, <2>1, <2>3, <2>4, AnswersStay
<1>4. CASE ~(Planning!Found(u) /\ transferThread = None)
  <2>1. Planning!Fails(u)
    BY <1>4 DEF Planning!LoadLot
  <2>2. PICK stores : /\ Planning!Writes(u, stores) /\ stores["transferred"] = None
                      /\ DOMAIN stores = {"starting", "transferred", "told", "left", "polls", "startable"}
    BY <2>1 DEF Planning!Fails
  <2>3. pages'[u].transferred = None
    BY <2>2, Written DEF PageField
  <2>4. Awaited(u)'
    BY <2>3 DEF Awaited
  <2>5. /\ transferThread' \in Number' \cup {None} /\ answers' \in Seq(Nat) /\ Number \subseteq Number'
        /\ lostTransfers \subseteq lostTransfers' /\ pages'[u].transferred \in Number' \cup {None}
        /\ \A v \in User \ {u} : pages[v].transferred = pages'[u].transferred => pages'[u].transferred = None
    BY <1>1, <1>2, <2>3 DEF AnswerInv
  <2> QED
    BY <1>1, <2>2, <2>4, <2>5, AnswersStay
<1> QED
  BY <1>3, <1>4

(* A transfer has a number no page has; what it overwrites is lost.         *)
LEMMA AnswersStart ==
  ASSUME IsSeq(pageTransfers), PageFields, AnswerInv, NEW u \in User, Planning!StartThread(u)
  PROVE  AnswerInv'
<1>1. PICK id : id = Len(pageTransfers) + 1
  OBVIOUS
<1>2. /\ UNCHANGED <<pagesAsked, answers>> /\ transferThread' = id
      /\ lostTransfers' = IF transferThread = None THEN lostTransfers ELSE lostTransfers \cup {transferThread}
      /\ pageTransfers' = Append(pageTransfers, pages[u].starting)
      /\ Planning!Writes(u, [starting |-> Planning!NoStart, transferred |-> id, told |-> None, left |-> FALSE,
                             polls |-> TRUE, startable |-> FALSE])
  BY <1>1 DEF Planning!StartThread
<1>3. Len(pageTransfers) \in Nat /\ Len(pageTransfers') = Len(pageTransfers) + 1
  <2> DEFINE T == Planning!ToSet(pageTransfers) \cup {pages[u].starting}
  <2>1. pageTransfers \in Seq(T)
    BY DEF IsSeq
  <2> QED
    BY <1>2, <2>1, AppendProperties
<1>4. id \in Number' /\ Number \subseteq Number' /\ id \notin Number
  BY <1>1, <1>3 DEF Number
<1>5. PICK stores : /\ Planning!Writes(u, stores) /\ stores["transferred"] = id /\ stores["polls"] = TRUE
                    /\ DOMAIN stores = {"starting", "transferred", "told", "left", "polls", "startable"}
  BY <1>2
<1>6. pages'[u].transferred = id /\ pages'[u].polls = TRUE
  BY <1>5, Written DEF PageField
<1>7. Awaited(u)'
  BY <1>2, <1>6 DEF Awaited
<1>8. \A v \in User \ {u} : pages[v].transferred = id => id = None
  BY <1>4 DEF AnswerInv
<1>9. \A v \in User \ {u} : LET w == pages[v].transferred IN
        w # None /\ w \notin lostTransfers' /\ (w = transferThread \/ w \in Planning!ToSet(answers))
          => w = transferThread' \/ w \in Planning!ToSet(answers')
  BY <1>2
<1> QED
  BY <1>2, <1>4, <1>5, <1>6, <1>7, <1>8, <1>9, AnswersStay DEF AnswerInv

LEMMA AnswersNext ==
  ASSUME PartsAssumption, ChosenInv, AnswerInv, Planning!Next
  PROVE  AnswerInv'
<1>1. PageFields /\ IsSeq(pageTransfers)
  BY DEF ChosenInv
<1>2. ASSUME NEW u \in User,
             \/ \E p \in Process : Planning!ChooseProcess(u, p)
             \/ \E s \in Solution \cup {Planning!Snapshot} : Planning!ChooseSolution(u, s)
             \/ \E l \in LotId : Planning!ChooseLot(u, l)
             \/ \E os \in SUBSET Order : Planning!ChooseOrders(u, os)
             \/ Planning!PressStart(u) \/ Planning!Cancel(u) \/ Planning!Poll(u)
      PROVE  AnswerInv'
  BY <1>1, <1>2, AnswersClick
<1>3. ASSUME NEW u \in User,
             \/ Planning!SolutionsTable(u) \/ Planning!SolutionSelected(u) \/ Planning!SolutionChanged(u)
             \/ Planning!LotRowSelected(u) \/ Planning!CheckStart(u) \/ Planning!LoadLot(u)
             \/ Planning!StartThread(u)
      PROVE  AnswerInv'
  BY <1>1, <1>3, AnswersSelect, AnswersDialog, AnswersCheck, AnswersLoad, AnswersStart
<1>4. ASSUME UNCHANGED <<pages, pagesAsked, transferThread, answers, pageTransfers, lostTransfers>> PROVE AnswerInv'
  BY <1>4 DEF AnswerInv, Awaited, Number
<1>5. ASSUME NEW s \in Solution, Planning!Improve(s) PROVE AnswerInv'
  BY <1>4, <1>5 DEF Planning!Improve, Planning!server
<1>6. ASSUME NEW id, Planning!EndThread(id) PROVE AnswerInv'
  BY <1>4, <1>6 DEF Planning!EndThread
<1> QED
  BY <1>2, <1>3, <1>5, <1>6, Zenon DEF Planning!Next

LEMMA PlanningInit ==
  ASSUME PartsAssumption, Planning!Init
  PROVE  ChosenInv /\ AnswerInv
<1>1. /\ solVersion = [s \in Solution |-> 1]
      /\ pagesAsked = [u \in User |-> [c \in Planning!Callback |-> {}]]
      /\ transferThread = None /\ answers = <<>> /\ pageTransfers = <<>>
  BY DEF Planning!Init
<1>2. PICK s \in Solution :
        pages = [u \in User |-> [Planning!NewPage EXCEPT
          !.process = ProcessOf[s], !.listed = {r \in Solution : ProcessOf[r] = ProcessOf[s]},
          !.row = s, !.solution = s, !.table = [of |-> s, version |-> 1]]]
  BY Zenon DEF Planning!Init
<1>3. ASSUME NEW u \in User
      PROVE  /\ DOMAIN pages[u] = PageField /\ pages[u].table = [of |-> s, version |-> 1]
             /\ pages[u].lotRow = None /\ pages[u].dialog = Planning!NoLot
             /\ pages[u].starting = Planning!NoStart /\ pages[u].transferred = None
  BY <1>2 DEF Planning!NewPage, PageField
<1>4. ASSUME NEW u \in User PROVE PageChosen(pages[u])
  BY <1>3 DEF PageChosen, Planning!NoLot, Planning!NoStart
<1>5. PageFields
  BY <1>1, <1>2, <1>3 DEF PageFields
<1>6. IsSeq(pageTransfers) /\ DOMAIN pageTransfers = {} /\ answers \in Seq(Nat)
  BY <1>1 DEF IsSeq
<1>7. ChosenInv
  BY <1>1, <1>4, <1>5, <1>6 DEF ChosenInv
<1>8. \A u \in User : Awaited(u)
  BY <1>3 DEF Awaited
<1> QED
  BY <1>1, <1>3, <1>6, <1>7, <1>8 DEF AnswerInv

LEMMA TransfersSafe ==
  ASSUME ChosenInv, AnswerInv
  PROVE  Planning!TransfersAreAsChosen /\ Planning!AnswersReachTheirPage
<1>1. Planning!TransfersAreAsChosen
  BY DEF ChosenInv, AsChosen, Planning!TransfersAreAsChosen
<1>2. Planning!AnswersReachTheirPage
  BY DEF AnswerInv, Awaited, Planning!AnswersReachTheirPage, Planning!Idle
<1> QED
  BY <1>1, <1>2

-----------------------------------------------------------------------------
(* The snapshot that lots are transferred into.                             *)
LotRecord == [id : LotName, orders : Seq(LotOrder)]

Held(ls, i, o) == i \in DOMAIN ls /\ o \in Lots!ToSet(ls[i].orders)
Holds(e, i, o) == Held(lots[e], i, o)

Knows(o, p) ==
  /\ \A e, f \in Lots!EquipmentOf(p) : \A i, j \in Nat : Holds(e, i, o) /\ Holds(f, j, o) => e = f /\ i = j
  /\ \A e \in Lots!EquipmentOf(p) : \A i \in Nat : Holds(e, i, o) => orderLots[o][p] = lots[e][i].id
  /\ (\A e \in Lots!EquipmentOf(p) : \A i \in Nat : ~Holds(e, i, o)) => orderLots[o][p] = None

(* The material of an order has positions in a process, all of it or none.  *)
Apart(m, k, p) ==
  /\ matPosition[m][p] = 0 <=> matPosition[k][p] = 0
  /\ m # k /\ matPosition[m][p] # 0 => matPosition[m][p] # matPosition[k][p]

LotInv ==
  /\ lots \in [LotEquipment -> Seq(LotRecord)]
  /\ DOMAIN orderLots = LotOrder /\ \A o \in LotOrder : DOMAIN orderLots[o] = Process
  /\ matPosition \in [Material -> [Process -> Nat]]
  /\ \A o \in LotOrder, p \in Process : Knows(o, p)
  /\ \A m, k \in Material, p \in Process : OrderOf[m] = OrderOf[k] => Apart(m, k, p)

(* The elements of a finite set of numbers, counted from below.             *)
LEMMA Ranked ==
  ASSUME NEW n \in Nat, NEW I \in SUBSET (1 .. n)
  PROVE  /\ Cardinality(I) \in Nat
         /\ \A j \in 1 .. Cardinality(I) : \E i \in I : Cardinality({k \in I : k <= i}) = j
         /\ \A i \in I : Cardinality({k \in I : k <= i}) \in 1 .. Cardinality(I)
         /\ \A i, l \in I : Cardinality({k \in I : k <= i}) = Cardinality({k \in I : k <= l}) => i = l
<1> DEFINE Up(i) == {k \in I : k <= i}
           Rank == [i \in I |-> Cardinality(Up(i))]
           c == Cardinality(I)
<1>1. IsFiniteSet(I) /\ c \in Nat
  <2>1. IsFiniteSet(1 .. n)
    BY FS_Interval
  <2>2. IsFiniteSet(I)
    BY <2>1, FS_Subset
  <2> QED
    BY <2>2, FS_CardinalityType
<1>2. ASSUME NEW i \in I PROVE IsFiniteSet(Up(i)) /\ Cardinality(Up(i)) \in 1 .. c
  <2>1. Up(i) \in SUBSET I /\ i \in Up(i)
    OBVIOUS
  <2>2. IsFiniteSet(Up(i)) /\ Cardinality(Up(i)) <= c
    BY <1>1, <2>1, FS_Subset
  <2>3. Cardinality(Up(i)) \in Nat /\ Cardinality(Up(i)) # 0
    BY <2>1, <2>2, FS_CardinalityType, FS_EmptySet
  <2> HIDE DEF Up, c
  <2> QED
    BY <1>1, <2>2, <2>3
<1>3. ASSUME NEW i \in I, NEW l \in I, i < l PROVE Cardinality(Up(i)) # Cardinality(Up(l))
  <2>0. I \subseteq Int
    OBVIOUS
  <2>1. Up(i) \in SUBSET Up(l) /\ l \in Up(l) /\ l \notin Up(i)
    <3>1. i \in Int /\ l \in Int /\ l <= l /\ ~(l <= i)
      BY <1>3, <2>0
    <3>2. \A k \in I : k <= i => k <= l
      BY <1>3, <2>0
    <3> QED
      BY <3>1, <3>2
  <2>2. IsFiniteSet(Up(l))
    BY <1>2
  <2> HIDE DEF Up
  <2>3. Cardinality(Up(l)) = Cardinality(Up(i)) => Up(l) = Up(i)
    BY <2>1, <2>2, FS_Subset
  <2> QED
    BY <2>1, <2>3
<1>4. ASSUME NEW i \in I, NEW l \in I, Cardinality(Up(i)) = Cardinality(Up(l)) PROVE i = l
  <2>1. i \in Nat /\ l \in Nat /\ (i < l \/ l < i \/ i = l)
    OBVIOUS
  <2> QED
    BY <2>1, <1>3, <1>4, Zenon
<1> HIDE DEF Up, c
<1>5. Rank \in Injection(I, 1 .. c)
  BY <1>2, <1>4 DEF Injection, IsInjective
<1>6. IsFiniteSet(1 .. c) /\ Cardinality(1 .. c) = c
  BY <1>1, FS_Interval
<1>7. Rank \in Surjection(I, 1 .. c)
  <2> HIDE DEF Rank
  <2>1. Cardinality(I) = Cardinality(1 .. c)
    BY <1>6 DEF c
  <2> QED
    BY <1>5, <1>6, <2>1, FS_Injection
<1>8. \A j \in 1 .. c : \E i \in I : Cardinality(Up(i)) = j
  BY <1>7 DEF Surjection
<1> QED
  BY <1>1, <1>2, <1>4, <1>8 DEF Up, c

LEMMA LotCardinality ==
  \A S : Lots!IsFiniteSet(S) = IsFiniteSet(S) /\ Lots!Cardinality(S) = Cardinality(S)
<1>1. \A S : Lots!IsFiniteSet(S) = IsFiniteSet(S)
  BY DEF Lots!IsFiniteSet, IsFiniteSet
<1> QED
  BY <1>1 DEF Lots!Cardinality, Cardinality

(* r is what is at the places I of s, each element from the place that h    *)
(* names.                                                                   *)
Kept(s, I, r, h) ==
  /\ Lots!AtPlaces(s, I) = r
  /\ \A j \in 1 .. Len(r) : r[j] = s[h[j]]
  /\ \A j, k \in 1 .. Len(r) : h[j] = h[k] => j = k
  /\ \A i \in I : \E j \in 1 .. Len(r) : h[j] = i

LEMMA PlacesKept ==
  ASSUME NEW T, NEW s \in Seq(T), NEW I \in SUBSET DOMAIN s
  PROVE  \E r \in Seq(T) : \E h \in [1 .. Len(r) -> I] : Kept(s, I, r, h)
<1> DEFINE Rank(i) == Lots!Cardinality({k \in I : k <= i})
<1>1. PICK c : c = Cardinality(I)
  OBVIOUS
<1>2. /\ c \in Nat /\ \A j \in 1 .. c : \E i \in I : Rank(i) = j
      /\ \A i \in I : Rank(i) \in 1 .. c
      /\ \A i, l \in I : Rank(i) = Rank(l) => i = l
  <2>1. \A i : Rank(i) = Cardinality({k \in I : k <= i})
    BY LotCardinality
  <2>2. Len(s) \in Nat /\ I \in SUBSET (1 .. Len(s))
    OBVIOUS
  <2> HIDE DEF Rank
  <2> QED
    <3>1. /\ Cardinality(I) \in Nat
          /\ \A j \in 1 .. Cardinality(I) : \E i \in I : Cardinality({k \in I : k <= i}) = j
          /\ \A i \in I : Cardinality({k \in I : k <= i}) \in 1 .. Cardinality(I)
          /\ \A i, l \in I : Cardinality({k \in I : k <= i}) = Cardinality({k \in I : k <= l}) => i = l
      BY <2>2, Ranked, Zenon
    <3> QED
      BY <1>1, <2>1, <3>1, Zenon
<1>3. Lots!AtPlaces(s, I) = [j \in 1 .. c |-> s[CHOOSE i \in I : Rank(i) = j]]
  <2>1. c = Lots!Cardinality(I)
    BY <1>1, LotCardinality
  <2> QED
    BY <2>1, Zenon DEF Lots!AtPlaces
<1> HIDE DEF Rank
<1>4. PICK h : h = [j \in 1 .. c |-> CHOOSE i \in I : Rank(i) = j]
  OBVIOUS
<1>5. \A j \in 1 .. c : h[j] \in I /\ Rank(h[j]) = j
  BY <1>2, <1>4
<1>6. h \in [1 .. c -> I]
  BY <1>4, <1>5
<1>7. PICK r : r = [j \in 1 .. c |-> s[h[j]]]
  OBVIOUS
<1>8. Lots!AtPlaces(s, I) = r
  BY <1>3, <1>4, <1>7
<1>9. r \in Seq(T) /\ Len(r) = c
  BY <1>2, <1>5, <1>7
<1>10. \A i \in I : Rank(i) \in 1 .. c /\ h[Rank(i)] = i
  BY <1>2, <1>5
<1>11. \A j, k \in 1 .. c : h[j] = h[k] => j = k
  BY <1>5
<1>12. \A i \in I : \E j \in 1 .. c : h[j] = i
  BY <1>10
<1>13. /\ h \in [1 .. Len(r) -> I] /\ \A j \in 1 .. Len(r) : r[j] = s[h[j]]
       /\ \A j, k \in 1 .. Len(r) : h[j] = h[k] => j = k
       /\ \A i \in I : \E j \in 1 .. Len(r) : h[j] = i
  BY <1>6, <1>7, <1>9, <1>11, <1>12
<1>14. h \in [1 .. Len(r) -> I] /\ Kept(s, I, r, h)
  BY <1>8, <1>13 DEF Kept
<1> QED
  BY <1>9, <1>14

(* Of a lot or a list of lots, what is not transferred stays.               *)
LEMMA Shrinking ==
  ASSUME NEW lot \in LotRecord, NEW orders
  PROVE  /\ Lots!Shrunk(lot, orders) \in LotRecord /\ Lots!Shrunk(lot, orders).id = lot.id
         /\ Lots!ToSet(Lots!Shrunk(lot, orders).orders) = Lots!ToSet(lot.orders) \ Lots!ToSet(orders)
<1>0a. PICK s \in Seq(LotOrder) : s = lot.orders
  BY DEF LotRecord
<1>0b. PICK I \in SUBSET DOMAIN s : I = {i \in DOMAIN s : s[i] \notin Lots!ToSet(orders)}
  OBVIOUS
<1>2. PICK r \in Seq(LotOrder) : \E h \in [1 .. Len(r) -> I] : Kept(s, I, r, h)
  BY PlacesKept, Zenon
<1>3. Lots!Shrunk(lot, orders) = [lot EXCEPT !.orders = r]
  BY <1>0a, <1>0b, <1>2, ZenonT(40) DEF Lots!Shrunk, Kept
<1>4. Lots!Shrunk(lot, orders) \in LotRecord /\ Lots!Shrunk(lot, orders).id = lot.id
      /\ Lots!Shrunk(lot, orders).orders = r
  BY <1>3 DEF LotRecord
<1>5. ASSUME NEW o PROVE o \in Lots!ToSet(r) <=> o \in Lots!ToSet(s) \ Lots!ToSet(orders)
  <2>0. PICK h \in [1 .. Len(r) -> I] :
          /\ \A j \in 1 .. Len(r) : r[j] = s[h[j]]
          /\ \A i \in I : \E j \in 1 .. Len(r) : h[j] = i
    BY <1>2 DEF Kept
  <2>1. ASSUME o \in Lots!ToSet(r) PROVE o \in Lots!ToSet(s) \ Lots!ToSet(orders)
    <3>1. PICK j \in 1 .. Len(r) : r[j] = o
      BY <2>1, <1>2 DEF Lots!ToSet
    <3>2. h[j] \in DOMAIN s /\ s[h[j]] = o /\ s[h[j]] \notin Lots!ToSet(orders)
      BY <1>0b, <2>0, <3>1
    <3> QED
      BY <3>2 DEF Lots!ToSet
  <2>2. ASSUME o \in Lots!ToSet(s), o \notin Lots!ToSet(orders) PROVE o \in Lots!ToSet(r)
    <3>1. PICK i \in DOMAIN s : s[i] = o
      BY <2>2 DEF Lots!ToSet
    <3>2. PICK j \in 1 .. Len(r) : h[j] = i
      BY <1>0b, <2>0, <2>2, <3>1
    <3>3. j \in DOMAIN r /\ r[j] = o
      BY <2>0, <3>1, <3>2
    <3> QED
      BY <3>3 DEF Lots!ToSet
  <2> QED
    BY <2>1, <2>2
<1> QED
  BY <1>0a, <1>4, <1>5

(* r is the lots ls without orders, each from the lot that h names.         *)
Shorter(ls, orders, r, h) ==
  /\ Lots!ShrunkLots(ls, orders) = r
  /\ \A j \in 1 .. Len(r) :
       /\ r[j].id = ls[h[j]].id
       /\ Lots!ToSet(r[j].orders) = Lots!ToSet(ls[h[j]].orders) \ Lots!ToSet(orders)
  /\ \A j, k \in 1 .. Len(r) : h[j] = h[k] => j = k
  /\ \A i \in DOMAIN ls : \A o : o \in Lots!ToSet(ls[i].orders) \ Lots!ToSet(orders) =>
       \E j \in 1 .. Len(r) : h[j] = i

LEMMA ShrinkingAll ==
  ASSUME NEW ls \in Seq(LotRecord), NEW orders
  PROVE  \E r \in Seq(LotRecord) : \E h \in [1 .. Len(r) -> DOMAIN ls] : Shorter(ls, orders, r, h)
<1>1. PICK all : all = [i \in DOMAIN ls |-> Lots!Shrunk(ls[i], orders)]
  OBVIOUS
<1>2. \A i \in DOMAIN ls :
        /\ all[i] \in LotRecord /\ all[i].id = ls[i].id
        /\ Lots!ToSet(all[i].orders) = Lots!ToSet(ls[i].orders) \ Lots!ToSet(orders)
  <2> SUFFICES ASSUME NEW i \in DOMAIN ls
               PROVE  /\ all[i] \in LotRecord /\ all[i].id = ls[i].id
                      /\ Lots!ToSet(all[i].orders) = Lots!ToSet(ls[i].orders) \ Lots!ToSet(orders)
    OBVIOUS
  <2>1. PICK lot \in LotRecord : lot = ls[i]
    OBVIOUS
  <2>2. all[i] = Lots!Shrunk(lot, orders)
    BY <1>1, <2>1
  <2>3. /\ Lots!Shrunk(lot, orders) \in LotRecord /\ Lots!Shrunk(lot, orders).id = lot.id
        /\ Lots!ToSet(Lots!Shrunk(lot, orders).orders) = Lots!ToSet(lot.orders) \ Lots!ToSet(orders)
    BY Shrinking, Zenon
  <2> QED
    BY <2>1, <2>2, <2>3, Zenon
<1>3. all \in Seq(LotRecord) /\ DOMAIN all = DOMAIN ls
  BY <1>1, <1>2
<1>4. PICK I \in SUBSET DOMAIN all : I = {i \in DOMAIN ls : Lots!Shrunk(ls[i], orders).orders # <<>>}
  BY <1>3
<1>5. PICK r \in Seq(LotRecord) : \E h \in [1 .. Len(r) -> I] : Kept(all, I, r, h)
  BY <1>3, PlacesKept, Zenon
<1>6. Lots!ShrunkLots(ls, orders) = r
  BY <1>1, <1>4, <1>5, Zenon DEF Lots!ShrunkLots, Kept
<1>7. PICK h \in [1 .. Len(r) -> I] :
        /\ \A j \in 1 .. Len(r) : r[j] = all[h[j]]
        /\ \A j, k \in 1 .. Len(r) : h[j] = h[k] => j = k
        /\ \A i \in I : \E j \in 1 .. Len(r) : h[j] = i
  BY <1>5 DEF Kept
<1>8. h \in [1 .. Len(r) -> DOMAIN ls]
  BY <1>3, <1>7
<1>9. \A j \in 1 .. Len(r) :
        /\ r[j].id = ls[h[j]].id
        /\ Lots!ToSet(r[j].orders) = Lots!ToSet(ls[h[j]].orders) \ Lots!ToSet(orders)
  BY <1>2, <1>7, <1>8
<1>10. \A i \in DOMAIN ls : \A o : o \in Lots!ToSet(ls[i].orders) \ Lots!ToSet(orders) =>
         \E j \in 1 .. Len(r) : h[j] = i
  <2> SUFFICES ASSUME NEW i \in DOMAIN ls, NEW o \in Lots!ToSet(ls[i].orders) \ Lots!ToSet(orders)
               PROVE  \E j \in 1 .. Len(r) : h[j] = i
    OBVIOUS
  <2>1. o \in Lots!ToSet(all[i].orders)
    BY <1>2
  <2>2. all[i].orders # <<>>
    BY <2>1 DEF Lots!ToSet
  <2> QED
    BY <1>1, <1>4, <1>7, <2>2
<1>11. Shorter(ls, orders, r, h)
  BY <1>6, <1>7, <1>9, <1>10, Zenon DEF Shorter
<1> QED
  BY <1>8, <1>11, Zenon


LEMMA NoneStays ==
  ASSUME NEW ls \in Seq(LotRecord), NEW orders
  PROVE  /\ Lots!ShrunkLots(ls, orders) \in Seq(LotRecord)
         /\ \A o \in Lots!ToSet(orders) : \A j \in Nat : ~Held(Lots!ShrunkLots(ls, orders), j, o)
<1>1. PICK r \in Seq(LotRecord) : \E h \in [1 .. Len(r) -> DOMAIN ls] : Shorter(ls, orders, r, h)
  BY ShrinkingAll, Zenon
<1>2. PICK h \in [1 .. Len(r) -> DOMAIN ls] : Shorter(ls, orders, r, h)
  BY <1>1
<1>3. Lots!ShrunkLots(ls, orders) = r
  BY <1>2 DEF Shorter
<1>4. ASSUME NEW o \in Lots!ToSet(orders), NEW j \in Nat, Held(r, j, o) PROVE FALSE
  BY <1>2, <1>4 DEF Shorter, Held
<1> QED
  BY <1>1, <1>3, <1>4

LEMMA TheRestStays ==
  ASSUME NEW ls \in Seq(LotRecord), NEW orders, NEW o, o \notin Lots!ToSet(orders),
         \A i, l \in Nat : Held(ls, i, o) /\ Held(ls, l, o) => i = l
  PROVE  /\ \A j, k \in Nat : Held(Lots!ShrunkLots(ls, orders), j, o) /\ Held(Lots!ShrunkLots(ls, orders), k, o) => j = k
         /\ \A j \in Nat : Held(Lots!ShrunkLots(ls, orders), j, o) =>
              \E i \in Nat : Held(ls, i, o) /\ ls[i].id = Lots!ShrunkLots(ls, orders)[j].id
         /\ \A i \in Nat : Held(ls, i, o) => \E j \in Nat : Held(Lots!ShrunkLots(ls, orders), j, o)
<1>1. PICK r \in Seq(LotRecord) : \E h \in [1 .. Len(r) -> DOMAIN ls] : Shorter(ls, orders, r, h)
  BY ShrinkingAll, Zenon
<1>2. PICK h \in [1 .. Len(r) -> DOMAIN ls] : Shorter(ls, orders, r, h)
  BY <1>1
<1>3. Lots!ShrunkLots(ls, orders) = r
  BY <1>2 DEF Shorter
<1>4. ASSUME NEW j \in Nat, Held(r, j, o) PROVE j \in 1 .. Len(r) /\ h[j] \in Nat /\ Held(ls, h[j], o) /\ ls[h[j]].id = r[j].id
  <2>1. j \in 1 .. Len(r)
    BY <1>4 DEF Held
  <2>2. h[j] \in DOMAIN ls
    BY <2>1
  <2> QED
    BY <1>2, <1>4, <2>1, <2>2 DEF Shorter, Held
<1>5. ASSUME NEW j \in Nat, NEW k \in Nat, Held(r, j, o), Held(r, k, o) PROVE j = k
  <2>1. h[j] = h[k] /\ j \in 1 .. Len(r) /\ k \in 1 .. Len(r)
    BY <1>4, <1>5
  <2> QED
    BY <1>2, <2>1 DEF Shorter
<1>6. ASSUME NEW i \in Nat, Held(ls, i, o) PROVE \E j \in Nat : Held(r, j, o)
  <2>1. i \in DOMAIN ls /\ o \in Lots!ToSet(ls[i].orders) \ Lots!ToSet(orders)
    BY <1>6 DEF Held
  <2>2. PICK j \in 1 .. Len(r) : h[j] = i
    BY <1>2, <2>1 DEF Shorter
  <2>3. o \in Lots!ToSet(r[j].orders)
    BY <1>2, <2>1, <2>2 DEF Shorter
  <2> QED
    BY <2>3 DEF Held
<1> QED
  BY <1>3, <1>4, <1>5, <1>6

LEMMA Added ==
  ASSUME NEW r \in Seq(LotRecord), NEW new \in LotRecord, NEW o
  PROVE  /\ Append(r, new) \in Seq(LotRecord) /\ Append(r, new)[Len(r) + 1] = new
         /\ \A j \in Nat : Held(r, j, o) => Append(r, new)[j] = r[j]
         /\ \A j \in Nat : Held(Append(r, new), j, o) <=> Held(r, j, o) \/ (j = Len(r) + 1 /\ o \in Lots!ToSet(new.orders))
  BY DEF Held

LEMMA LotSequences ==
  ASSUME Lots!TransferAssumption, NEW orders \in Lots!Sequences
  PROVE  orders \in Seq(LotOrder)
<1>1. PICK S \in SUBSET LotOrder : orders \in Lots!SetToSeqs(S)
  BY DEF Lots!Sequences
<1>2. IsFiniteSet(LotOrder)
  BY LotCardinality DEF Lots!TransferAssumption
<1>3. Lots!Cardinality(S) \in Nat
  BY <1>2, FS_Subset, FS_CardinalityType, LotCardinality
<1>4. orders \in [1 .. Lots!Cardinality(S) -> S]
  BY <1>1 DEF Lots!SetToSeqs
<1> QED
  BY <1>3, <1>4

(* A sequence of a finite set of material gives each a position of its own. *)
LEMMA SomeOrder ==
  ASSUME NEW ms, IsFiniteSet(ms)
  PROVE  /\ \A m \in ms : Lots!IndexOf(m, Lots!InSomeOrder(ms)) \in Nat \ {0}
         /\ \A m, k \in ms : Lots!IndexOf(m, Lots!InSomeOrder(ms)) = Lots!IndexOf(k, Lots!InSomeOrder(ms)) => m = k
<1>1. PICK c \in Nat : c = Cardinality(ms)
  BY FS_CardinalityType
<1>2. PICK T : T = Lots!SetToSeqs(ms) /\ T = {f \in [1 .. c -> ms] : \A i, j \in 1 .. c : i # j => f[i] # f[j]}
  <2>1. c = Lots!Cardinality(ms)
    BY <1>1, LotCardinality
  <2> QED
    BY <2>1, Zenon DEF Lots!SetToSeqs
<1>3. T # {}
  <2>1. PICK f : f \in Bijection(1 .. c, ms)
    BY <1>1, FS_CardinalityType DEF ExistsBijection
  <2>2. f \in [1 .. c -> ms] /\ \A i, j \in 1 .. c : i # j => f[i] # f[j]
    BY <2>1 DEF Bijection, Injection, IsInjective
  <2> QED
    BY <1>2, <2>2
<1>4. PICK s : s = Lots!InSomeOrder(ms) /\ s \in T
  BY <1>2, <1>3 DEF Lots!InSomeOrder
<1>5. s \in Injection(1 .. c, ms)
  BY <1>2, <1>4 DEF Injection, IsInjective
<1>6. s \in Surjection(1 .. c, ms)
  <2>1. IsFiniteSet(1 .. c) /\ Cardinality(1 .. c) = c
    BY FS_Interval
  <2> QED
    BY <1>1, <1>5, <2>1, FS_Injection
<1>7. DOMAIN s = 1 .. c /\ \A m \in ms : \E i \in 1 .. c : s[i] = m
  BY <1>6 DEF Surjection
<1>8. \A m \in ms : Lots!IndexOf(m, s) \in 1 .. c /\ s[Lots!IndexOf(m, s)] = m
  BY <1>7 DEF Lots!IndexOf
<1> QED
  BY <1>4, <1>8

LEMMA AffectedLots ==
  ASSUME Lots!TransferAssumption, LotInv, NEW e \in LotEquipment, NEW id \in LotName, NEW orders \in Lots!Sequences,
         Lots!Transfer(e, id, orders), NEW f \in LotEquipment
  PROVE  /\ EquipmentProcess[f] # EquipmentProcess[e] => lots'[f] = lots[f]
         /\ EquipmentProcess[f] = EquipmentProcess[e] /\ f # e => lots'[f] = Lots!ShrunkLots(lots[f], orders)
         /\ f = e => lots'[f] = Append(Lots!ShrunkLots(lots[f], orders), [id |-> id, orders |-> orders])
<1>1. f \in Lots!Affected(e) <=> EquipmentProcess[f] = EquipmentProcess[e]
  BY DEF Lots!Affected, Lots!EquipmentOf
<1> QED
  BY <1>1, Zenon DEF Lots!Transfer

(* In the process of the transfer, an order that is transferred is in the   *)
(* new lot, and any other where it was.                                     *)
LEMMA TransferredAreThere ==
  ASSUME Lots!TransferAssumption, LotInv, NEW e \in LotEquipment, NEW id \in LotName, NEW orders \in Lots!Sequences,
         Lots!Transfer(e, id, orders), NEW o \in Lots!ToSet(orders)
  PROVE  \E n \in Nat : /\ lots'[e][n].id = id
                        /\ \A f \in Lots!EquipmentOf(EquipmentProcess[e]) : \A j \in Nat :
                             Held(lots'[f], j, o) <=> f = e /\ j = n
<1>1. PICK ls : ls = [f \in LotEquipment |-> Lots!ShrunkLots(lots[f], orders)]
  OBVIOUS
<1>2. \A f \in LotEquipment : ls[f] \in Seq(LotRecord) /\ \A j \in Nat : ~Held(ls[f], j, o)
  <2> SUFFICES ASSUME NEW f \in LotEquipment PROVE ls[f] \in Seq(LotRecord) /\ \A j \in Nat : ~Held(ls[f], j, o)
    OBVIOUS
  <2>1. PICK was \in Seq(LotRecord) : was = lots[f]
    BY DEF LotInv
  <2>2. ls[f] = Lots!ShrunkLots(was, orders)
    BY <1>1, <2>1
  <2>3. Lots!ShrunkLots(was, orders) \in Seq(LotRecord) /\ \A j \in Nat : ~Held(Lots!ShrunkLots(was, orders), j, o)
    BY NoneStays, Zenon
  <2> QED
    BY <2>2, <2>3, Zenon
<1>3. PICK new \in LotRecord : new = [id |-> id, orders |-> orders]
  BY LotSequences DEF LotRecord
<1>4. PICK r \in Seq(LotRecord) : r = ls[e]
  BY <1>2
<1>5. Append(r, new)[Len(r) + 1] = new /\ \A j \in Nat : Held(Append(r, new), j, o) <=> j = Len(r) + 1
  <2>1. /\ Append(r, new)[Len(r) + 1] = new
        /\ \A j \in Nat : Held(Append(r, new), j, o) <=> Held(r, j, o) \/ (j = Len(r) + 1 /\ o \in Lots!ToSet(new.orders))
    BY Added, Zenon
  <2>2. o \in Lots!ToSet(new.orders) /\ \A j \in Nat : ~Held(r, j, o)
    BY <1>2, <1>3, <1>4
  <2> QED
    BY <2>1, <2>2
<1>6. lots'[e] = Append(r, new)
  BY <1>1, <1>3, <1>4, AffectedLots
<1>7. \A f \in Lots!EquipmentOf(EquipmentProcess[e]) : f # e => lots'[f] = ls[f]
  BY <1>1, AffectedLots DEF Lots!EquipmentOf
<1>8. Len(r) + 1 \in Nat /\ lots'[e][Len(r) + 1].id = id
  BY <1>3, <1>5, <1>6
<1>9. \A f \in Lots!EquipmentOf(EquipmentProcess[e]) : \A j \in Nat : Held(lots'[f], j, o) <=> f = e /\ j = Len(r) + 1
  BY <1>2, <1>5, <1>6, <1>7 DEF Lots!EquipmentOf
<1> QED
  BY <1>8, <1>9

(* What a transfer leaves of the lots of an equipment of its process.       *)
Stays(f, o) ==
  /\ \A j, k \in Nat : Held(lots'[f], j, o) /\ Held(lots'[f], k, o) => j = k
  /\ \A j \in Nat : Held(lots'[f], j, o) => \E i \in Nat : Held(lots[f], i, o) /\ lots[f][i].id = lots'[f][j].id
  /\ \A i \in Nat : Held(lots[f], i, o) => \E j \in Nat : Held(lots'[f], j, o)

LEMMA TheOthersStay ==
  ASSUME Lots!TransferAssumption, LotInv, NEW e \in LotEquipment, NEW id \in LotName, NEW orders \in Lots!Sequences,
         Lots!Transfer(e, id, orders), NEW o \in LotOrder, o \notin Lots!ToSet(orders),
         NEW f \in Lots!EquipmentOf(EquipmentProcess[e])
  PROVE  Stays(f, o)
<1>0. f \in LotEquipment /\ EquipmentProcess[f] = EquipmentProcess[e] /\ EquipmentProcess[e] \in Process
  BY DEF Lots!EquipmentOf, Lots!TransferAssumption
<1>1. PICK was \in Seq(LotRecord) : was = lots[f]
  BY <1>0 DEF LotInv
<1>2. \A i, l \in Nat : Held(was, i, o) /\ Held(was, l, o) => i = l
  <2>1. Knows(o, EquipmentProcess[e])
    BY <1>0 DEF LotInv
  <2> QED
    BY <1>1, <2>1 DEF Knows, Holds
<1>3. PICK r : r = Lots!ShrunkLots(was, orders)
  OBVIOUS
<1>4. /\ \A j, k \in Nat : Held(r, j, o) /\ Held(r, k, o) => j = k
      /\ \A j \in Nat : Held(r, j, o) => \E i \in Nat : Held(was, i, o) /\ was[i].id = r[j].id
      /\ \A i \in Nat : Held(was, i, o) => \E j \in Nat : Held(r, j, o)
  <2>1. /\ \A j, k \in Nat : Held(Lots!ShrunkLots(was, orders), j, o) /\ Held(Lots!ShrunkLots(was, orders), k, o) => j = k
        /\ \A j \in Nat : Held(Lots!ShrunkLots(was, orders), j, o) =>
             \E i \in Nat : Held(was, i, o) /\ was[i].id = Lots!ShrunkLots(was, orders)[j].id
        /\ \A i \in Nat : Held(was, i, o) => \E j \in Nat : Held(Lots!ShrunkLots(was, orders), j, o)
    BY <1>2, TheRestStays, Zenon
  <2> QED
    BY <1>3, <2>1, Zenon
<1>5. r \in Seq(LotRecord)
  BY <1>3, NoneStays, Zenon
<1>6. CASE f # e
  <2>1. lots'[f] = r
    BY <1>0, <1>1, <1>3, <1>6, AffectedLots, Zenon
  <2> QED
    BY <1>1, <1>4, <2>1, Zenon DEF Stays
<1>7. CASE f = e
  <2>1. PICK new \in LotRecord : new = [id |-> id, orders |-> orders]
    BY LotSequences DEF LotRecord
  <2>2. lots'[f] = Append(r, new)
    BY <1>0, <1>1, <1>3, <1>7, <2>1, AffectedLots, Zenon
  <2>3. /\ \A j \in Nat : Held(r, j, o) => Append(r, new)[j] = r[j]
        /\ \A j \in Nat : Held(Append(r, new), j, o) <=> Held(r, j, o) \/ (j = Len(r) + 1 /\ o \in Lots!ToSet(new.orders))
    BY <1>5, Added, ZenonT(40)
  <2>4. o \notin Lots!ToSet(new.orders)
    BY <2>1
  <2>5. \A j \in Nat : (Held(lots'[f], j, o) <=> Held(r, j, o)) /\ (Held(r, j, o) => lots'[f][j] = r[j])
    BY <2>2, <2>3, <2>4, Zenon
  <2> QED
    BY <1>1, <1>4, <2>5, Zenon DEF Stays
<1> QED
  BY <1>6, <1>7

LEMMA TransferKnows ==
  ASSUME Lots!TransferAssumption, LotInv, NEW e \in LotEquipment, NEW id \in LotName, NEW orders \in Lots!Sequences,
         Lots!Transfer(e, id, orders), NEW o \in LotOrder, NEW p \in Process
  PROVE  Knows(o, p)'
<1> DEFINE q == EquipmentProcess[e]
<1>0. /\ q \in Process /\ e \in Lots!EquipmentOf(q) /\ Lots!EquipmentOf(p) \subseteq LotEquipment
      /\ \A f \in Lots!EquipmentOf(p) : EquipmentProcess[f] = p
  BY DEF Lots!EquipmentOf, Lots!TransferAssumption
<1>1. Knows(o, p) /\ DOMAIN orderLots[o] = Process
  BY DEF LotInv
<1>2. orderLots'[o] = IF o \in Lots!ToSet(orders) THEN [orderLots[o] EXCEPT ![q] = id] ELSE orderLots[o]
  BY DEF Lots!Transfer, Lots!InNewLot
<1>3. CASE p # q
  <2>1. \A f \in Lots!EquipmentOf(p) : lots'[f] = lots[f]
    BY <1>0, <1>3, AffectedLots
  <2>2. orderLots'[o][p] = orderLots[o][p]
    BY <1>1, <1>2, <1>3
  <2> QED
    BY <1>1, <2>1, <2>2 DEF Knows, Holds
<1>4. CASE p = q /\ o \in Lots!ToSet(orders)
  <2>1. PICK n \in Nat : /\ lots'[e][n].id = id
                         /\ \A f \in Lots!EquipmentOf(q) : \A j \in Nat : Held(lots'[f], j, o) <=> f = e /\ j = n
    BY <1>4, TransferredAreThere, Zenon
  <2>2. orderLots'[o][p] = id
    BY <1>0, <1>1, <1>2, <1>4
  <2> QED
    BY <1>0, <1>4, <2>1, <2>2, Zenon DEF Knows, Holds
<1>5. CASE p = q /\ o \notin Lots!ToSet(orders)
  <2>1. \A f \in Lots!EquipmentOf(p) : Stays(f, o)
    BY <1>5, TheOthersStay, Zenon
  <2>2. orderLots'[o][p] = orderLots[o][p]
    BY <1>2, <1>5
  <2>3. ASSUME NEW f \in Lots!EquipmentOf(p), NEW g \in Lots!EquipmentOf(p), NEW j \in Nat, NEW k \in Nat,
               Held(lots'[f], j, o), Held(lots'[g], k, o)
        PROVE  f = g /\ j = k
    <3>1. PICK i \in Nat : Held(lots[f], i, o)
      BY <2>1, <2>3 DEF Stays
    <3>2. PICK l \in Nat : Held(lots[g], l, o)
      BY <2>1, <2>3 DEF Stays
    <3>3. f = g
      BY <1>1, <3>1, <3>2 DEF Knows, Holds
    <3> QED
      BY <2>1, <2>3, <3>3 DEF Stays
  <2>4. ASSUME NEW f \in Lots!EquipmentOf(p), NEW j \in Nat, Held(lots'[f], j, o)
        PROVE  orderLots'[o][p] = lots'[f][j].id
    <3>1. PICK i \in Nat : Held(lots[f], i, o) /\ lots[f][i].id = lots'[f][j].id
      BY <2>1, <2>4 DEF Stays
    <3> QED
      BY <1>1, <2>2, <3>1 DEF Knows, Holds
  <2>5. ASSUME \A f \in Lots!EquipmentOf(p) : \A j \in Nat : ~Held(lots'[f], j, o)
        PROVE  orderLots'[o][p] = None
    <3>1. \A f \in Lots!EquipmentOf(p) : \A i \in Nat : ~Held(lots[f], i, o)
      BY <2>1, <2>5 DEF Stays
    <3> QED
      BY <1>1, <2>2, <3>1 DEF Knows, Holds
  <2> QED
    BY <2>3, <2>4, <2>5, Zenon DEF Knows, Holds
<1> QED
  BY <1>3, <1>4, <1>5

(* The material of an order is given positions all at once.                 *)
LEMMA TransferNumbers ==
  ASSUME Lots!TransferAssumption, LotInv, NEW e \in LotEquipment, NEW id \in LotName, NEW orders \in Lots!Sequences,
         Lots!Transfer(e, id, orders)
  PROVE  /\ (matPosition \in [Material -> [Process -> Nat]])'
         /\ \A m, k \in Material, p \in Process : OrderOf[m] = OrderOf[k] => Apart(m, k, p)'
<1> DEFINE q == EquipmentProcess[e]
           new(m) == Lots!IndexOf(m, Lots!InSomeOrder(Lots!Unnumbered(OrderOf[m], q)))
<1>1. \A m \in Material : matPosition'[m] =
        IF OrderOf[m] \in Lots!ToSet(orders) /\ m \in Lots!Unnumbered(OrderOf[m], q)
        THEN [matPosition[m] EXCEPT ![q] = new(m)] ELSE matPosition[m]
  BY Zenon DEF Lots!Transfer
<1>2. DOMAIN matPosition' = Material /\ \A S : matPosition' \in [Material -> S] <=> \A m \in Material : matPosition'[m] \in S
  <2>1. PICK g : matPosition' = [m \in Material |-> g[m]]
    <3>1. matPosition' = [m \in Material |-> matPosition'[m]]
      BY DEF Lots!Transfer
    <3> QED
      BY <3>1
  <2> QED
    BY <2>1
<1>3. \A m \in Material : m \in Lots!Unnumbered(OrderOf[m], q) <=> matPosition[m][q] = 0
  BY DEF Lots!Unnumbered
<1>4. ASSUME NEW m \in Material, NEW k \in Material, OrderOf[m] = OrderOf[k],
             m \in Lots!Unnumbered(OrderOf[m], q), k \in Lots!Unnumbered(OrderOf[m], q)
      PROVE  new(m) \in Nat \ {0} /\ (m # k => new(m) # new(k))
  <2>1. PICK ms : ms = Lots!Unnumbered(OrderOf[m], q)
    OBVIOUS
  <2>2. IsFiniteSet(ms)
    <3>1. IsFiniteSet(Material) /\ ms \subseteq Material
      BY <2>1, LotCardinality DEF Lots!TransferAssumption, Lots!Unnumbered
    <3> QED
      BY <3>1, FS_Subset
  <2>3. /\ \A n \in ms : Lots!IndexOf(n, Lots!InSomeOrder(ms)) \in Nat \ {0}
        /\ \A n, l \in ms : Lots!IndexOf(n, Lots!InSomeOrder(ms)) = Lots!IndexOf(l, Lots!InSomeOrder(ms)) => n = l
    BY <2>2, SomeOrder, Zenon
  <2>4. new(m) = Lots!IndexOf(m, Lots!InSomeOrder(ms)) /\ new(k) = Lots!IndexOf(k, Lots!InSomeOrder(ms))
    BY <1>4, <2>1
  <2> HIDE DEF new
  <2> QED
    BY <1>4, <2>1, <2>3, <2>4, ZenonT(40)
<1> HIDE DEF new
<1>5. matPosition \in [Material -> [Process -> Nat]] /\ q \in Process
  BY DEF LotInv, Lots!TransferAssumption
<1>6. ASSUME NEW m \in Material PROVE matPosition'[m] \in [Process -> Nat]
  <2>1. matPosition[m] \in [Process -> Nat]
    BY <1>5
  <2>2. CASE OrderOf[m] \in Lots!ToSet(orders) /\ m \in Lots!Unnumbered(OrderOf[m], q)
    <3>1. new(m) \in Nat
      BY <1>4, <2>2
    <3>2. matPosition'[m] = [matPosition[m] EXCEPT ![q] = new(m)]
      BY <1>1, <2>2
    <3> QED
      BY <2>1, <3>1, <3>2
  <2>3. CASE ~(OrderOf[m] \in Lots!ToSet(orders) /\ m \in Lots!Unnumbered(OrderOf[m], q))
    BY <1>1, <2>1, <2>3
  <2> QED
    BY <2>2, <2>3
<1>7. ASSUME NEW m \in Material, NEW k \in Material, NEW p \in Process, OrderOf[m] = OrderOf[k]
      PROVE  Apart(m, k, p)'
  <2>1. Apart(m, k, p)
    BY <1>7 DEF LotInv
  <2>2. CASE p # q
    <3>1. matPosition'[m][p] = matPosition[m][p] /\ matPosition'[k][p] = matPosition[k][p]
      BY <1>1, <1>5, <2>2
    <3> QED
      BY <2>1, <3>1 DEF Apart
  <2>3. CASE p = q /\ OrderOf[m] \in Lots!ToSet(orders) /\ matPosition[m][q] = 0
    <3>1. matPosition[k][q] = 0
      BY <2>1, <2>3 DEF Apart
    <3>2. m \in Lots!Unnumbered(OrderOf[m], q) /\ k \in Lots!Unnumbered(OrderOf[m], q)
      BY <1>3, <1>7, <2>3, <3>1
    <3>3. matPosition'[m][p] = new(m) /\ matPosition'[k][p] = new(k)
      <4>1. /\ matPosition'[m] = [matPosition[m] EXCEPT ![q] = new(m)]
            /\ matPosition'[k] = [matPosition[k] EXCEPT ![q] = new(k)]
        BY <1>1, <1>7, <2>3, <3>2, Zenon
      <4>2. q \in DOMAIN matPosition[m] /\ q \in DOMAIN matPosition[k]
        BY <1>5
      <4> QED
        BY <2>3, <4>1, <4>2
    <3>4. new(m) \in Nat \ {0} /\ new(k) \in Nat \ {0} /\ (m # k => new(m) # new(k))
      BY <1>4, <1>7, <3>2
    <3> QED
      BY <3>3, <3>4 DEF Apart
  <2>4. CASE p = q /\ ~(OrderOf[m] \in Lots!ToSet(orders) /\ matPosition[m][q] = 0)
    <3>1. ~(OrderOf[k] \in Lots!ToSet(orders) /\ matPosition[k][q] = 0)
      BY <1>7, <2>1, <2>4 DEF Apart
    <3>2. matPosition'[m] = matPosition[m] /\ matPosition'[k] = matPosition[k]
      BY <1>1, <1>3, <2>4, <3>1
    <3> QED
      BY <2>1, <3>2 DEF Apart
  <2> QED
    BY <2>2, <2>3, <2>4
<1> QED
  BY <1>2, <1>6, <1>7

LEMMA TransferStep ==
  ASSUME Lots!TransferAssumption, LotInv, NEW e \in LotEquipment, NEW id \in LotName, NEW orders \in Lots!Sequences,
         Lots!Transfer(e, id, orders)
  PROVE  LotInv'
<1>1. (lots \in [LotEquipment -> Seq(LotRecord)])'
  <2>1. PICK g : g = lots' /\ g = [f \in LotEquipment |-> g[f]]
    <3>1. lots' = [f \in LotEquipment |-> lots'[f]]
      BY DEF Lots!Transfer
    <3> QED
      BY <3>1
  <2>2. ASSUME NEW f \in LotEquipment PROVE g[f] \in Seq(LotRecord)
    <3>1. PICK was \in Seq(LotRecord) : was = lots[f]
      BY DEF LotInv
    <3>2. PICK r \in Seq(LotRecord) : r = Lots!ShrunkLots(was, orders)
      BY NoneStays, Zenon
    <3>3. PICK new \in LotRecord : new = [id |-> id, orders |-> orders]
      BY LotSequences DEF LotRecord
    <3>4. g[f] \in {was, r, Append(r, new)}
      BY <2>1, <3>1, <3>2, <3>3, AffectedLots
    <3>5. Append(r, new) \in Seq(LotRecord)
      OBVIOUS
    <3> QED
      BY <3>4, <3>5, Zenon
  <2>3. g \in [LotEquipment -> Seq(LotRecord)]
    BY <2>1, <2>2
  <2> QED
    BY <2>1, <2>3
<1>2. (DOMAIN orderLots = LotOrder /\ \A o \in LotOrder : DOMAIN orderLots[o] = Process)'
  BY DEF LotInv, Lots!Transfer, Lots!InNewLot
<1>3. \A o \in LotOrder, p \in Process : Knows(o, p)'
  BY TransferKnows
<1>4. /\ (matPosition \in [Material -> [Process -> Nat]])'
      /\ \A m, k \in Material, p \in Process : OrderOf[m] = OrderOf[k] => Apart(m, k, p)'
  BY TransferNumbers
<1> QED
  BY <1>1, <1>2, <1>3, <1>4 DEF LotInv

(* The first positions of the material, if it has any.                      *)
LEMMA FirstNumbers ==
  ASSUME Lots!TransferAssumption, NEW numbered \in BOOLEAN, Lots!Numbered(numbered)
  PROVE  /\ matPosition \in [Material -> [Process -> Nat]]
         /\ \A m, k \in Material, p \in Process : OrderOf[m] = OrderOf[k] => Apart(m, k, p)
<1> DEFINE NumberOf(m) == Lots!IndexOf(m, Lots!InSomeOrder({k \in Material : OrderOf[k] = OrderOf[m]}))
<1>1. ASSUME NEW m \in Material, NEW k \in Material, OrderOf[m] = OrderOf[k]
      PROVE  NumberOf(m) \in Nat \ {0} /\ (m # k => NumberOf(m) # NumberOf(k))
  <2>1. PICK ms : ms = {l \in Material : OrderOf[l] = OrderOf[m]}
    OBVIOUS
  <2>2. IsFiniteSet(ms)
    <3>1. IsFiniteSet(Material) /\ ms \subseteq Material
      BY <2>1, LotCardinality DEF Lots!TransferAssumption
    <3> QED
      BY <3>1, FS_Subset
  <2>3. /\ \A n \in ms : Lots!IndexOf(n, Lots!InSomeOrder(ms)) \in Nat \ {0}
        /\ \A n, l \in ms : Lots!IndexOf(n, Lots!InSomeOrder(ms)) = Lots!IndexOf(l, Lots!InSomeOrder(ms)) => n = l
    BY <2>2, SomeOrder, Zenon
  <2>4. ms = {l \in Material : OrderOf[l] = OrderOf[k]} /\ m \in ms /\ k \in ms
    BY <1>1, <2>1
  <2>5. NumberOf(m) = Lots!IndexOf(m, Lots!InSomeOrder(ms)) /\ NumberOf(k) = Lots!IndexOf(k, Lots!InSomeOrder(ms))
    BY <2>1, <2>4, Zenon
  <2> HIDE DEF NumberOf
  <2> QED
    BY <2>3, <2>4, <2>5, ZenonT(40)
<1>2. \A m \in Material, p \in Process : matPosition[m][p] = IF numbered THEN NumberOf(m) ELSE 0
  BY Zenon DEF Lots!Numbered
<1>3. \A m \in Material : DOMAIN matPosition[m] = Process /\ matPosition[m] = [p \in Process |-> matPosition[m][p]]
  BY Zenon DEF Lots!Numbered
<1>4. DOMAIN matPosition = Material /\ matPosition = [m \in Material |-> matPosition[m]]
  BY Zenon DEF Lots!Numbered
<1> HIDE DEF NumberOf
<1>5. \A m \in Material, p \in Process : matPosition[m][p] \in Nat
  BY <1>1, <1>2
<1>6. \A m \in Material : matPosition[m] \in [Process -> Nat]
  BY <1>3, <1>5, Zenon
<1>7. matPosition \in [Material -> [Process -> Nat]]
  BY <1>4, <1>6, Zenon
<1>8. ASSUME NEW m \in Material, NEW k \in Material, NEW p \in Process, OrderOf[m] = OrderOf[k] PROVE Apart(m, k, p)
  <2>1. /\ matPosition[m][p] = (IF numbered THEN NumberOf(m) ELSE 0)
        /\ matPosition[k][p] = (IF numbered THEN NumberOf(k) ELSE 0)
    BY <1>2, Zenon
  <2>2. NumberOf(m) # 0 /\ NumberOf(k) # 0 /\ (m # k => NumberOf(m) # NumberOf(k))
    BY <1>1, <1>8
  <2> QED
    BY <2>1, <2>2, Zenon DEF Apart
<1> QED
  BY <1>7, <1>8

(* A snapshot of the provider: the orders that its lots hold name them.     *)
LEMMA FirstKnows ==
  ASSUME Lots!TransferAssumption,
         NEW first \in Lots!FirstLots, NEW known \in BOOLEAN, Lots!Loaded(first, known), NEW o \in LotOrder, NEW p \in Process
  PROVE  Knows(o, p)
<1> DEFINE at == {x \in UNION {{e} \X (DOMAIN first[e]) \X {1, 2} : e \in Lots!EquipmentOf(p)} : first[x[1]][x[2]].orders[x[3]] = o}
<1>0. /\ first \in [LotEquipment -> {<<>>} \cup {<<[id |-> l, orders |-> os]>> : l \in LotName, os \in {s \in Lots!Sequences : Len(s) = 2}}]
      /\ \A e, f \in LotEquipment : e # f /\ EquipmentProcess[e] = EquipmentProcess[f] => first[e] = <<>> \/ first[f] = <<>>
  BY DEF Lots!FirstLots
<1>1. lots = first
  BY DEF Lots!Loaded
<1>2. orderLots[o][p] = IF at = {} THEN None ELSE first[(CHOOSE x \in at : TRUE)[1]][(CHOOSE x \in at : TRUE)[2]].id
  BY Zenon DEF Lots!Loaded
<1>3. ASSUME NEW e \in LotEquipment, first[e] # <<>>
      PROVE  /\ DOMAIN first[e] = {1}
             /\ \A i \in Nat : Held(first[e], i, o) <=> i = 1 /\ (first[e][1].orders[1] = o \/ first[e][1].orders[2] = o)
  <2>1. PICK l \in LotName, os \in {s \in Lots!Sequences : Len(s) = 2} : first[e] = <<[id |-> l, orders |-> os]>>
    BY <1>0, <1>3
  <2>2. os \in Seq(LotOrder) /\ Len(os) = 2
    BY <2>1, LotSequences
  <2>3. \A x : x \in Lots!ToSet(os) <=> x = os[1] \/ x = os[2]
    BY <2>2 DEF Lots!ToSet
  <2>4. DOMAIN first[e] = {1} /\ first[e][1].orders = os
    BY <2>1
  <2> QED
    BY <2>3, <2>4 DEF Held
<1>4. ASSUME NEW e \in Lots!EquipmentOf(p), NEW i \in Nat, Held(first[e], i, o)
      PROVE  /\ i = 1 /\ at # {}
             /\ \A x \in at : x[1] = e /\ x[2] = 1
  <2>1. e \in LotEquipment /\ EquipmentProcess[e] = p
    BY DEF Lots!EquipmentOf
  <2>2. first[e] # <<>>
    BY <1>4 DEF Held
  <2>3. i = 1 /\ DOMAIN first[e] = {1} /\ (first[e][1].orders[1] = o \/ first[e][1].orders[2] = o)
    BY <1>3, <1>4, <2>1, <2>2
  <2>4. <<e, 1, 1>> \in at \/ <<e, 1, 2>> \in at
    BY <2>3
  <2>5. ASSUME NEW x \in at PROVE x[1] = e /\ x[2] = 1
    <3>1. PICK f \in Lots!EquipmentOf(p) : x \in {f} \X (DOMAIN first[f]) \X {1, 2}
      BY <2>5
    <3>2. f \in LotEquipment /\ EquipmentProcess[f] = p /\ x[1] = f /\ x[2] \in DOMAIN first[f]
      BY <3>1 DEF Lots!EquipmentOf
    <3>3. first[f] # <<>>
      BY <3>2
    <3>4. f = e
      BY <1>0, <2>1, <2>2, <3>2, <3>3
    <3> QED
      BY <2>3, <3>2, <3>4
  <2> QED
    BY <2>3, <2>4, <2>5
<1>5. ASSUME NEW x \in at PROVE \E e \in Lots!EquipmentOf(p) : \E i \in Nat : Held(first[e], i, o)
  <2>1. PICK f \in Lots!EquipmentOf(p) : x \in {f} \X (DOMAIN first[f]) \X {1, 2}
    BY <1>5
  <2>2. /\ f \in LotEquipment /\ x[1] = f /\ x[2] \in DOMAIN first[f] /\ x[3] \in {1, 2}
        /\ first[f][x[2]].orders[x[3]] = o
    BY <1>5, <2>1 DEF Lots!EquipmentOf
  <2>3. first[f] # <<>>
    BY <2>2
  <2>4. Held(first[f], 1, o)
    BY <1>3, <2>2, <2>3
  <2> QED
    BY <2>4
<1> HIDE DEF at
<1>6. ASSUME NEW e \in Lots!EquipmentOf(p), NEW i \in Nat, Held(first[e], i, o)
      PROVE  orderLots[o][p] = first[e][i].id
  <2>1. at # {} /\ i = 1 /\ \A x \in at : x[1] = e /\ x[2] = 1
    BY <1>4, <1>6
  <2>2. PICK c : c = (CHOOSE x \in at : TRUE) /\ c \in at
    BY <2>1
  <2> QED
    BY <1>2, <2>1, <2>2
<1>7. ASSUME NEW e \in Lots!EquipmentOf(p), NEW f \in Lots!EquipmentOf(p), NEW i \in Nat, NEW j \in Nat,
             Held(first[e], i, o), Held(first[f], j, o)
      PROVE  e = f /\ i = j
  <2>1. at # {} /\ i = 1 /\ \A x \in at : x[1] = e
    BY <1>4, <1>7
  <2>2. j = 1 /\ \A x \in at : x[1] = f
    BY <1>4, <1>7
  <2> QED
    BY <2>1, <2>2
<1>8. ASSUME \A e \in Lots!EquipmentOf(p) : \A i \in Nat : ~Held(first[e], i, o)
      PROVE  orderLots[o][p] = None
  BY <1>2, <1>5, <1>8
<1> QED
  BY <1>1, <1>6, <1>7, <1>8, Zenon DEF Knows, Holds

LEMMA LotInit ==
  ASSUME Lots!TransferAssumption, Lots!Init
  PROVE  LotInv
<1>1. PICK numbered \in BOOLEAN : Lots!Numbered(numbered)
  BY DEF Lots!Init
<1>2. PICK first \in Lots!FirstLots, known \in BOOLEAN : Lots!Loaded(first, known)
  BY DEF Lots!Init
<1>3. \A o \in LotOrder, p \in Process : Knows(o, p)
  BY <1>2, FirstKnows
<1>4. lots \in [LotEquipment -> Seq(LotRecord)]
  <2>1. ASSUME NEW e \in LotEquipment PROVE first[e] \in Seq(LotRecord)
    <3>1. CASE first[e] = <<>>
      BY <3>1
    <3>2. CASE first[e] # <<>>
      <4>1. PICK l \in LotName, os \in {s \in Lots!Sequences : Len(s) = 2} : first[e] = <<[id |-> l, orders |-> os]>>
        BY <3>2 DEF Lots!FirstLots
      <4>2. [id |-> l, orders |-> os] \in LotRecord
        BY <4>1, LotSequences DEF LotRecord
      <4> QED
        BY <4>1, <4>2
    <3> QED
      BY <3>1, <3>2
  <2>2. first = [e \in LotEquipment |-> first[e]] /\ lots = first
    <3>1. lots = first
      BY <1>2, Zenon DEF Lots!Loaded
    <3>2. first = [e \in LotEquipment |-> first[e]]
      BY DEF Lots!FirstLots
    <3> QED
      BY <3>1, <3>2
  <2> QED
    BY <2>1, <2>2
<1>5. DOMAIN orderLots = LotOrder /\ \A o \in LotOrder : DOMAIN orderLots[o] = Process
  BY <1>2, Zenon DEF Lots!Loaded
<1>6. /\ matPosition \in [Material -> [Process -> Nat]]
      /\ \A m, k \in Material, p \in Process : OrderOf[m] = OrderOf[k] => Apart(m, k, p)
  BY <1>1, FirstNumbers
<1> QED
  BY <1>3, <1>4, <1>5, <1>6 DEF LotInv

LEMMA LotsKnow ==
  ASSUME LotInv
  PROVE  Lots!OrdersKnowTheirLots
<1> SUFFICES ASSUME NEW o \in LotOrder, NEW p \in Process
             PROVE  /\ \A x, y \in Lots!Holding(o, p) : x = y
                    /\ orderLots[o][p] = IF Lots!Holding(o, p) = {} THEN None
                                         ELSE LET x == CHOOSE x \in Lots!Holding(o, p) : TRUE IN lots[x[1]][x[2]].id
                    /\ \A m, k \in Material :
                         m # k /\ OrderOf[m] = o /\ OrderOf[k] = o /\ matPosition[m][p] # 0 => matPosition[m][p] # matPosition[k][p]
  BY Zenon DEF Lots!OrdersKnowTheirLots
<1>1. PICK holding : holding = Lots!Holding(o, p)
  OBVIOUS
<1>2. Knows(o, p) /\ Lots!EquipmentOf(p) \subseteq LotEquipment /\ lots \in [LotEquipment -> Seq(LotRecord)]
  BY DEF LotInv, Lots!EquipmentOf
<1>3. ASSUME NEW x \in holding
      PROVE  x = <<x[1], x[2]>> /\ x[1] \in Lots!EquipmentOf(p) /\ x[2] \in Nat /\ Holds(x[1], x[2], o)
  <2>1. PICK e \in Lots!EquipmentOf(p) : x \in {e} \X DOMAIN lots[e]
    BY <1>1, <1>3 DEF Lots!Holding
  <2>2. x = <<x[1], x[2]>> /\ x[1] = e /\ x[2] \in DOMAIN lots[e] /\ o \in Lots!ToSet(lots[x[1]][x[2]].orders)
    BY <1>1, <1>3, <2>1 DEF Lots!Holding
  <2>3. lots[e] \in Seq(LotRecord)
    BY <1>2
  <2> QED
    BY <2>1, <2>2, <2>3 DEF Holds, Held
<1>4. ASSUME NEW e \in Lots!EquipmentOf(p), NEW i \in Nat, Holds(e, i, o) PROVE <<e, i>> \in holding
  BY <1>1, <1>4 DEF Lots!Holding, Holds, Held
<1>5. \A x, y \in holding : x = y
  <2> SUFFICES ASSUME NEW x \in holding, NEW y \in holding PROVE x = y
    OBVIOUS
  <2>1. x[1] = y[1] /\ x[2] = y[2]
    BY <1>2, <1>3 DEF Knows
  <2> QED
    BY <1>3, <2>1
<1>6. CASE holding = {}
  <2>1. orderLots[o][p] = None
    BY <1>2, <1>4, <1>6 DEF Knows
  <2> QED
    BY <1>1, <1>5, <1>6, <2>1 DEF LotInv, Apart
<1>7. CASE holding # {}
  <2>1. PICK c : c = (CHOOSE x \in holding : TRUE) /\ c \in holding
    BY <1>7
  <2>2. orderLots[o][p] = lots[c[1]][c[2]].id
    BY <1>2, <1>3, <2>1 DEF Knows
  <2> QED
    BY <1>1, <1>5, <1>7, <2>1, <2>2 DEF LotInv, Apart
<1> QED
  BY <1>6, <1>7

(* From the pages that show solutions, the orders are transferred that were *)
(* chosen there, if the solution has not been stored anew since             *)
(* (start_transfer0, transfer_internal), and the outcome of a transfer      *)
(* reaches the page that asked for it (check_running_transfer).  In the     *)
(* snapshot they then leave the other lots of the process, and order and    *)
(* lot name each other (update_snapshot).                                   *)
THEOREM TransfersStaySound == PartsSpec => []TransfersAreSound
<1> USE PartsAssumption
<1> DEFINE Pages == IsPlanning => ChosenInv /\ AnswerInv
           Inv == Pages /\ (IsLots => LotInv)
<1>1. PartsInit => Inv
  <2>1. PartsInit => Pages
    BY PlanningInit DEF PartsInit, IsPlanning
  <2>2. PartsInit => (IsLots => LotInv)
    BY LotInit DEF PartsInit, IsLots
  <2> QED
    BY <2>1, <2>2
<1>2. Pages /\ [PartsNext]_partsVars => Pages'
  <2> SUFFICES ASSUME Pages, [PartsNext]_partsVars, IsPlanning' PROVE ChosenInv' /\ AnswerInv'
    BY Zenon
  <2>1. CASE IsPlanning /\ Planning!Next
    BY <2>1, ChosenNext, AnswersNext
  <2>2. CASE UNCHANGED <<part, varsPlanning>>
    <3>1. UNCHANGED <<solVersion, pages, pagesAsked, transferThread, answers, pageTransfers, lostTransfers>>
      BY <2>2 DEF varsPlanning
    <3>2. ChosenInv /\ AnswerInv
      BY <2>2 DEF IsPlanning
    <3>3. ChosenInv'
      BY <3>1, <3>2, ChosenUnchanged
    <3>4. AnswerInv'
      BY <3>1, <3>2 DEF AnswerInv, Awaited, Number
    <3> QED
      BY <3>3, <3>4
  <2> QED
    BY <2>1, <2>2 DEF PartsNext, IsRules, IsLongTerm, IsMoves, IsPlanning, IsLots, partsVars
<1>3. (IsLots => LotInv) /\ [PartsNext]_partsVars => (IsLots => LotInv)'
  <2> SUFFICES ASSUME IsLots => LotInv, [PartsNext]_partsVars, IsLots' PROVE LotInv'
    BY Zenon
  <2>1. CASE IsLots /\ Lots!Next
    <3>1. PICK e \in LotEquipment, id \in LotName, orders \in Lots!Sequences : Lots!Transfer(e, id, orders)
      BY <2>1 DEF Lots!Next
    <3> QED
      BY <2>1, <3>1, TransferStep
  <2>2. CASE UNCHANGED <<part, varsLots>>
    BY <2>2 DEF varsLots, IsLots, LotInv, Knows, Holds, Apart
  <2> QED
    BY <2>1, <2>2 DEF PartsNext, IsRules, IsLongTerm, IsMoves, IsPlanning, IsLots, partsVars
<1>4. Inv => TransfersAreSound
  BY TransfersSafe, LotsKnow DEF TransfersAreSound
<1> HIDE DEF Pages
<1> QED
  BY <1>1, <1>2, <1>3, <1>4, PTL DEF PartsSpec
=============================================================================
