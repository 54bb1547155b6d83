--------------------------- MODULE Restrictions ---------------------------
(***************************************************************************)
(* The temporary restrictions of equipment: which rules are active, with   *)
(* which settings, in memory and in a file that is replaced through a      *)
(* backup.  Users of the page change them concurrently, files fail to be   *)
(* written, and the service crashes and starts again.                      *)
(* (DynReActBase/dynreact/base/impl/FileBasedTemporaryRestrictionsProvider *)
(*  .py)                                                                   *)
(*                                                                         *)
(* A rule without parameters and selectable equipment is active or not; a  *)
(* configurable one has a list of settings, each of them active or not.    *)
(* Parameters and equipment of a setting are left out.  The dictionary of  *)
(* the rules is copied for a change, the lists in it are not: a dictionary *)
(* has numbers of lists, which are kept apart from it.                     *)
(***************************************************************************)
EXTENDS Integers, FiniteSets

CONSTANTS
  None,
  User,         \* threads that serve the users
  Plain,        \* rules without settings
  Configurable, \* rules with settings
  Setting,      \* ids of the settings, given by add()
  MaxLists      \* (bound) lists of one rule that are in use at a time

RestrictionsAssumption ==
  /\ Plain \cap Configurable = {} /\ None \notin User \cup Plain \cup Configurable
  /\ MaxLists \in Nat \ {0}

VARIABLES
  rules,     \* _active_rules: the rules it has an entry for, and their lists
  lists,     \* of each configurable rule and number: settings, and whether they are active
  broken,    \* _active_rules is no dictionary any more
  active, backup,  \* the two files
  holder,    \* of _active_rules_lock
  pc, op,    \* of the threads; what one that is in delete() is to delete, and the rules it has read
  saved,     \* current_rules of the thread that holds the lock, and whether they are a dictionary
  committed,   \* (observed) what the last completed change, or start, has left
  copyFailed   \* (observed) the last copy onto the active file has failed

vars == <<rules, lists, broken, active, backup, holder, pc, op, saved, committed, copyFailed>>

Rule == Plain \cup Configurable
Absent == [kind |-> "absent"]
Corrupt == [kind |-> "corrupt"]
Empty == [s \in {} |-> FALSE]
Memory == [r \in DOMAIN rules |-> IF r \in Plain THEN Empty ELSE lists[r][rules[r]]]
File(content) == [kind |-> "rules", rules |-> content]
NoRules == [r \in {} |-> Empty]
Parsed(file) == IF file = Absent THEN NoRules ELSE file.rules
NoOp == [read |-> NoRules]

fileVars == <<active, backup, copyFailed>>

-----------------------------------------------------------------------------
(* A change, with the lock: to which rules, lists, and what to go back to.  *)
Change(u, newRules, newLists, goBackTo, isAdd) ==
  /\ holder = None
  /\ rules' = newRules /\ lists' = newLists /\ broken' = FALSE
  /\ holder' = u
  /\ saved' = [rules |-> goBackTo, isList |-> isAdd]
  /\ pc' = [pc EXCEPT ![u] = "write"] /\ op' = [op EXCEPT ![u] = NoOp]
  /\ UNCHANGED <<fileVars, committed>>

Put(f, s, on) == [t \in DOMAIN f \cup {s} |-> IF t = s THEN on ELSE f[t]]
Drop(f, s) == [t \in DOMAIN f \ {s} |-> f[t]]
ListOf(r) == IF r \in DOMAIN rules THEN lists[r][rules[r]] ELSE Empty

(* The list a setting is put into: the one there is, or a new one, which no *)
(* dictionary that is still in use has.                                     *)
InUse(r, n) == \E d \in {rules} \cup {op[u].read : u \in User} : r \in DOMAIN d /\ d[r] = n
NumberFor(r, n) ==
  IF r \in DOMAIN rules THEN n = rules[r]
  ELSE ~InUse(r, n) /\ \A k \in 1 .. n - 1 : InUse(r, k)

PutSetting(u, r, s, on, isAdd) ==
  \E n \in 1 .. MaxLists :
    /\ NumberFor(r, n)
    /\ Change(u, Put(rules, r, n), [lists EXCEPT ![r][n] = Put(ListOf(r), s, on)], rules, isAdd)

(* store() and add() read the rules with the lock.  What they look up       *)
(* before, or refuse, changes nothing: an inactive setting is not switched  *)
(* off without its parameters, and nothing can be stored or added any more  *)
(* after add() has gone back to a list.                                     *)
Store(u) ==
  /\ pc[u] = "idle" /\ ~broken
  /\ \E on \in BOOLEAN :
       \/ \E r \in Plain : Change(u, IF on THEN Put(rules, r, 0) ELSE Drop(rules, r), lists, rules, FALSE)
       \/ \E r \in Configurable, s \in Setting : PutSetting(u, r, s, on, FALSE)

Add(u) ==
  /\ pc[u] = "idle" /\ ~broken
  /\ \E r \in Configurable : \E s \in Setting \ DOMAIN ListOf(r) : PutSetting(u, r, s, FALSE, TRUE)

(* delete() reads the rules before it takes the lock.  What is deleted      *)
(* from, and gone back to, are those: what others have added or removed     *)
(* since is undone, and rules that were no dictionary are one again.        *)
BeginDelete(u) ==
  /\ pc[u] = "idle" /\ ~broken
  /\ \E r \in DOMAIN rules, s \in Setting : op' = [op EXCEPT ![u] = [rule |-> r, id |-> s, read |-> rules]]
  /\ pc' = [pc EXCEPT ![u] = "delete"]
  /\ UNCHANGED <<rules, lists, broken, fileVars, holder, saved, committed>>

HasSetting(u) == op[u].rule \in Configurable => op[u].id \in DOMAIN lists[op[u].rule][op[u].read[op[u].rule]]

Delete(u) ==
  /\ pc[u] = "delete" /\ HasSetting(u)
  /\ LET r == op[u].rule
         read == op[u].read
     IN IF r \in Plain
        THEN Change(u, Drop(read, r), lists, read, FALSE)
        ELSE Change(u, read, [lists EXCEPT ![r][read[r]] = Drop(@, op[u].id)], read, FALSE)

Return(u) == pc' = [pc EXCEPT ![u] = "idle"] /\ op' = [op EXCEPT ![u] = NoOp]

NothingToDelete(u) ==
  /\ pc[u] = "delete" /\ holder = None /\ ~HasSetting(u)
  /\ Return(u)
  /\ UNCHANGED <<rules, lists, broken, fileVars, holder, saved, committed>>

-----------------------------------------------------------------------------
(* _store_rules().  A file that is being written is corrupt until it is     *)
(* closed; the backup is read again before it is copied.                    *)
Writes(u, at, next) == pc[u] = at /\ pc' = [pc EXCEPT ![u] = next]

StartBackup(u) ==
  /\ Writes(u, "write", "backup") /\ DOMAIN rules # {}
  /\ backup' = Corrupt
  /\ UNCHANGED <<rules, lists, broken, active, holder, op, saved, committed, copyFailed>>

EndBackup(u) ==
  /\ Writes(u, "backup", "copy")
  /\ backup' = File(Memory)
  /\ UNCHANGED <<rules, lists, broken, active, holder, op, saved, committed, copyFailed>>

StartCopy(u) ==
  /\ Writes(u, "copy", "close")
  /\ active' = Corrupt /\ copyFailed' = FALSE
  /\ UNCHANGED <<rules, lists, broken, backup, holder, op, saved, committed>>

Finish(u) ==
  /\ Return(u)
  /\ holder' = None /\ saved' = None
  /\ committed' = Memory
  /\ UNCHANGED <<rules, lists, broken>>

EndCopy(u) ==
  /\ pc[u] = "close"
  /\ active' = backup
  /\ Finish(u)
  /\ UNCHANGED <<backup, copyFailed>>

(* Without a rule the files are removed, the backup first.                  *)
RemoveBackup(u) ==
  /\ Writes(u, "write", "remove") /\ DOMAIN rules = {}
  /\ backup' = Absent
  /\ UNCHANGED <<rules, lists, broken, active, holder, op, saved, committed, copyFailed>>

RemoveActive(u) ==
  /\ pc[u] = "remove"
  /\ active' = Absent /\ copyFailed' = FALSE
  /\ Finish(u)
  /\ UNCHANGED backup

(* A file could not be written, copied or removed, not even a second time:  *)
(* the dictionary is set back, though not the lists, which were changed in  *)
(* place; by add() it is set to the list of the rule.  A copy fails before, *)
(* during or after the content is written.                                  *)
Fail(u) ==
  /\ \/ pc[u] \in {"write", "backup", "copy", "remove"} /\ UNCHANGED <<active, copyFailed>>
     \/ pc[u] = "close" /\ active' \in {Corrupt, backup} /\ copyFailed' = TRUE
  /\ rules' = saved.rules /\ broken' = saved.isList
  /\ Return(u)
  /\ holder' = None /\ saved' = None
  /\ UNCHANGED <<lists, backup, committed>>

(* The service starts again: the active file is read, or else the backup,   *)
(* which is copied onto it; whether that fails is ignored.  Without a file  *)
(* that can be read it does not start.                                      *)
OnlyActive == active
Readable == IF active = Corrupt THEN backup ELSE active

Restart ==
  /\ Readable # Corrupt
  /\ LET read == Parsed(Readable) IN
     /\ rules' = [r \in DOMAIN read |-> IF r \in Plain THEN 0 ELSE 1]
     /\ lists' = [r \in Configurable |-> [n \in 1 .. MaxLists |->
                     IF n = 1 /\ r \in DOMAIN read THEN read[r] ELSE Empty]]
     /\ committed' = read
  /\ active' \in {active, Readable} /\ copyFailed' = (active' = Corrupt)
  /\ broken' = FALSE /\ holder' = None /\ saved' = None
  /\ pc' = [u \in User |-> "idle"] /\ op' = [u \in User |-> NoOp]
  /\ UNCHANGED backup

Init ==
  /\ rules = NoRules /\ lists = [r \in Configurable |-> [n \in 1 .. MaxLists |-> Empty]] /\ broken = FALSE
  /\ active = Absent /\ backup = Absent
  /\ holder = None /\ saved = None
  /\ pc = [u \in User |-> "idle"] /\ op = [u \in User |-> NoOp]
  /\ committed = NoRules /\ copyFailed = FALSE

Step(u) ==
  \/ Store(u) \/ Add(u) \/ BeginDelete(u) \/ Delete(u) \/ NothingToDelete(u)
  \/ StartBackup(u) \/ EndBackup(u) \/ StartCopy(u) \/ EndCopy(u)
  \/ RemoveBackup(u) \/ RemoveActive(u) \/ Fail(u)

Next == (\E u \in User : Step(u)) \/ Restart

Spec == Init /\ [][Next]_vars

-----------------------------------------------------------------------------
Place == {"idle", "delete", "write", "backup", "copy", "close", "remove"}
Lists == UNION {[d -> BOOLEAN] : d \in SUBSET Setting}

(* Every variable keeps its type.                                           *)
RestrictionsTypeOK ==
  /\ DOMAIN rules \subseteq Rule /\ \A r \in DOMAIN rules : rules[r] \in IF r \in Plain THEN {0} ELSE 1 .. MaxLists
  /\ lists \in [Configurable -> [1 .. MaxLists -> Lists]] /\ {broken, copyFailed} \subseteq BOOLEAN
  /\ active.kind \in {"absent", "corrupt", "rules"} /\ backup.kind \in {"absent", "corrupt", "rules"}
  /\ holder \in User \cup {None} /\ pc \in [User -> Place]

(* Whenever the service crashes, the rules it starts with are those of the  *)
(* last completed change or of the one that was under way, never others and *)
(* never none: one of the two files can always be read.  Except after a     *)
(* copy onto the active file has failed, for a change or at a start: until  *)
(* the next one is begun, the change reported as failed may come back, and  *)
(* a crash while that next change writes its backup leaves neither file.    *)
CrashKeepsRules ==
  \/ copyFailed
  \/ /\ Readable # Corrupt
     /\ Parsed(Readable) \in {committed, Memory}

=============================================================================
