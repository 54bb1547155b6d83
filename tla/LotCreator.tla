----------------------------- MODULE LotCreator -----------------------------
(***************************************************************************)
(* What the LotCreator promises those who share it, the GUI and the batch  *)
(* job, whatever a search does: it starts nothing while the run it knows   *)
(* is alive, it forgets no other run, and only the runs of an optimization *)
(* tell its listener of solutions.                                         *)
(***************************************************************************)
CONSTANTS Optimizer, Run, None

VARIABLES
  thread,    \* the run the LotCreator knows
  listener,  \* the optimization that can be continued
  work,      \* the optimization a run works on as long as its thread lives
  stopped,   \* whether a run was told to stop
  begun,     \* the runs that were ever started
  used,      \* the optimizations that were ever started
  shown      \* the optimizations whose listener has a solution

creatorState == <<thread, listener, work, stopped, begun, used, shown>>

Init ==
  /\ thread = None /\ listener = None
  /\ work = [r \in Run |-> None]
  /\ stopped = [r \in Run |-> FALSE]
  /\ begun = {} /\ used = {} /\ shown = {}

Busy == thread # None /\ work[thread] # None

Launch(r, o) ==
  /\ ~Busy /\ r \notin begun
  /\ thread' = r /\ listener' = o
  /\ work' = [work EXCEPT ![r] = o]
  /\ begun' = begun \cup {r}
  /\ UNCHANGED stopped

(* A new optimization, which may start from a result that is there already. *)
Start(r, o) ==
  /\ o \notin used
  /\ used' = used \cup {o}
  /\ shown' \in {shown, shown \cup {o}}
  /\ Launch(r, o)

Continue(r) ==
  /\ listener # None
  /\ Launch(r, listener)
  /\ UNCHANGED <<used, shown>>

Forget ==
  /\ ~Busy
  /\ thread' = None
  /\ UNCHANGED <<listener, work, stopped, begun, used, shown>>

Stop ==
  /\ thread # None
  /\ stopped' = [stopped EXCEPT ![thread] = TRUE]
  /\ thread' = None
  /\ UNCHANGED <<listener, work, begun, used, shown>>

Report(r) ==
  /\ work[r] # None
  /\ shown' = shown \cup {work[r]}
  /\ UNCHANGED <<thread, listener, work, stopped, begun, used>>

End(r) ==
  /\ work[r] # None
  /\ work' = [work EXCEPT ![r] = None]
  /\ UNCHANGED <<thread, listener, stopped, begun, used, shown>>

Next ==
  \/ Forget \/ Stop
  \/ \E r \in Run :
       \/ \E o \in Optimizer : Start(r, o)
       \/ Continue(r) \/ Report(r) \/ End(r)

Spec == Init /\ [][Next]_creatorState
=============================================================================
