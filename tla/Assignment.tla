----------------------------- MODULE Assignment -----------------------------
(***************************************************************************)
(* What an auction amounts to once its messages are forgotten: orders are  *)
(* given to lines one at a time, each to one line it may be processed on,  *)
(* a line takes orders until it has reached its tonnage or withdraws, and  *)
(* in the end every line has withdrawn.                                    *)
(***************************************************************************)
EXTENDS Naturals

CONSTANTS Equipment, Material, None, Allowed, Tons, Target

VARIABLES
  owner,    \* owner[m]: the equipment the order m is given to, or None
  load,     \* load[e]: the weight of the orders e has been given
  closed    \* closed[e]: e takes no more orders

vars == <<owner, load, closed>>

IsFirst(e) == \A m \in Material : owner[m] # e

Init ==
  /\ owner = [m \in Material |-> None]
  /\ load = [e \in Equipment |-> 0]
  /\ closed = [e \in Equipment |-> FALSE]

(* The target is looked at after an order has been taken: the first order   *)
(* of a line is taken whatever its target, and the last may exceed it.      *)
Assign(m, e) ==
  /\ owner[m] = None
  /\ e \in Allowed[m]
  /\ ~closed[e]
  /\ IsFirst(e) \/ load[e] < Target[e]
  /\ owner' = [owner EXCEPT ![m] = e]
  /\ load' = [load EXCEPT ![e] = @ + Tons[m]]
  /\ UNCHANGED closed

Close(e) ==
  /\ ~closed[e]
  /\ closed' = [closed EXCEPT ![e] = TRUE]
  /\ UNCHANGED <<owner, load>>

Next ==
  \/ \E m \in Material, e \in Equipment : Assign(m, e)
  \/ \E e \in Equipment : Close(e)

Steps == Init /\ [][Next]_vars

Spec == Steps /\ \A e \in Equipment : WF_vars(Close(e))
=============================================================================
