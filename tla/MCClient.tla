------------------------------ MODULE MCClient ------------------------------
(* Two pages with two names, where an auction has a LOG and one more agent; *)
(* two workers with room for one replica each, which is asked for three     *)
(* times.  Names are alike, so that the field of one page may be fixed at   *)
(* first.  With two or three clicks a start asks again after silence and    *)
(* after answers that have not changed, and gives up at the third, which is *)
(* the default; with four, for two pages that create and start an auction   *)
(* each, it gives up at the first.                                          *)
EXTENDS ClientAndContainers, TLC

CONSTANTS p1, p2, n1, n2, w1, w2, base, r1, t1

FieldAtFirst == {f \in [Page -> Name] : f[p1] = n1}
LimitsOfStarts == {
  [silent |-> 3, stable |-> 1, clicks |-> 2], [silent |-> 2, stable |-> 3, clicks |-> 2],
  [silent |-> 2, stable |-> 2, clicks |-> 3], [silent |-> 1, stable |-> 1, clicks |-> 4]}

ParentOfReplica == r1 :> base
TopicOfReplica == r1 :> t1
=============================================================================
