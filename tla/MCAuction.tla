----------------------------- MODULE MCAuction -----------------------------
(* Small auctions for TLC.  Materials and equipments are model values. *)
EXTENDS AuctionProperties

CONSTANTS e1, e2, m1, m2, m3

(* m3, where it takes part, may only be processed on e2. *)
MCAllowed == [m \in Material |-> IF m = m3 THEN {e2} \cap Equipment ELSE Equipment]
MCTons == [m \in Material |-> IF m = m2 THEN 2 ELSE 1]
(* Only m3 may leave e1, which takes all it can get: three rounds of e1.  *)
AllOnE1 == [m \in Material |-> IF m = m3 THEN Equipment ELSE {e1}]
NoTarget == [e \in Equipment |-> 9]
(* Two tons are enough for e1, so it ends on its target; e2 ends for want of bids. *)
MCTarget == [e \in Equipment |-> IF e = e1 THEN 2 ELSE 9]
PrefixFree == [m \in Material |-> {m}]
(* The ids of m1 and m2 are, say, 1003 and 10031: the name of m2 contains *)
(* the name of m1.                                                        *)
M1PrefixOfM2 == [m \in Material |-> IF m = m1 THEN {m1, m2} \cap Material ELSE {m}]
=============================================================================
