---------------------------- MODULE MCSnapshots ----------------------------
EXTENDS SnapshotProperties, TLC

CONSTANTS l1, l2, u1, u2
Times == 1..2
Requests == {1, 3}
(* 3 is a time with no snapshot near it, for which the latest is loaded.    *)
NearOf == (1 :> 1) @@ (2 :> 2) @@ (3 :> None)
LoadOf == (1 :> 1) @@ (2 :> 2) @@ (3 :> 2)
Symmetric == Permutations({u1, u2}) \cup Permutations({l1, l2})
=============================================================================
