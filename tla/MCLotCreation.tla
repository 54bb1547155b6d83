--------------------------- MODULE MCLotCreation ---------------------------
(* Small lot creations for TLC. *)
EXTENDS LotCreationProperties, TLC

(* Threads are alike, and so are optimizations, if all or none has a timeout. *)
Alike == Permutations(Run) \cup Permutations(Optimizer)
=============================================================================
