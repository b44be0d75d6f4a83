---------------------------- MODULE MCTaskQueue ----------------------------
(* Three client threads, one of which stops the thread. *)
EXTENDS TaskQueue, TLC

CONSTANTS c1, c2, c3

Symmetry == Permutations({c1, c2})
=============================================================================
