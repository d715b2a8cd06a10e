-------------------------- MODULE MCSharedPagePool --------------------------
(* A small instance of SharedPagePool; the configuration gives the numbers. *)
EXTENDS SharedPagePool, TLC

Symmetry == Permutations(Requests)

=============================================================================
