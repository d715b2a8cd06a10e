--------------------------- MODULE MCPagedDecoder ---------------------------
(* The allocation counters only grow and nothing here depends on them, nor,  *)
(* between two calls, on what the last one was given or has returned; which  *)
(* token is which makes no difference.                                       *)
EXTENDS PagedDecoder, TLC

WithoutCounters ==
  <<[l \in Layers |-> pools[l].free], kv, cells, phase,
    IF phase = "idle" THEN <<>> ELSE <<call>>, checked, copy, resetDue, failures>>

TokenSymmetry == Permutations(Token)
=============================================================================
