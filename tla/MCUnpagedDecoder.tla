-------------------------- MODULE MCUnpagedDecoder --------------------------
(* Between two calls nothing depends on what the last one was given or has   *)
(* returned; which token is which makes no difference.                       *)
EXTENDS UnpagedDecoder, TLC

WithoutAnswers ==
  <<executor, length, devLength, caches, phase, failures, IF phase = "staged" THEN <<call>> ELSE <<>> >>

TokenSymmetry == Permutations(Token)
=============================================================================
