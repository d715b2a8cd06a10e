------------------------- MODULE MCKernelGeneration -------------------------
(* Nothing ever depends on what a session that has ended leaves behind, on   *)
(* which timings an artifact was admitted with beyond whether they suffice,  *)
(* nor on any timing of a session beyond which rounds are done and the       *)
(* slowest of them; the properties tell no more apart either.                *)
EXTENDS KernelGeneration, FiniteSetsExt

Shown(file) ==
  IF file = NoFile THEN <<>> ELSE <<file.contract, file.kernel, file.by, Proven(file)>>

Summary(test) ==
  [test EXCEPT !.timings = <<{<<t.case, t.round>> : t \in @},
                             Min({Unmeasured} \cup {t.speedup : t \in @})>>]

WithoutRecords ==
  <<target, candidate, feedback, Shown(artifact), Shown(loaded),
    [s \in Sessions |->
       IF Running(s)
         THEN <<[generator[s] EXCEPT !.found = Shown(@)], compiler[s], Summary(tested[s])>>
         ELSE generator[s].pc = "idle"]>>
=============================================================================
