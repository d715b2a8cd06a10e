--------------------------- MODULE MCGuidedTuning ---------------------------
(* Two devices, of which the smaller refuses the largest AddLayerNorm       *)
(* kernel; advice about both programs and about neither.                    *)
EXTENDS GuidedTuning, TLC

Norm == [fusion |-> "None", norms |-> 1]
AddNormRegion == [fusion |-> "AddRMSNorm", norms |-> 1]
AddLayerNormRegion == [fusion |-> "AddLayerNorm", norms |-> 0]
MCPrograms == {<<AddNormRegion, AddLayerNormRegion>>, <<AddLayerNormRegion, Norm>>}
MCDevices == {[threads |-> 256, floats |-> 256], [threads |-> 256, floats |-> 1024]}

Id(r, kind, threads) == [region |-> r, kind |-> kind, threads |-> threads]
MCIds == {Id(1, "fusion", 64), Id(1, "fusion", 128), Id(1, "fusion", 256), Id(2, "rmsnorm", 512),
          Id(2, "rmsnorm", 64)}
MCAnswers ==
  {<<>>, <<[region |-> 1, ids |-> <<>>], [region |-> 1, ids |-> <<>>]>>,
   <<[region |-> 3, ids |-> <<Id(3, "fusion", 64)>>]>>}
  \cup {<<[region |-> 1, ids |-> ids]>> : ids \in UNION {[1 .. n -> MCIds] : n \in 1 .. 3}}

Scalar(threads, width, simd) == [threads |-> threads, width |-> width, tile |-> 0, simd |-> simd]
Tile(threads, tile) == [threads |-> threads, width |-> 1, tile |-> tile, simd |-> FALSE]
MCGEMVConfigs ==
  (FALSE :> <<Scalar(32, 1, FALSE), Scalar(64, 1, FALSE), Scalar(128, 1, FALSE),
              Scalar(32, 4, FALSE), Scalar(32, 1, TRUE)>>) @@
  (TRUE :> <<Tile(64, 8), Tile(256, 16)>>)

\* Every content of the file is an initial one, so it matters only while it can
\* be read; what was seen matters while hints are considered.
WithoutPast ==
  <<device, program, IF phase = "idle" THEN file ELSE NoFile, phase, hints,
    IF phase = "guiding" THEN seen ELSE {}, ranked, tuningVars>>
=============================================================================
