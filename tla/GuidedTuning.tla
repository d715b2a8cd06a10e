----------------------------- MODULE GuidedTuning -----------------------------
(***************************************************************************)
(* The choice of kernels by measurement: compileGraph                      *)
(* (src/src/runtime/GraphExecutor.cpp) tunes every RMSNorm of the program  *)
(* (src/src/planner/RMSNormTuner.cpp), then every region that can be       *)
(* fused, over the candidates the advice leaves it, and the decoder tunes  *)
(* its matrix products (src/src/planner/DecodeGEMVTuner.cpp).  Each tuner  *)
(* compares with a baseline that it falls back on; on the device every     *)
(* build, execution and measurement may come out either way.               *)
(***************************************************************************)
EXTENDS AdvisorProtocol
Seqs == INSTANCE SequencesExt

CONSTANTS
  Times,        \* durations a sample may have
  Samples,      \* per execution and round
  InputSizes,   \* of the matrix products
  GEMVConfigs,  \* GEMVConfigs[prefill]: the candidates for them, in order
  MinimumSpeedup

Configurations == [threads : Nat, width : Nat \ {0}, tile : Nat, simd : BOOLEAN]

ASSUME TuningAssumption ==
  /\ Times \subseteq Nat \ {0} /\ Samples \in Nat \ {0}
  /\ InputSizes \subseteq Nat /\ GEMVConfigs \in [BOOLEAN -> Seq(Configurations)]
  /\ MinimumSpeedup \in Nat /\ MinimumSpeedup > 100

VARIABLES
  todo,      \* what is still to be tuned, the first of it under way
  tuning,    \* the tuner at work
  norms,     \* norms[r][k]: the kernel chosen for an RMSNorm of a region
  fused,     \* fused[r]: the fused kernel chosen for a region
  result     \* what the last tuner returned

tuningVars == <<todo, tuning, norms, fused, result>>
vars == <<adviceVars, tuningVars>>

---------------------------------------------------------------------------
(* Measurements *)

Least(a, b) == IF a <= b THEN a ELSE b

\* Sorted, the samples of a round have any of the times in the middle, or any two
\* of them when their number is even: the median is then the mean of the two.
Medians == IF Samples % 2 = 0 THEN {(a + b) \div 2 : a, b \in Times} ELSE Times

\* Speedups in percent of what a paired round may measure.
Speedups == {(100 * pair[1]) \div pair[2] : pair \in Medians \X Medians}

\* The two rounds of a candidate that reaches the minimum in both, with the
\* lower of them.
Trials ==
  {trial \in [first : Speedups, confirmation : Speedups, speedup : Speedups] :
     /\ trial.first >= MinimumSpeedup
     /\ trial.speedup = Least(trial.first, trial.confirmation)
     /\ trial.speedup >= MinimumSpeedup}

---------------------------------------------------------------------------
(* The tuners *)

Config(threads) == [threads |-> threads, width |-> 1, tile |-> 0, simd |-> FALSE]
NoTrial == [first |-> 100, confirmation |-> 100, speedup |-> 100]
Candidate(config, trial) == [config |-> config, trial |-> trial]
Baseline == Candidate(Config(0), NoTrial)

Task(tuner, region, norm, candidates) ==
  [tuner |-> tuner, region |-> region, norm |-> norm, candidates |-> candidates,
   inputSize |-> 0, prefill |-> FALSE]
GEMVTask(inputSize, prefill) ==
  [Task("gemv", 0, 0, GEMVConfigs[prefill]) EXCEPT !.inputSize = inputSize, !.prefill = prefill]

Configs(threads) == [i \in DOMAIN threads |-> Config(threads[i])]

NormTasks ==
  Seqs!FlattenSeq([r \in RegionIds |-> [k \in 1 .. program[r].norms |->
    Task("rmsnorm", r, k, Configs(threadsFor(r, "rmsnorm", ThreadCandidates)))]])

FusionTasks ==
  Seqs!FlattenSeq([r \in RegionIds |->
    IF program[r].fusion = "None" THEN <<>>
    ELSE <<Task("fusion", r, 0, Configs(threadsFor(r, "fusion", ThreadCandidates)))>>])

FusionsFirst == FusionTasks \o NormTasks
Tasks == NormTasks \o FusionTasks

\* The limits on the size of the tensors are the same for the baseline, which
\* they refuse first.
RMSNormFilter(threads) ==
  /\ threads \in {1, 2, 4, 8, 16, 32, 64, 128, 256, 512, 1024}
  /\ threads <= device.threads /\ threads <= device.floats

FusionScratch(region) ==
  CASE region.fusion = "AddLayerNorm" -> 2
    [] region.fusion = "AddRMSNorm" -> 1
    [] OTHER -> 0
FusionFilter(region, threads) ==
  /\ threads <= device.threads
  /\ threads * FusionScratch(region) <= device.floats

GEMVFilter(task, config) ==
  /\ config.threads <= device.threads
  /\ config.threads * (IF task.prefill THEN 2 ELSE 1) <= device.floats
  /\ task.inputSize % config.width = 0

HardwareFilter(task, config) ==
  CASE task.tuner = "rmsnorm" -> RMSNormFilter(config.threads)
    [] task.tuner = "fusion" -> FusionFilter(program[task.region], config.threads)
    [] task.tuner = "gemv" -> GEMVFilter(task, config)

\* RMSNorm and GEMV keep a winner as they go; the fusions look for the first
\* maximum at the end.
Latest(winner, candidate) == candidate
Better(winner, candidate) ==
  IF candidate.trial.speedup > winner.trial.speedup THEN candidate ELSE winner

max_element(admitted) ==
  admitted[CHOOSE i \in DOMAIN admitted :
             /\ \A j \in DOMAIN admitted : admitted[j].trial.speedup <= admitted[i].trial.speedup
             /\ \A j \in 1 .. i - 1 : admitted[j].trial.speedup < admitted[i].trial.speedup]

---------------------------------------------------------------------------
Resting == [step |-> "rest", left |-> <<>>, timed |-> FALSE, winner |-> Baseline,
            admitted |-> <<>>]
NoResult == [tuner |-> "none", chosen |-> Baseline, admitted |-> <<>>, rejected |-> {}]
Untuned == [chosen |-> Baseline, right |-> FALSE]
Unfused == [chosen |-> Baseline, beat |-> <<>>]

Kernels(p) == [r \in DOMAIN p |-> [k \in 1 .. p[r].norms |-> Untuned]]
Choices(p) == [r \in DOMAIN p |-> Unfused]

TuningInit == todo = <<>> /\ tuning = Resting /\ norms = <<>> /\ fused = <<>> /\ result = NoResult
TInit == Init /\ TuningInit

\* compileGraph, once the advice is read.
StartGraph ==
  /\ Guided
  /\ todo' = Tasks /\ norms' = Kernels(program) /\ fused' = Choices(program)
  /\ UNCHANGED <<tuning, result>>

\* The decoder's compilation tunes one of its products.
StartProduct(inputSize, prefill) ==
  /\ phase = "idle" /\ phase' = "tuning"
  /\ todo' = <<GEMVTask(inputSize, prefill)>>
  /\ UNCHANGED <<device, program, file, hints, seen, ranked, tuning, norms, fused, result>>

task == Head(todo)
Tuning(step) == phase = "tuning" /\ todo # <<>> /\ tuning.step = step

\* What an exception leaves of a compilation.
Abandoned ==
  /\ phase' = "failed"
  /\ todo' = <<>> /\ tuning' = Resting /\ norms' = <<>> /\ fused' = <<>> /\ result' = NoResult
  /\ UNCHANGED <<device, program, file, hints, seen, ranked>>

\* The baseline is built, validated and warmed up; without it there is nothing
\* to fall back on.  Only RMSNorm goes on when its timing is of no use.
BaselineFails == Tuning("rest") /\ Abandoned
BaselineReady(timed) ==
  /\ Tuning("rest")
  /\ task.tuner = "rmsnorm" => RMSNormFilter(256)
  /\ task.tuner # "rmsnorm" => timed
  /\ tuning' = [Resting EXCEPT !.step = "candidates", !.left = task.candidates, !.timed = timed]
  /\ result' = NoResult
  /\ UNCHANGED <<adviceVars, todo, norms, fused>>

\* A candidate is beyond the limits, does not build, computes wrong values,
\* fails while it is warmed up or timed, or is too slow in one of two rounds.
Reject ==
  /\ Tuning("candidates") /\ tuning.left # <<>>
  /\ tuning' = [tuning EXCEPT !.left = Tail(@)]
  /\ UNCHANGED <<adviceVars, todo, norms, fused, result>>

Admit(trial) ==
  /\ Tuning("candidates") /\ tuning.left # <<>> /\ tuning.timed
  /\ HardwareFilter(task, Head(tuning.left))
  /\ LET candidate == Candidate(Head(tuning.left), trial) IN
     tuning' = [tuning EXCEPT !.left = Tail(@), !.admitted = Append(@, candidate),
                              !.winner = Better(@, candidate)]
  /\ UNCHANGED <<adviceVars, todo, norms, fused, result>>

Judged == Tuning("candidates") /\ tuning.left = <<>>

\* rejected: the winner, if its last execution cost it its admission.
Returned(chosen, rejected) ==
  [tuner |-> task.tuner, chosen |-> chosen, admitted |-> tuning.admitted, rejected |-> rejected]

\* The selection is executed once more, and the baseline if that fails:
\* runs[1] and runs[2] say which of the two executions are right.
WinnerKept(winner, runs) == winner
Settled(winner, runs) == IF runs[1] THEN winner ELSE Baseline
RanRight(runs) ==
  IF runs[1] THEN {tuning.winner}
  ELSE IF runs[2] /\ tuning.winner # Baseline THEN {Baseline} ELSE {}
RanWrong(runs) == IF runs[1] THEN {} ELSE {tuning.winner}

SelectNorm(runs) ==
  /\ Judged /\ task.tuner = "rmsnorm"
  /\ RanRight(runs) # {}
  /\ LET chosen == Settled(tuning.winner, runs) IN
     /\ norms' = [norms EXCEPT ![task.region][task.norm] =
                    [chosen |-> chosen, right |-> chosen \in RanRight(runs)]]
     /\ result' = Returned(chosen, RanWrong(runs))
  /\ todo' = Tail(todo) /\ tuning' = Resting
  /\ UNCHANGED <<adviceVars, fused>>

FinalRunFails == Judged /\ task.tuner = "rmsnorm" /\ Abandoned

\* The baseline that was timed runs the RMSNorm kernels chosen so far.
SelectFusion ==
  /\ Judged /\ task.tuner = "fusion"
  /\ LET chosen == IF tuning.admitted = <<>> THEN Baseline ELSE max_element(tuning.admitted) IN
     /\ fused' = [fused EXCEPT ![task.region] =
                    IF chosen = Baseline THEN Unfused
                    ELSE [chosen |-> chosen, beat |-> norms[task.region]]]
     /\ result' = Returned(chosen, {})
  /\ todo' = Tail(todo) /\ tuning' = Resting
  /\ UNCHANGED <<adviceVars, norms>>

SelectProduct ==
  /\ Judged /\ task.tuner = "gemv"
  /\ result' = Returned(tuning.winner, {})
  /\ todo' = Tail(todo) /\ tuning' = Resting /\ phase' = "compiled"
  /\ UNCHANGED <<device, program, file, hints, seen, ranked, norms, fused>>

\* The chosen kernels are built again, into one sequence for each region.
Assemble ==
  /\ phase = "tuning" /\ todo = <<>> /\ tuning = Resting
  /\ \/ /\ phase' = "compiled" /\ result' = NoResult
        /\ UNCHANGED <<device, program, file, hints, seen, ranked, todo, tuning, norms, fused>>
     \/ Abandoned

Discard == Return /\ norms' = <<>> /\ fused' = <<>> /\ result' = NoResult /\ UNCHANGED <<todo, tuning>>

Consult ==
  /\ \/ \E p \in Programs : Export(p)
     \/ \E answer \in Answers : Advise(answer)
     \/ LoadAdvice
     \/ ConsiderHint
  /\ UNCHANGED tuningVars

Next ==
  \/ Consult
  \/ StartGraph
  \/ \E inputSize \in InputSizes, prefill \in BOOLEAN : StartProduct(inputSize, prefill)
  \/ BaselineFails \/ \E timed \in BOOLEAN : BaselineReady(timed)
  \/ Reject \/ \E trial \in Trials : Admit(trial)
  \/ \E runs \in BOOLEAN \X BOOLEAN : SelectNorm(runs)
  \/ FinalRunFails \/ SelectFusion \/ SelectProduct
  \/ Assemble \/ Discard

Spec == TInit /\ [][Next]_vars

---------------------------------------------------------------------------
FilterOf(region, kind, threads) ==
  IF kind = "rmsnorm" THEN RMSNormFilter(threads) ELSE FusionFilter(region, threads)

\* Whatever the advisor file says, and whichever program it was written for, a
\* tuner gets the compiler's own candidates or a ranking of at most the budget
\* of them, none twice, and none that its own hardware filter would then refuse.
AdviceOnlyNarrows ==
  \A r \in RegionIds : \A kind \in Kinds :
    LET list == ranked[r][kind] IN
    /\ Len(list) <= CandidateBudget
    /\ \A i \in DOMAIN list :
         /\ HasKind(program[r], kind)
         /\ list[i] \in Threads /\ FilterOf(program[r], kind, list[i])
         /\ \A j \in DOMAIN list : list[j] = list[i] => j = i

RoundsOf(candidate) == {candidate.trial.first, candidate.trial.confirmation}

\* Among the admitted, at least the minimum in both rounds, and in the slower of
\* its rounds no slower than any other is in the slower of its own.
FastestAdmitted(winner) ==
  /\ \E i \in DOMAIN result.admitted : result.admitted[i] = winner
  /\ \A round \in RoundsOf(winner) :
       /\ round >= MinimumSpeedup
       /\ \A i \in DOMAIN result.admitted : \E mine \in RoundsOf(result.admitted[i]) : mine <= round

\* A tuner returns the fastest of the candidates that it admitted, and its
\* baseline only if it admitted none or, for RMSNorm, if the last execution of
\* the fastest was found wrong; what was found wrong is never returned
\* (RMSNormTuner.cpp 270-297, GraphExecutor.cpp 299-312, DecodeGEMVTuner.cpp
\* 284-303).
FastestAdmittedIsChosen ==
  /\ result.chosen \notin result.rejected
  /\ IF result.chosen = Baseline
     THEN result.admitted = <<>> \/ \E winner \in result.rejected : FastestAdmitted(winner)
     ELSE FastestAdmitted(result.chosen)

\* An RMSNorm kernel goes into the executable only if its own last execution
\* was compared with the reference and found right.
ChosenNormsRanRight ==
  phase = "compiled" => \A r \in DOMAIN norms : \A k \in DOMAIN norms[r] : norms[r][k].right

\* A fused kernel was measured against the kernels it replaces: those that the
\* region would run unfused in the same executable.
FusionReplacesWhatItBeat ==
  phase = "compiled" =>
    \A r \in DOMAIN fused : fused[r] # Unfused => fused[r].beat = norms[r]
=============================================================================
