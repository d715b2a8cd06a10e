-------------------------- MODULE KernelGeneration --------------------------
(***************************************************************************)
(* One pattern's directory of generated kernels: the sessions of           *)
(* src/tools/llm_kernel_generator.py that write candidates into it, the    *)
(* compiler processes that admit them                                      *)
(* (src/src/runtime/GeneratedKernelAdmission.cpp) and the decoders that    *)
(* load what was admitted (KernelRegistry.mm).  The sessions and their     *)
(* compilers share the files candidate.json, feedback.json and             *)
(* admitted.json; every step of either process may fail, and either may    *)
(* die between any two of them.                                            *)
(***************************************************************************)
EXTENDS Integers, Sequences

CONSTANTS
  Sessions,      \* runs of the generator
  Concurrent,    \* whether a run may start while another one is under way
  Contracts,     \* the texts serializeKernelContract can produce, device included
  Native,        \* those whose storage type the device supports
  Kernels,       \* the well-formed responses of the endpoint
  NCases,        \* cases of a contract
  NRounds,       \* paired performance rounds per case
  MaxSpeedup,    \* speedups are measured as 1 .. MaxSpeedup
  MinimumSpeedup,
  MaxAttempts

ASSUME GenerationAssumption ==
  /\ Concurrent \in BOOLEAN
  /\ Native \subseteq Contracts
  /\ NCases \in Nat \ {0} /\ NRounds \in Nat \ {0} /\ MaxAttempts \in Nat \ {0}
  /\ MaxSpeedup \in Nat \ {0} /\ MinimumSpeedup \in 1 .. MaxSpeedup

VARIABLES
  target,      \* the contract that the compiler as built, on this device, makes
  candidate,   \* candidate.json
  feedback,    \* feedback.json
  artifact,    \* admitted.json
  generator,   \* generator[s]: the Python process
  compiler,    \* compiler[s]: the compiler process it runs
  tested,      \* tested[s]: what that process has seen the candidate do
  loaded       \* what a decoder's kernel registry holds for the pattern

vars == <<target, candidate, feedback, artifact, generator, compiler, tested, loaded>>
files == <<candidate, feedback, artifact>>

Cases == 1 .. NCases
Rounds == 1 .. NRounds
Speedups == 1 .. MaxSpeedup
Unmeasured == MaxSpeedup + 1        \* infinity, before the first round
Timings == [case : Cases, round : Rounds, speedup : Speedups]

NoVerdict == [status |-> "none", speedup |-> Unmeasured]
AtRest(pc) == [pc |-> pc, case |-> 1, round |-> 1, worst |-> Unmeasured,
               slowest |-> Unmeasured, verdict |-> NoVerdict, passed |-> FALSE]

NoFile == [is |-> "absent"]
Torn == [is |-> "torn"]             \* empty or cut off; no JSON reader accepts it
Kernel(k) == [is |-> "kernel", kernel |-> k]
Malformed == [is |-> "malformed"]   \* complete, but not the JSON object asked for

Untested == [contract |-> NoFile, kernel |-> NoFile, inspected |-> FALSE,
             checked |-> {}, timings |-> {}, rechecked |-> {}]

\* Passed every gate: reflection and limits, all cases before and after the
\* timed rounds, and every round of every case fast enough.
Admissible(test) ==
  /\ test.inspected
  /\ test.checked = Cases /\ test.rechecked = Cases
  /\ \A c \in Cases, r \in Rounds :
       \E t \in test.timings : t.case = c /\ t.round = r
  /\ \A t \in test.timings : t.speedup >= MinimumSpeedup

Init ==
  /\ target \in Contracts
  /\ candidate = NoFile /\ feedback = NoFile /\ artifact = NoFile
  /\ generator = [s \in Sessions |-> [pc |-> "idle", attempt |-> 0, response |-> NoFile,
                                      previous |-> <<>>, found |-> NoFile]]
  /\ compiler = [s \in Sessions |-> AtRest("none")]
  /\ tested = [s \in Sessions |-> Untested]
  /\ loaded = NoFile

-----------------------------------------------------------------------------
(* The generator.                                                            *)

Ended == {"idle", "admitted", "fallback", "failed"}
Running(s) == generator[s].pc \notin Ended

Goto(s, pc) == generator' = [generator EXCEPT ![s].pc = pc]

\* The environment and the principles are read and the contract is emitted,
\* which the compiler refuses for a storage type the device lacks.
Start(s) ==
  /\ generator[s].pc = "idle"
  /\ Concurrent \/ \A t \in Sessions : ~Running(t)
  /\ \E pc \in {"failed"} \cup (IF target \in Native THEN {"ask"} ELSE {}) :
       generator' = [generator EXCEPT ![s].pc = pc, ![s].attempt = 1, ![s].found = artifact]
  /\ UNCHANGED <<target, candidate, feedback, artifact, compiler, tested, loaded>>

\* The response replaces candidate.json, which is empty until it is written.
Answer(s) ==
  /\ generator[s].pc = "ask"
  /\ \E response \in {Kernel(k) : k \in Kernels} \cup {Malformed} :
       generator' = [generator EXCEPT ![s].pc = "write", ![s].response = response]
  /\ candidate' = Torn
  /\ UNCHANGED <<target, feedback, artifact, compiler, tested, loaded>>

\* The request is not stored, the endpoint reports an error or breaks off the
\* stream; a connection reset while the stream is read is not caught.
AnswerFails(s) ==
  /\ generator[s].pc = "ask"
  /\ \E pc \in {"fallback", "failed"} : Goto(s, pc)
  /\ UNCHANGED <<target, files, compiler, tested, loaded>>

\* The candidate is complete and the compiler is started on it.
RunCompiler(s) ==
  /\ generator[s].pc = "write"
  /\ candidate' = generator[s].response
  /\ Goto(s, "wait")
  /\ compiler' = [compiler EXCEPT ![s] = AtRest("baselines")]
  /\ tested' = [tested EXCEPT ![s] = [Untested EXCEPT !.contract = target]]
  /\ UNCHANGED <<target, feedback, artifact, loaded>>

RunCompilerFails(s) ==
  /\ generator[s].pc = "write"
  /\ Goto(s, "failed")
  /\ UNCHANGED <<target, files, compiler, tested, loaded>>

\* A session that dies takes its compiler with it (one process group).
Interrupt(s) ==
  /\ Running(s)
  /\ Goto(s, "failed")
  /\ compiler' = [compiler EXCEPT ![s] = AtRest("none")]
  /\ UNCHANGED <<target, files, tested, loaded>>

At(s, pc) == compiler[s].pc = pc
Readable == feedback.is = "feedback"

\* Mutant: the attempt is not counted.
RetryForever(s) ==
  generator' = [generator EXCEPT ![s].pc = "ask"]

RetryLater(s) ==
  generator' = [generator EXCEPT
    ![s].pc = IF generator[s].attempt < MaxAttempts THEN "ask" ELSE "fallback",
    ![s].attempt = IF generator[s].attempt < MaxAttempts THEN @ + 1 ELSE @,
    ![s].previous = Append(@, [response |-> generator[s].response, feedback |-> feedback])]

\* Mutant: the exit status is not looked at.
CollectAnyway(s) ==
  /\ generator[s].pc = "wait" /\ At(s, "exited")
  /\ IF Readable
       THEN \/ feedback.status = "admitted" /\ artifact # NoFile /\ Goto(s, "admitted")
            \/ feedback.status = "retry" /\ RetryLater(s)
       ELSE Goto(s, "failed")
  /\ compiler' = [compiler EXCEPT ![s] = AtRest("none")]
  /\ UNCHANGED <<target, files, tested, loaded>>

\* The compiler has exited: with an error, or with feedback to act on.
Collect(s) ==
  /\ generator[s].pc = "wait"
  /\ At(s, "exited")
  /\ IF compiler[s].passed /\ Readable
       THEN \/ /\ feedback.status = "admitted"
               /\ Goto(s, IF artifact = NoFile THEN "failed" ELSE "admitted")
            \/ feedback.status = "fatal" /\ Goto(s, "failed")
            \/ feedback.status = "retry" /\ RetryLater(s)
       ELSE Goto(s, "failed")
  /\ compiler' = [compiler EXCEPT ![s] = AtRest("none")]
  /\ UNCHANGED <<target, files, tested, loaded>>

-----------------------------------------------------------------------------
(* The compiler process: admitGeneratedKernel.                               *)

\* The stages inside the try block, before a verdict is reported.
Gates == {"baselines", "load", "inspect", "check", "time", "recheck", "decide", "save"}

Advance(s, pc) ==
  /\ compiler' = [compiler EXCEPT ![s].pc = pc]
  /\ UNCHANGED <<target, files, generator, loaded>>

Decided(s, status, speedup) ==
  compiler' = [compiler EXCEPT ![s].pc = "report",
                               ![s].verdict = [status |-> status, speedup |-> speedup]]

Reject(s, status, speedup) ==
  /\ Decided(s, status, speedup)
  /\ UNCHANGED <<target, files, generator, loaded, tested>>

\* Every case has some template that validates and is measured; the device has
\* the storage type.
FindBaselines(s) ==
  /\ At(s, "baselines") /\ target \in Native
  /\ Advance(s, "load") /\ UNCHANGED tested

NoBaseline(s) == At(s, "baselines") /\ Reject(s, "fatal", Unmeasured)

Load(s) ==
  /\ At(s, "load") /\ candidate.is = "kernel"
  /\ Advance(s, "inspect")
  /\ tested' = [tested EXCEPT ![s].kernel = candidate]

LoadRefuses(s) ==
  /\ At(s, "load") /\ candidate.is # "kernel"
  /\ Reject(s, "retry", Unmeasured)

\* The function's name, the workgroup, the compilation, the reflected
\* interface and the device's limits.
Inspect(s) ==
  /\ At(s, "inspect")
  /\ Advance(s, "check")
  /\ tested' = [tested EXCEPT ![s].inspected = TRUE]

InspectRefuses(s) == At(s, "inspect") /\ Reject(s, "retry", Unmeasured)

NextCase(s, pc, done) ==
  compiler' = [compiler EXCEPT
    ![s].pc = IF compiler[s].case = NCases THEN done ELSE pc,
    ![s].case = IF @ = NCases THEN 1 ELSE @ + 1, ![s].round = 1]

\* Prepared, run once over outputs filled with NaN, compared with the reference.
Check(s) ==
  /\ At(s, "check")
  /\ tested' = [tested EXCEPT ![s].checked = @ \cup {compiler[s].case}]
  /\ NextCase(s, "check", "time")
  /\ UNCHANGED <<target, files, generator, loaded>>

CheckRefuses(s) == At(s, "check") /\ Reject(s, "retry", Unmeasured)

\* Mutant: the last round stands for all.
LatestRound(worst, speedup) == speedup

Worst(worst, speedup) == IF speedup < worst THEN speedup ELSE worst

\* Mutant: a fast first round is enough.
TimeOnce(s) ==
  /\ At(s, "time")
  /\ \E speedup \in Speedups :
       /\ tested' = [tested EXCEPT ![s].timings =
            @ \cup {[case |-> compiler[s].case, round |-> compiler[s].round,
                     speedup |-> speedup]}]
       /\ compiler' = [compiler EXCEPT
            ![s].pc = IF speedup >= MinimumSpeedup THEN "recheck" ELSE "time",
            ![s].round = IF @ = NRounds THEN @ ELSE @ + 1,
            ![s].worst = Worst(@, speedup)]
  /\ UNCHANGED <<target, files, generator, loaded>>

\* One round of one case: the slowest round is kept for the report, and the
\* slowest of those below the minimum for the rejection.
Time(s) ==
  /\ At(s, "time")
  /\ \E speedup \in Speedups :
       /\ tested' = [tested EXCEPT ![s].timings =
            @ \cup {[case |-> compiler[s].case, round |-> compiler[s].round,
                     speedup |-> speedup]}]
       /\ compiler' = [compiler EXCEPT
            ![s].pc = IF compiler[s].round = NRounds THEN "recheck" ELSE "time",
            ![s].round = IF @ = NRounds THEN @ ELSE @ + 1,
            ![s].worst = Worst(@, speedup),
            ![s].slowest = IF speedup < MinimumSpeedup THEN Worst(@, speedup) ELSE @]
  /\ UNCHANGED <<target, files, generator, loaded>>

\* The warmup or a sample fails, or the device gives no timestamps.
TimeFails(s) == At(s, "time") /\ Reject(s, "retry", Unmeasured)

Recheck(s) ==
  /\ At(s, "recheck")
  /\ tested' = [tested EXCEPT ![s].rechecked = @ \cup {compiler[s].case}]
  /\ NextCase(s, "time", "decide")
  /\ UNCHANGED <<target, files, generator, loaded>>

RecheckRefuses(s) == At(s, "recheck") /\ Reject(s, "retry", Unmeasured)

Slow(s) == compiler[s].slowest # Unmeasured

TooSlow(s) ==
  /\ At(s, "decide") /\ Slow(s)
  /\ Reject(s, "retry", compiler[s].slowest)

FastEnough(s) ==
  /\ At(s, "decide") /\ ~Slow(s)
  /\ Advance(s, "save") /\ UNCHANGED tested

\* The artifact is replaced atomically; only then is its admission reported.
Save(s) ==
  /\ At(s, "save")
  /\ artifact' = [is |-> "artifact", contract |-> target, kernel |-> tested[s].kernel,
                  by |-> <<s, generator[s].attempt>>, test |-> tested[s]]
  /\ Decided(s, "admitted", compiler[s].worst)
  /\ UNCHANGED <<target, candidate, feedback, generator, tested, loaded>>

\* Mutant: the error of the write is ignored.
SaveErrorIgnored(s) == At(s, "save") /\ Reject(s, "admitted", compiler[s].worst)

SaveFails(s) == At(s, "save") /\ Reject(s, "fatal", Unmeasured)

\* Any device call of a gate may throw.
Throw(s) == compiler[s].pc \in Gates /\ Reject(s, "fatal", Unmeasured)

Exit(s, passed) ==
  /\ compiler' = [compiler EXCEPT ![s].pc = "exited", ![s].passed = passed]
  /\ UNCHANGED <<target, candidate, artifact, generator, tested, loaded>>

Verdict(s) == compiler[s].verdict

FeedbackOf(s) ==
  [is |-> "feedback", status |-> Verdict(s).status, speedup |-> Verdict(s).speedup,
   by |-> <<s, generator[s].attempt>>]

Report(s) ==
  /\ At(s, "report")
  /\ feedback' = FeedbackOf(s)
  /\ Exit(s, Verdict(s).status # "fatal")

\* The file cannot be opened, and keeps what it held; or it is cut off, which
\* goes unnoticed when the stream fails as it closes.
ReportFails(s) ==
  /\ At(s, "report")
  /\ \/ feedback' = feedback /\ Exit(s, FALSE)
     \/ feedback' = Torn /\ \E passed \in {FALSE, Verdict(s).status # "fatal"} :
                                Exit(s, passed)

Crash(s) ==
  /\ compiler[s].pc \in Gates \cup {"report"}
  /\ feedback' \in {feedback} \cup (IF At(s, "report") THEN {Torn, FeedbackOf(s)} ELSE {})
  /\ Exit(s, FALSE)

-----------------------------------------------------------------------------
(* The decoders, and what changes between sessions.                          *)

\* Mutant: the stored contract is not compared.
LoadAnyContract ==
  /\ loaded' = IF target \in Native THEN artifact ELSE NoFile
  /\ UNCHANGED <<target, files, generator, compiler, tested>>

\* A decoder starts: what it may use of the directory.
LoadRegistry ==
  /\ loaded' = IF artifact # NoFile /\ artifact.contract = target /\ target \in Native
                 THEN artifact ELSE NoFile
  /\ UNCHANGED <<target, files, generator, compiler, tested>>

\* The compiler is rebuilt or the directory moves to another device.
Rebuild ==
  /\ \A s \in Sessions : ~Running(s)
  /\ target' \in Contracts
  /\ loaded' = NoFile
  /\ UNCHANGED <<files, generator, compiler, tested>>

Generate(s) ==
  Start(s) \/ Answer(s) \/ AnswerFails(s) \/ RunCompiler(s) \/ RunCompilerFails(s) \/ Collect(s)

Admit(s) ==
  \/ FindBaselines(s) \/ NoBaseline(s) \/ Load(s) \/ LoadRefuses(s)
  \/ Inspect(s) \/ InspectRefuses(s) \/ Check(s) \/ CheckRefuses(s)
  \/ Time(s) \/ TimeFails(s) \/ Recheck(s) \/ RecheckRefuses(s)
  \/ TooSlow(s) \/ FastEnough(s) \/ Save(s) \/ SaveFails(s)
  \/ Throw(s) \/ Report(s) \/ ReportFails(s) \/ Crash(s)

Next ==
  \/ \E s \in Sessions : Generate(s) \/ Admit(s) \/ Interrupt(s)
  \/ LoadRegistry \/ Rebuild

Spec == Init /\ [][Next]_vars

\* Both processes keep running; the endpoint ends its stream in time
\* (REQUEST_TIMEOUT_SECONDS bounds each read of it).
FairSpec == Spec /\ \A s \in Sessions : WF_vars(Generate(s)) /\ WF_vars(Admit(s))

-----------------------------------------------------------------------------
(* Properties.                                                               *)

Files(type) == {NoFile, Torn} \cup type
Ids == Sessions \X (1 .. MaxAttempts)
KernelFiles == {Kernel(k) : k \in Kernels}
Verdicts == [status : {"none", "admitted", "retry", "fatal"}, speedup : 1 .. Unmeasured]
Feedbacks == [is : {"feedback"}, status : {"admitted", "retry", "fatal"},
              speedup : 1 .. Unmeasured, by : Ids]
Tests == [contract : Contracts \cup {NoFile}, kernel : KernelFiles \cup {NoFile},
          inspected : BOOLEAN, checked : SUBSET Cases, timings : SUBSET Timings,
          rechecked : SUBSET Cases]
Artifacts == [is : {"artifact"}, contract : Contracts, kernel : KernelFiles, by : Ids,
              test : Tests]

Responses == Files(KernelFiles \cup {Malformed})
Generators == [pc : Ended \cup {"ask", "write", "wait"}, attempt : 0 .. MaxAttempts,
               response : Responses,
               previous : Seq([response : Responses, feedback : Feedbacks]),
               found : {NoFile} \cup Artifacts]
Compilers == [pc : Gates \cup {"none", "report", "exited"}, case : Cases, round : Rounds,
              worst : 1 .. Unmeasured, slowest : 1 .. Unmeasured, verdict : Verdicts,
              passed : BOOLEAN]

\* The files hold what their writers produce and the processes are at their steps.
TypeInvariant ==
  /\ target \in Contracts
  /\ candidate \in Responses /\ feedback \in Files(Feedbacks)
  /\ artifact \in {NoFile} \cup Artifacts /\ loaded \in {NoFile} \cup Artifacts
  /\ generator \in [Sessions -> Generators]
  /\ compiler \in [Sessions -> Compilers] /\ tested \in [Sessions -> Tests]

Proven(file) ==
  /\ Admissible(file.test)
  /\ file.test.contract = file.contract /\ file.test.kernel = file.kernel

\* admitted.json only ever holds a kernel that passed every gate on every case
\* under the contract stored with it, whichever sessions run at a time and
\* wherever they stop (GeneratedKernelAdmission.cpp 235-312).
ArtifactIsAdmitted == artifact # NoFile => Proven(artifact)

\* A decoder runs a generated kernel only if that kernel passed the gates under
\* the contract the decoder's own compiler and device make (KernelRegistry.mm
\* 82-94), though the file may come from an older build or another device.
LoadedKernelFits ==
  loaded # NoFile => Proven(loaded) /\ loaded.contract = target /\ target \in Native

\* A reported speedup is the worst of all rounds of all cases, and decides the
\* verdict (lines 277-309): a fast round never hides a slow one.
ReportsTheWorst ==
  \A s \in Sessions :
    Verdict(s).speedup # Unmeasured =>
      /\ \E t \in tested[s].timings : t.speedup = Verdict(s).speedup
      /\ \A t \in tested[s].timings : t.speedup >= Verdict(s).speedup
      /\ tested[s].rechecked = Cases
      /\ Verdict(s).status = IF Verdict(s).speedup >= MinimumSpeedup THEN "admitted"
                                                                     ELSE "retry"

\* What a session that runs alone reads after a compiler that exits with 0 is
\* that compiler's feedback on this attempt's candidate, never that of an
\* earlier attempt or session, and never "fatal" (llm_kernel_generator.py
\* 226-256); what it sends along is one rejection for each earlier attempt.
FeedbackIsOfThisAttempt ==
  ~Concurrent => \A s \in Sessions :
    /\ generator[s].pc = "wait" /\ At(s, "exited") /\ compiler[s].passed /\ Readable =>
         feedback.by = <<s, generator[s].attempt>> /\ feedback.status # "fatal"
    /\ Running(s) => Len(generator[s].previous) = generator[s].attempt - 1
    /\ \A i \in DOMAIN generator[s].previous :
         /\ generator[s].previous[i].feedback.by = <<s, i>>
         /\ generator[s].previous[i].feedback.status = "retry"

Ends(s, pc) == generator[s].pc # pc /\ generator'[s].pc = pc

\* A session that ends with ADMITTED leaves its last response in admitted.json,
\* and one that ends with FALLBACK leaves the file it found there
\* (llm_kernel_generator.py 219-223, 241-246, 258-263).
OutcomeIsTrue ==
  [][~Concurrent => \A s \in Sessions :
       /\ Ends(s, "admitted") =>
            /\ artifact.by = <<s, generator[s].attempt>>
            /\ artifact.kernel = generator[s].response
       /\ Ends(s, "fallback") => artifact = generator[s].found]_vars

\* README.md:217, "A failed generation preserves any existing admitted artifact.":
\* a session that fails because its compiler did, at any point up to the report.
FailureKeepsArtifact ==
  [][\A s \in Sessions :
       Ends(s, "failed") /\ At(s, "exited") /\ ~compiler[s].passed
         /\ generator[s].found # NoFile => artifact = generator[s].found]_vars

\* Every session ends, whatever fails, after at most MaxAttempts candidates.
SessionsEnd == \A s \in Sessions : Running(s) ~> ~Running(s)
=============================================================================
