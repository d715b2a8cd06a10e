----------------------- MODULE KernelGenerationProofs -----------------------
(***************************************************************************)
(* That admitted.json holds only kernels that passed every gate, and that  *)
(* a decoder loads only those of its own compiler and device, for every    *)
(* number of sessions, one at a time or all at once, of cases, rounds and  *)
(* attempts.  The properties alone are not inductive: Progress says what a *)
(* compiler process has tested when it is at a gate, and Bound ties it to  *)
(* the contract in force, which changes only when no session runs.         *)
(*                                                                         *)
(* The reports, for any number of sessions at a time: the two minima that  *)
(* the process keeps are those of the rounds timed so far.  The sessions,  *)
(* one at a time: its candidate is what the compiler tests, the artifact   *)
(* stays what it found until that compiler admits a kernel, and what it    *)
(* can read after an exit with 0 is that compiler's verdict.               *)
(***************************************************************************)
EXTENDS KernelGeneration, TLAPS, SequenceTheorems

Timed(test, c, r) == \E t \in test.timings : t.case = c /\ t.round = r

\* What the gates that a compiler process p has left behind have established.
Progress(p, test) ==
  /\ p.pc \in {"baselines", "load", "inspect"} => p.case = 1
  /\ p.pc \in {"inspect", "check", "time", "recheck", "decide", "save"} =>
       test.kernel \in KernelFiles
  /\ p.pc \in {"check", "time", "recheck", "decide", "save"} => test.inspected
  /\ p.pc = "check" => 1 .. p.case - 1 \subseteq test.checked
  /\ p.pc \in {"time", "recheck", "decide", "save"} => test.checked = Cases
  /\ p.pc \in {"time", "recheck"} =>
       /\ 1 .. p.case - 1 \subseteq test.rechecked
       /\ \A c \in 1 .. p.case - 1, r \in Rounds : Timed(test, c, r)
  /\ p.pc = "time" => \A r \in 1 .. p.round - 1 : Timed(test, p.case, r)
  /\ p.pc = "recheck" => \A r \in Rounds : Timed(test, p.case, r)
  /\ p.pc \in {"decide", "save"} =>
       /\ test.rechecked = Cases
       /\ \A c \in Cases, r \in Rounds : Timed(test, c, r)
  /\ p.pc \in Gates /\ p.slowest = Unmeasured =>
       \A t \in test.timings : t.speedup >= MinimumSpeedup
  /\ p.pc = "save" => p.slowest = Unmeasured
  /\ p.pc = "report" => p.verdict.status # "none"

\* A compiler runs only while its session waits for it, on the contract in
\* force; a session under way counts its attempts.
Bound(g, p, test, contract) ==
  /\ p.pc # "none" => g.pc = "wait" /\ test.contract = contract
  /\ g.pc \notin Ended => g.attempt \in 1 .. MaxAttempts

Processes ==
  /\ target \in Contracts
  /\ generator \in [Sessions -> Generators]
  /\ compiler \in [Sessions -> Compilers] /\ tested \in [Sessions -> Tests]
  /\ \A s \in Sessions : /\ Progress(compiler[s], tested[s])
                         /\ Bound(generator[s], compiler[s], tested[s], target)

FilesTyped ==
  /\ candidate \in Responses /\ feedback \in Files(Feedbacks)
  /\ artifact \in {NoFile} \cup Artifacts /\ loaded \in {NoFile} \cup Artifacts

IInv == Processes /\ FilesTyped /\ ArtifactIsAdmitted /\ LoadedKernelFits

-----------------------------------------------------------------------------
(* A step of one session and its compiler.                                   *)

\* What the processes of one session must satisfy for the step to keep Processes.
LEMMA ProcessStep ==
  ASSUME Processes, NEW s \in Sessions,
         NEW g \in Generators, NEW p \in Compilers, NEW q \in Tests,
         generator' = [generator EXCEPT ![s] = g],
         compiler' = [compiler EXCEPT ![s] = p],
         tested' = [tested EXCEPT ![s] = q],
         target' = target, Progress(p, q), Bound(g, p, q, target)
  PROVE  Processes'
<1>1. /\ generator' \in [Sessions -> Generators]
      /\ compiler' \in [Sessions -> Compilers] /\ tested' \in [Sessions -> Tests]
      /\ target' \in Contracts
  BY DEF Processes
<1>2. ASSUME NEW t \in Sessions
      PROVE  /\ Progress(compiler'[t], tested'[t])
             /\ Bound(generator'[t], compiler'[t], tested'[t], target')
  <2>1. CASE t = s
    <3>1. generator'[t] = g /\ compiler'[t] = p /\ tested'[t] = q
      BY <2>1 DEF Processes
    <3> QED BY <3>1 DEF Bound
  <2>2. CASE t # s
    <3>1. /\ generator'[t] = generator[t] /\ compiler'[t] = compiler[t]
          /\ tested'[t] = tested[t]
      BY <2>2 DEF Processes
    <3> QED BY <3>1 DEF Processes, Bound
  <2> QED BY <2>1, <2>2
<1> QED BY <1>1, <1>2 DEF Processes

\* The same for a step of the compiler alone.
LEMMA CompilerStep ==
  ASSUME Processes, NEW s \in Sessions, NEW p \in Compilers, NEW q \in Tests,
         compiler' = [compiler EXCEPT ![s] = p],
         tested' = [tested EXCEPT ![s] = q],
         UNCHANGED <<target, generator>>,
         compiler[s].pc # "none", q.contract = tested[s].contract, Progress(p, q)
  PROVE  Processes'
<1> DEFINE g == generator[s]
<1>1. g \in Generators /\ generator' = [generator EXCEPT ![s] = g]
  BY DEF Processes
<1>2. Bound(g, p, q, target)
  BY DEF Processes, Bound
<1> HIDE DEF g
<1> QED BY <1>1, <1>2, ProcessStep

\* Nothing is stored or loaded.
LEMMA FilesStay ==
  ASSUME IInv, Processes', feedback' \in Files(Feedbacks), candidate' \in Responses,
         UNCHANGED <<target, artifact, loaded>>
  PROVE  IInv'
BY DEF IInv, FilesTyped, ArtifactIsAdmitted, LoadedKernelFits

-----------------------------------------------------------------------------
(* The compiler's steps.                                                     *)

\* The parts of a process, from its type.
LEMMA Parts ==
  ASSUME Processes, NEW s \in Sessions
  PROVE  /\ generator[s] \in Generators /\ compiler[s] \in Compilers /\ tested[s] \in Tests
         /\ compiler[s].case \in Cases /\ compiler[s].round \in Rounds
         /\ compiler[s].worst \in 1 .. Unmeasured /\ compiler[s].slowest \in 1 .. Unmeasured
         /\ compiler[s].verdict \in Verdicts
         /\ tested[s].checked \subseteq Cases /\ tested[s].rechecked \subseteq Cases
         /\ tested[s].timings \subseteq Timings
         /\ Progress(compiler[s], tested[s])
         /\ NCases \in Nat /\ NRounds \in Nat /\ MaxSpeedup \in Nat /\ MaxAttempts \in Nat
         /\ MinimumSpeedup \in Nat /\ NCases > 0 /\ NRounds > 0 /\ MaxAttempts > 0
<1>1. /\ generator[s] \in Generators /\ compiler[s] \in Compilers /\ tested[s] \in Tests
      /\ Progress(compiler[s], tested[s])
  BY DEF Processes
<1> QED BY <1>1, GenerationAssumption DEF Compilers, Tests

\* A process whose place alone changes.
LEMMA Moves ==
  ASSUME NEW p \in Compilers,
         NEW pc \in Gates \cup {"none", "report", "exited"}
  PROVE  /\ [p EXCEPT !.pc = pc] \in Compilers
         /\ \A f \in {"case", "round", "worst", "slowest", "verdict", "passed"} :
              [p EXCEPT !.pc = pc][f] = p[f]
         /\ [p EXCEPT !.pc = pc].pc = pc
BY DEF Compilers

LEMMA AdvanceKeeps ==
  ASSUME IInv, NEW s \in Sessions, NEW pc \in Gates, NEW q \in Tests,
         compiler[s].pc \in Gates, Advance(s, pc),
         tested' = [tested EXCEPT ![s] = q], q.contract = tested[s].contract,
         Progress([compiler[s] EXCEPT !.pc = pc], q)
  PROVE  IInv'
<1> DEFINE p == [compiler[s] EXCEPT !.pc = pc]
<1>1. Processes /\ FilesTyped /\ p \in Compilers
  BY Parts, Moves DEF IInv
<1>2. compiler' = [compiler EXCEPT ![s] = p] /\ UNCHANGED <<target, generator>>
  BY DEF Advance
<1>3. compiler[s].pc # "none"
  BY DEF Gates
<1>4. Progress(p, q)
  OBVIOUS
<1> HIDE DEF p
<1>5. Processes'
  BY <1>1, <1>2, <1>3, <1>4, CompilerStep
<1> QED BY <1>1, <1>5, FilesStay DEF Advance, files, FilesTyped

LEMMA RejectKeeps ==
  ASSUME IInv, NEW s \in Sessions, compiler[s].pc \in Gates,
         NEW status \in {"admitted", "retry", "fatal"}, NEW speedup \in 1 .. Unmeasured,
         Reject(s, status, speedup)
  PROVE  IInv'
<1> DEFINE v == [status |-> status, speedup |-> speedup]
           p == [compiler[s] EXCEPT !.pc = "report", !.verdict = v]
           q == tested[s]
<1>1. Processes /\ FilesTyped /\ q \in Tests
  BY Parts DEF IInv
<1>2. p \in Compilers
  <2>1. compiler[s] \in Compilers /\ v \in Verdicts
    BY <1>1, Parts DEF Verdicts
  <2> HIDE DEF v
  <2> QED BY <2>1 DEF Compilers
<1>3. Progress(p, q)
  <2>1. p.pc = "report" /\ p.verdict.status # "none"
    BY <1>1, Parts DEF Compilers
  <2> HIDE DEF p
  <2> QED BY <2>1 DEF Progress, Gates
<1>4. /\ compiler' = [compiler EXCEPT ![s] = p] /\ tested' = [tested EXCEPT ![s] = q]
      /\ UNCHANGED <<target, generator>>
  BY <1>1 DEF Reject, Decided, Processes
<1>5. compiler[s].pc # "none" /\ q.contract = tested[s].contract
  BY DEF Gates
<1> HIDE DEF p, q
<1>6. Processes'
  BY <1>1, <1>2, <1>3, <1>4, <1>5, CompilerStep
<1> QED BY <1>1, <1>6, FilesStay DEF Reject, files, FilesTyped

LEMMA ExitKeeps ==
  ASSUME IInv, NEW s \in Sessions, compiler[s].pc \in Gates \cup {"report"},
         NEW passed \in BOOLEAN, Exit(s, passed), feedback' \in Files(Feedbacks)
  PROVE  IInv'
<1> DEFINE p == [compiler[s] EXCEPT !.pc = "exited", !.passed = passed]
           q == tested[s]
<1>1. Processes /\ FilesTyped /\ q \in Tests
  BY Parts DEF IInv
<1>2. p \in Compilers
  BY <1>1, Parts DEF Compilers
<1>3. Progress(p, q)
  <2>1. p.pc = "exited"
    BY <1>1, Parts DEF Compilers
  <2> HIDE DEF p
  <2> QED BY <2>1 DEF Progress, Gates
<1>4. /\ compiler' = [compiler EXCEPT ![s] = p] /\ tested' = [tested EXCEPT ![s] = q]
      /\ UNCHANGED <<target, generator>>
  BY <1>1 DEF Exit, Processes
<1>5. compiler[s].pc # "none" /\ q.contract = tested[s].contract
  BY DEF Gates
<1> HIDE DEF p, q
<1>6. Processes'
  BY <1>1, <1>2, <1>3, <1>4, <1>5, CompilerStep
<1> QED BY <1>1, <1>6, FilesStay DEF Exit, FilesTyped

\* What a compiler reports is a feedback file of the session it works for.
LEMMA ReportIsFeedback ==
  ASSUME IInv, NEW s \in Sessions, compiler[s].pc = "report"
  PROVE  FeedbackOf(s) \in Files(Feedbacks)
<1>1. Processes
  BY DEF IInv
<1>2. generator[s].attempt \in 1 .. MaxAttempts
  BY <1>1 DEF Processes, Bound, Ended
<1>3. compiler[s].verdict \in Verdicts /\ compiler[s].verdict.status # "none"
  BY <1>1, Parts DEF Progress
<1>4. <<s, generator[s].attempt>> \in Ids
  BY <1>2 DEF Ids
<1> QED BY <1>3, <1>4 DEF FeedbackOf, Verdict, Verdicts, Feedbacks, Files

LEMMA LoadKeeps ==
  ASSUME IInv, NEW s \in Sessions, Load(s)
  PROVE  IInv'
<1> DEFINE q == [tested[s] EXCEPT !.kernel = candidate]
           p == [compiler[s] EXCEPT !.pc = "inspect"]
<1>1. Processes /\ FilesTyped
  BY DEF IInv
<1>2. candidate \in KernelFiles
  BY <1>1 DEF Load, FilesTyped, Responses, Files, NoFile, Torn, Malformed, KernelFiles, Kernel
<1>3. q \in Tests /\ q.contract = tested[s].contract /\ q.timings = tested[s].timings
      /\ q.kernel \in KernelFiles
  BY <1>1, <1>2, Parts DEF Tests
<1>4. tested' = [tested EXCEPT ![s] = q]
  BY DEF Load
<1>5. p.pc = "inspect" /\ p.slowest = compiler[s].slowest /\ p.case = compiler[s].case
  BY <1>1, Parts DEF Compilers
<1>6. Progress(p, q)
  <2>1. Progress(compiler[s], tested[s]) /\ compiler[s].pc = "load"
    BY <1>1, Parts DEF Load, At
  <2> HIDE DEF p, q
  <2> QED BY <1>3, <1>5, <2>1 DEF Progress, Gates
<1> HIDE DEF q
<1>7. compiler[s].pc \in Gates /\ "inspect" \in Gates /\ Advance(s, "inspect")
  BY DEF Load, At, Gates
<1> QED BY <1>3, <1>4, <1>6, <1>7, AdvanceKeeps

LEMMA InspectKeeps ==
  ASSUME IInv, NEW s \in Sessions, Inspect(s)
  PROVE  IInv'
<1> DEFINE q == [tested[s] EXCEPT !.inspected = TRUE]
           p == [compiler[s] EXCEPT !.pc = "check"]
<1>1. Processes
  BY DEF IInv
<1>2. q \in Tests /\ q.contract = tested[s].contract /\ q.timings = tested[s].timings
      /\ q.inspected /\ q.kernel = tested[s].kernel
  BY <1>1, Parts DEF Tests
<1>3. tested' = [tested EXCEPT ![s] = q]
  BY DEF Inspect
<1>4. p.pc = "check" /\ p.slowest = compiler[s].slowest /\ p.case = compiler[s].case
  BY <1>1, Parts DEF Compilers
<1>5. Progress(p, q)
  <2>1. Progress(compiler[s], tested[s]) /\ compiler[s].pc = "inspect"
    BY <1>1, Parts DEF Inspect, At
  <2> HIDE DEF p, q
  <2> QED BY <1>2, <1>4, <2>1 DEF Progress, Gates
<1> HIDE DEF q
<1>6. compiler[s].pc \in Gates /\ "check" \in Gates /\ Advance(s, "check")
  BY DEF Inspect, At, Gates
<1> QED BY <1>2, <1>3, <1>5, <1>6, AdvanceKeeps

\* The case and the place after a case is done.
LEMMA NextCaseMoves ==
  ASSUME Processes, NEW s \in Sessions, NEW pc \in Gates, NEW done \in Gates,
         NextCase(s, pc, done)
  PROVE  \E p \in Compilers :
           /\ compiler' = [compiler EXCEPT ![s] = p]
           /\ p.slowest = compiler[s].slowest /\ p.round = 1
           /\ p.worst = compiler[s].worst /\ p.verdict = compiler[s].verdict
           /\ \/ compiler[s].case = NCases /\ p.pc = done /\ p.case = 1
              \/ compiler[s].case # NCases /\ p.pc = pc /\ p.case = compiler[s].case + 1
<1> DEFINE c == compiler[s].case
           p == [compiler[s] EXCEPT !.pc = IF c = NCases THEN done ELSE pc,
                                    !.case = IF c = NCases THEN 1 ELSE c + 1,
                                    !.round = 1]
<1>1. compiler[s] \in Compilers
  BY Parts
<1>2. c \in 1 .. NCases /\ NCases \in Nat /\ NRounds \in Nat /\ NRounds > 0
  BY Parts DEF Cases
<1>3. p \in Compilers
  <2>1. (IF c = NCases THEN 1 ELSE c + 1) \in Cases /\ 1 \in Rounds
    BY <1>2 DEF Cases, Rounds
  <2>2. (IF c = NCases THEN done ELSE pc) \in Gates
    OBVIOUS
  <2> HIDE DEF c
  <2> QED BY <1>1, <2>1, <2>2 DEF Compilers
<1>4. compiler' = [compiler EXCEPT ![s] = p]
  BY <1>1 DEF NextCase, Compilers
<1>5. /\ p.slowest = compiler[s].slowest /\ p.round = 1
      /\ p.worst = compiler[s].worst /\ p.verdict = compiler[s].verdict
      /\ p.pc = (IF c = NCases THEN done ELSE pc)
      /\ p.case = (IF c = NCases THEN 1 ELSE c + 1)
  BY <1>1 DEF Compilers
<1> QED BY <1>3, <1>4, <1>5

LEMMA CheckKeeps ==
  ASSUME IInv, NEW s \in Sessions, Check(s)
  PROVE  IInv'
<1> DEFINE c == compiler[s].case
           q == [tested[s] EXCEPT !.checked = @ \cup {c}]
<1>1. Processes /\ FilesTyped
  BY DEF IInv
<1>2. /\ c \in 1 .. NCases /\ NCases \in Nat /\ tested[s].checked \subseteq 1 .. NCases
      /\ Progress(compiler[s], tested[s]) /\ compiler[s].pc = "check"
  BY <1>1, Parts DEF Check, At, Cases
<1>3. /\ q \in Tests /\ q.contract = tested[s].contract /\ q.timings = tested[s].timings
      /\ q.kernel = tested[s].kernel /\ q.inspected = tested[s].inspected /\ q.checked = tested[s].checked \cup {c}
  BY <1>1, <1>2, Parts DEF Tests, Cases
<1>4. tested' = [tested EXCEPT ![s] = q]
  BY DEF Check
<1> HIDE DEF q
<1>5. PICK p \in Compilers :
        /\ compiler' = [compiler EXCEPT ![s] = p]
        /\ p.slowest = compiler[s].slowest /\ p.round = 1
        /\ \/ c = NCases /\ p.pc = "time" /\ p.case = 1
           \/ c # NCases /\ p.pc = "check" /\ p.case = c + 1
  <2>1. NextCase(s, "check", "time") /\ {"check", "time"} \subseteq Gates
    BY DEF Check, Gates
  <2> QED BY <1>1, <2>1, NextCaseMoves
<1>6. Progress(p, q)
  <2>1. /\ 1 .. c - 1 \subseteq tested[s].checked /\ tested[s].inspected
        /\ q.kernel \in KernelFiles
    BY <1>2, <1>3 DEF Progress
  <2>2. 1 .. c \subseteq q.checked
    BY <1>2, <1>3, <2>1
  <2>3. compiler[s].slowest = Unmeasured =>
          \A t \in tested[s].timings : t.speedup >= MinimumSpeedup
    BY <1>2 DEF Progress, Gates
  <2>4. CASE c = NCases
    <3>1. p.pc = "time" /\ p.case = 1 /\ q.checked = Cases
      BY <1>2, <1>3, <1>5, <2>2, <2>4 DEF Cases
    <3> QED BY <1>3, <1>5, <2>1, <2>3, <3>1 DEF Progress
  <2>5. CASE c # NCases
    <3>1. p.pc = "check" /\ p.case = c + 1
      BY <1>5, <2>5
    <3>2. 1 .. p.case - 1 \subseteq q.checked
      BY <1>2, <2>2, <3>1
    <3> QED BY <1>3, <1>5, <2>1, <2>3, <3>1, <3>2 DEF Progress
  <2> QED BY <2>4, <2>5
<1>7. compiler[s].pc # "none" /\ UNCHANGED <<target, generator>>
  BY <1>2 DEF Check
<1>8. Processes'
  BY <1>1, <1>3, <1>4, <1>5, <1>6, <1>7, CompilerStep
<1> QED BY <1>1, <1>8, FilesStay DEF Check, files, FilesTyped

LEMMA RecheckKeeps ==
  ASSUME IInv, NEW s \in Sessions, Recheck(s)
  PROVE  IInv'
<1> DEFINE c == compiler[s].case
           q == [tested[s] EXCEPT !.rechecked = @ \cup {c}]
<1>1. Processes /\ FilesTyped
  BY DEF IInv
<1>2. /\ c \in 1 .. NCases /\ NCases \in Nat /\ tested[s].rechecked \subseteq 1 .. NCases
      /\ Progress(compiler[s], tested[s]) /\ compiler[s].pc = "recheck"
  BY <1>1, Parts DEF Recheck, At, Cases
<1>3. /\ q \in Tests /\ q.contract = tested[s].contract /\ q.timings = tested[s].timings
      /\ q.kernel = tested[s].kernel /\ q.inspected = tested[s].inspected /\ q.checked = tested[s].checked
      /\ q.rechecked = tested[s].rechecked \cup {c}
  BY <1>1, <1>2, Parts DEF Tests, Cases
<1>4. tested' = [tested EXCEPT ![s] = q]
  BY DEF Recheck
<1> HIDE DEF q
<1>5. PICK p \in Compilers :
        /\ compiler' = [compiler EXCEPT ![s] = p]
        /\ p.slowest = compiler[s].slowest /\ p.round = 1
        /\ \/ c = NCases /\ p.pc = "decide" /\ p.case = 1
           \/ c # NCases /\ p.pc = "time" /\ p.case = c + 1
  <2>1. NextCase(s, "time", "decide") /\ {"time", "decide"} \subseteq Gates
    BY DEF Recheck, Gates
  <2> QED BY <1>1, <2>1, NextCaseMoves
<1>6. Progress(p, q)
  <2>1. /\ tested[s].inspected /\ tested[s].checked = Cases
        /\ 1 .. c - 1 \subseteq tested[s].rechecked
        /\ \A d \in 1 .. c - 1, r \in Rounds : Timed(tested[s], d, r)
        /\ \A r \in Rounds : Timed(tested[s], c, r)
        /\ q.kernel \in KernelFiles
    BY <1>2, <1>3 DEF Progress
  <2>2. 1 .. c \subseteq q.rechecked
    BY <1>2, <1>3, <2>1
  <2>3. \A d \in 1 .. c, r \in Rounds : Timed(q, d, r)
    <3>1. ASSUME NEW d \in 1 .. c, NEW r \in Rounds
          PROVE  Timed(tested[s], d, r)
      <4>1. d \in 1 .. c - 1 \/ d = c
        BY <1>2
      <4> QED BY <2>1, <4>1
    <3> QED BY <1>3, <3>1 DEF Timed
  <2>4. compiler[s].slowest = Unmeasured =>
          \A t \in tested[s].timings : t.speedup >= MinimumSpeedup
    BY <1>2 DEF Progress, Gates
  <2>5. CASE c = NCases
    <3>1. p.pc = "decide" /\ q.rechecked = Cases
      BY <1>2, <1>3, <1>5, <2>2, <2>5 DEF Cases
    <3>2. \A d \in Cases, r \in Rounds : Timed(q, d, r)
      BY <2>3, <2>5 DEF Cases
    <3> QED BY <1>3, <1>5, <2>1, <2>4, <3>1, <3>2 DEF Progress
  <2>6. CASE c # NCases
    <3>1. p.pc = "time" /\ p.case = c + 1 /\ p.round = 1
      BY <1>5, <2>6
    <3>2. /\ 1 .. p.case - 1 \subseteq q.rechecked
          /\ \A d \in 1 .. p.case - 1, r \in Rounds : Timed(q, d, r)
          /\ \A r \in 1 .. p.round - 1 : Timed(q, p.case, r)
      BY <1>2, <2>2, <2>3, <3>1
    <3> QED BY <1>3, <1>5, <2>1, <2>4, <3>1, <3>2 DEF Progress
  <2> QED BY <2>5, <2>6
<1>7. compiler[s].pc # "none" /\ UNCHANGED <<target, generator>>
  BY <1>2 DEF Recheck
<1>8. Processes'
  BY <1>1, <1>3, <1>4, <1>5, <1>6, <1>7, CompilerStep
<1> QED BY <1>1, <1>8, FilesStay DEF Recheck, files, FilesTyped

\* The slower of two.
LEMMA WorstBounds ==
  ASSUME NEW a \in 1 .. Unmeasured, NEW b \in Speedups, MaxSpeedup \in Nat
  PROVE  /\ Worst(a, b) \in 1 .. MaxSpeedup
         /\ Worst(a, b) <= a /\ Worst(a, b) <= b
BY DEF Worst, Speedups, Unmeasured

\* A round adds its timing, and the process keeps the slowest.
LEMMA TimeMoves ==
  ASSUME Processes, NEW s \in Sessions, Time(s)
  PROVE  \E speedup \in Speedups, t \in Timings, p \in Compilers, q \in Tests :
           /\ compiler' = [compiler EXCEPT ![s] = p] /\ tested' = [tested EXCEPT ![s] = q]
           /\ t.case = compiler[s].case /\ t.round = compiler[s].round /\ t.speedup = speedup
           /\ q.contract = tested[s].contract /\ q.timings = tested[s].timings \cup {t}
           /\ q.kernel = tested[s].kernel /\ q.inspected = tested[s].inspected
           /\ q.checked = tested[s].checked /\ q.rechecked = tested[s].rechecked
           /\ p.case = compiler[s].case /\ p.verdict = compiler[s].verdict
           /\ p.pc = (IF compiler[s].round = NRounds THEN "recheck" ELSE "time")
           /\ p.round = (IF compiler[s].round = NRounds THEN compiler[s].round
                                                        ELSE compiler[s].round + 1)
           /\ p.worst = Worst(compiler[s].worst, speedup)
           /\ p.slowest = (IF speedup < MinimumSpeedup THEN Worst(compiler[s].slowest, speedup)
                                                       ELSE compiler[s].slowest)
           /\ Worst(compiler[s].slowest, speedup) \in 1 .. MaxSpeedup
<1> DEFINE c == compiler[s].case
           k == compiler[s].round
           old == compiler[s]
<1>1. Processes
  OBVIOUS
<1>2. PICK speedup \in Speedups :
        /\ tested' = [tested EXCEPT ![s].timings =
             @ \cup {[case |-> c, round |-> k, speedup |-> speedup]}]
        /\ compiler' = [compiler EXCEPT
             ![s].pc = IF k = NRounds THEN "recheck" ELSE "time",
             ![s].round = IF @ = NRounds THEN @ ELSE @ + 1,
             ![s].worst = Worst(@, speedup),
             ![s].slowest = IF speedup < MinimumSpeedup THEN Worst(@, speedup) ELSE @]
  BY DEF Time
<1> DEFINE t == [case |-> c, round |-> k, speedup |-> speedup]
           q == [tested[s] EXCEPT !.timings = @ \cup {t}]
           p == [old EXCEPT !.pc = IF k = NRounds THEN "recheck" ELSE "time",
                            !.round = IF k = NRounds THEN k ELSE k + 1,
                            !.worst = Worst(@, speedup),
                            !.slowest = IF speedup < MinimumSpeedup THEN Worst(@, speedup)
                                                                   ELSE @]
<1>3. /\ c \in Cases /\ k \in 1 .. NRounds /\ NRounds \in Nat /\ MaxSpeedup \in Nat
      /\ MinimumSpeedup \in Nat /\ old \in Compilers /\ tested[s] \in Tests
      /\ old.worst \in 1 .. Unmeasured /\ old.slowest \in 1 .. Unmeasured
      /\ Progress(old, tested[s]) /\ old.pc = "time"
  BY <1>1, Parts DEF Time, At, Rounds
<1>4. /\ q \in Tests /\ q.contract = tested[s].contract
      /\ q.timings = tested[s].timings \cup {t} /\ q.kernel = tested[s].kernel
      /\ q.inspected = tested[s].inspected
      /\ q.checked = tested[s].checked /\ q.rechecked = tested[s].rechecked
  <2>1. t \in Timings
    BY <1>3 DEF Timings, Rounds
  <2> HIDE DEF t
  <2> QED BY <1>3, <2>1 DEF Tests
<1>5. Worst(old.worst, speedup) \in 1 .. MaxSpeedup /\ Worst(old.slowest, speedup) \in 1 .. MaxSpeedup
  BY <1>3, WorstBounds
<1>6. /\ p \in Compilers /\ p.case = c
      /\ p.pc = (IF k = NRounds THEN "recheck" ELSE "time")
      /\ p.round = (IF k = NRounds THEN k ELSE k + 1)
      /\ p.worst = Worst(old.worst, speedup) /\ p.verdict = old.verdict
      /\ p.slowest = (IF speedup < MinimumSpeedup THEN Worst(old.slowest, speedup)
                                                  ELSE old.slowest)
  <2>1. Worst(old.worst, speedup) \in 1 .. Unmeasured
        /\ Worst(old.slowest, speedup) \in 1 .. Unmeasured
    BY <1>3, <1>5 DEF Unmeasured
  <2>2. (IF k = NRounds THEN k ELSE k + 1) \in Rounds
    BY <1>3 DEF Rounds
  <2> QED BY <1>3, <2>1, <2>2 DEF Compilers, Gates
<1>7. compiler' = [compiler EXCEPT ![s] = p] /\ tested' = [tested EXCEPT ![s] = q]
  <2>1. compiler' = [compiler EXCEPT ![s] = p]
    BY <1>2
  <2>2. tested' = [tested EXCEPT ![s] = q]
    BY <1>2
  <2> QED BY <2>1, <2>2
<1>8. t.case = c /\ t.round = k /\ t.speedup = speedup
  OBVIOUS
<1>9. t \in Timings
  BY <1>3 DEF Timings, Rounds
<1> HIDE DEF p, q, t
<1> QED BY <1>4, <1>5, <1>6, <1>7, <1>8, <1>9

LEMMA TimeKeeps ==
  ASSUME IInv, NEW s \in Sessions, Time(s)
  PROVE  IInv'
<1> DEFINE c == compiler[s].case
           k == compiler[s].round
           old == compiler[s]
<1>1. Processes /\ FilesTyped
  BY DEF IInv
<1>2. PICK speedup \in Speedups, t \in Timings, p \in Compilers, q \in Tests :
        /\ compiler' = [compiler EXCEPT ![s] = p] /\ tested' = [tested EXCEPT ![s] = q]
        /\ t.case = c /\ t.round = k /\ t.speedup = speedup
        /\ q.contract = tested[s].contract /\ q.timings = tested[s].timings \cup {t}
        /\ q.kernel = tested[s].kernel /\ q.inspected = tested[s].inspected
        /\ q.checked = tested[s].checked /\ q.rechecked = tested[s].rechecked
        /\ p.case = c
        /\ p.pc = (IF k = NRounds THEN "recheck" ELSE "time")
        /\ p.round = (IF k = NRounds THEN k ELSE k + 1)
        /\ p.slowest = (IF speedup < MinimumSpeedup THEN Worst(old.slowest, speedup)
                                                    ELSE old.slowest)
        /\ Worst(old.slowest, speedup) \in 1 .. MaxSpeedup
  BY <1>1, TimeMoves
<1>3. /\ c \in Cases /\ k \in 1 .. NRounds /\ NRounds \in Nat /\ MaxSpeedup \in Nat
      /\ MinimumSpeedup \in Nat /\ old.slowest \in 1 .. Unmeasured
      /\ Progress(old, tested[s]) /\ old.pc = "time"
  BY <1>1, Parts DEF Time, At, Rounds
<1>4. Progress(p, q)
  <2>1. /\ tested[s].inspected /\ tested[s].checked = Cases
        /\ 1 .. c - 1 \subseteq tested[s].rechecked
        /\ \A d \in 1 .. c - 1, r \in Rounds : Timed(tested[s], d, r)
        /\ \A r \in 1 .. k - 1 : Timed(tested[s], c, r)
        /\ q.kernel \in KernelFiles
    BY <1>2, <1>3 DEF Progress
  <2>2. \A d, r : Timed(tested[s], d, r) => Timed(q, d, r)
    BY <1>2 DEF Timed
  <2>3. \A r \in 1 .. k : Timed(q, c, r)
    <3>1. Timed(q, c, k)
      BY <1>2 DEF Timed
    <3>2. ASSUME NEW r \in 1 .. k  PROVE Timed(q, c, r)
      <4>1. r \in 1 .. k - 1 \/ r = k
        BY <1>3
      <4> QED BY <2>1, <2>2, <3>1, <4>1
    <3> QED BY <3>2
  <2>4. ASSUME p.slowest = Unmeasured
        PROVE  \A u \in q.timings : u.speedup >= MinimumSpeedup
    <3>1. ~(speedup < MinimumSpeedup)
      BY <1>2, <1>3, <2>4 DEF Unmeasured
    <3>2. old.slowest = Unmeasured
      BY <1>2, <2>4, <3>1
    <3>3. \A u \in tested[s].timings : u.speedup >= MinimumSpeedup
      BY <1>3, <3>2 DEF Progress, Gates
    <3>4. t.speedup >= MinimumSpeedup
      BY <1>2, <1>3, <3>1 DEF Speedups
    <3> QED BY <1>2, <3>3, <3>4
  <2>5. CASE k = NRounds
    <3>1. p.pc = "recheck" /\ \A r \in Rounds : Timed(q, p.case, r)
      BY <1>2, <2>3, <2>5 DEF Rounds
    <3> QED BY <1>2, <2>1, <2>2, <2>4, <3>1 DEF Progress
  <2>6. CASE k # NRounds
    <3>1. p.pc = "time" /\ p.round = k + 1
      BY <1>2, <2>6
    <3>2. \A r \in 1 .. p.round - 1 : Timed(q, p.case, r)
      BY <1>2, <1>3, <2>3, <3>1
    <3> QED BY <1>2, <2>1, <2>2, <2>4, <3>1, <3>2 DEF Progress
  <2> QED BY <2>5, <2>6
<1>5. compiler[s].pc # "none" /\ UNCHANGED <<target, generator>>
  BY <1>3 DEF Time
<1>6. Processes'
  BY <1>1, <1>2, <1>4, <1>5, CompilerStep
<1> QED BY <1>1, <1>6, FilesStay DEF Time, files, FilesTyped

\* The artifact is what the process has tested, and all of it passed.
LEMMA SaveKeeps ==
  ASSUME IInv, NEW s \in Sessions, Save(s)
  PROVE  IInv'
<1> DEFINE p == [compiler[s] EXCEPT !.pc = "report",
                                    !.verdict = [status |-> "admitted",
                                                 speedup |-> compiler[s].worst]]
           q == tested[s]
<1>1. Processes /\ FilesTyped
  BY DEF IInv
<1>2. /\ compiler[s] \in Compilers /\ q \in Tests /\ compiler[s].worst \in 1 .. Unmeasured
      /\ Progress(compiler[s], q) /\ compiler[s].pc = "save"
  BY <1>1, Parts DEF Save, At
<1>3. p \in Compilers
  <2>1. [status |-> "admitted", speedup |-> compiler[s].worst] \in Verdicts
    BY <1>2 DEF Verdicts
  <2> QED BY <1>2, <2>1 DEF Compilers
<1>4. Progress(p, q)
  <2>1. p.pc = "report" /\ p.verdict.status # "none"
    BY <1>2 DEF Compilers
  <2> HIDE DEF p
  <2> QED BY <2>1 DEF Progress, Gates
<1>5. /\ compiler' = [compiler EXCEPT ![s] = p] /\ tested' = [tested EXCEPT ![s] = q]
      /\ UNCHANGED <<target, generator>> /\ compiler[s].pc # "none"
      /\ q.contract = tested[s].contract
  BY <1>1, <1>2 DEF Save, Decided, Processes
<1>6. Processes'
  <2> HIDE DEF p, q
  <2> QED BY <1>1, <1>2, <1>3, <1>4, <1>5, CompilerStep
<1>7. /\ q.contract = target /\ target \in Contracts /\ generator[s].attempt \in 1 .. MaxAttempts
  BY <1>1, <1>2 DEF Processes, Bound, Ended
<1>8. Admissible(q)
  <2>1. /\ q.inspected /\ q.checked = Cases /\ q.rechecked = Cases
        /\ \A c \in Cases, r \in Rounds : Timed(q, c, r)
    BY <1>2 DEF Progress
  <2>2. \A t \in q.timings : t.speedup >= MinimumSpeedup
    BY <1>2 DEF Progress, Gates
  <2> QED BY <2>1, <2>2 DEF Admissible, Timed
<1>9. q.kernel \in KernelFiles
  BY <1>2 DEF Progress
<1>10. artifact' \in Artifacts
  <2>1. <<s, generator[s].attempt>> \in Ids
    BY <1>7 DEF Ids
  <2> QED BY <1>2, <1>7, <1>9, <2>1 DEF Save, Artifacts
<1>11. Proven(artifact')
  BY <1>7, <1>8 DEF Save, Proven
<1>12. ArtifactIsAdmitted'
  BY <1>11 DEF ArtifactIsAdmitted
<1>13. UNCHANGED <<loaded, target, candidate, feedback>>
  BY DEF Save
<1>14. LoadedKernelFits'
  BY <1>13 DEF IInv, LoadedKernelFits
<1>15. FilesTyped'
  BY <1>1, <1>10, <1>13 DEF FilesTyped
<1> QED BY <1>6, <1>12, <1>14, <1>15 DEF IInv

LEMMA FindBaselinesKeeps ==
  ASSUME IInv, NEW s \in Sessions, FindBaselines(s)
  PROVE  IInv'
<1> DEFINE p == [compiler[s] EXCEPT !.pc = "load"]
           q == tested[s]
<1>1. Processes
  BY DEF IInv
<1>2. q \in Tests /\ tested' = [tested EXCEPT ![s] = q]
  BY <1>1, Parts DEF FindBaselines, Processes
<1>3. p.pc = "load" /\ p.slowest = compiler[s].slowest /\ p.case = compiler[s].case
  BY <1>1, Parts DEF Compilers
<1>4. Progress(p, q)
  <2>1. Progress(compiler[s], q) /\ compiler[s].pc = "baselines"
    BY <1>1, Parts DEF FindBaselines, At
  <2> HIDE DEF p, q
  <2> QED BY <1>3, <2>1 DEF Progress, Gates
<1>5. q.contract = tested[s].contract
  OBVIOUS
<1> HIDE DEF q
<1>6. compiler[s].pc \in Gates /\ "load" \in Gates /\ Advance(s, "load")
  BY DEF FindBaselines, At, Gates
<1> QED BY <1>2, <1>4, <1>5, <1>6, AdvanceKeeps

\* No round was too slow, so all of them were fast enough.
LEMMA FastEnoughKeeps ==
  ASSUME IInv, NEW s \in Sessions, FastEnough(s)
  PROVE  IInv'
<1> DEFINE p == [compiler[s] EXCEPT !.pc = "save"]
           q == tested[s]
<1>1. Processes
  BY DEF IInv
<1>2. q \in Tests /\ tested' = [tested EXCEPT ![s] = q]
  BY <1>1, Parts DEF FastEnough, Processes
<1>3. p.pc = "save" /\ p.slowest = compiler[s].slowest
  BY <1>1, Parts DEF Compilers
<1>4. Progress(p, q)
  <2>1. /\ Progress(compiler[s], q) /\ compiler[s].pc = "decide"
        /\ compiler[s].slowest = Unmeasured
    BY <1>1, Parts DEF FastEnough, At, Slow
  <2> HIDE DEF p, q
  <2> QED BY <1>3, <2>1 DEF Progress, Gates
<1>5. q.contract = tested[s].contract
  OBVIOUS
<1> HIDE DEF q
<1>6. compiler[s].pc \in Gates /\ "save" \in Gates /\ Advance(s, "save")
  BY DEF FastEnough, At, Gates
<1> QED BY <1>2, <1>4, <1>5, <1>6, AdvanceKeeps

\* Every refusal reports and stores nothing.
LEMMA RefusalKeeps ==
  ASSUME IInv, NEW s \in Sessions,
         \/ NoBaseline(s) \/ LoadRefuses(s) \/ InspectRefuses(s) \/ CheckRefuses(s)
         \/ TimeFails(s) \/ RecheckRefuses(s) \/ TooSlow(s) \/ SaveFails(s) \/ Throw(s)
  PROVE  IInv'
<1>1. compiler[s].pc \in Gates
  BY DEF NoBaseline, LoadRefuses, InspectRefuses, CheckRefuses, TimeFails, RecheckRefuses,
         TooSlow, SaveFails, Throw, At, Gates
<1>2. compiler[s].slowest \in 1 .. Unmeasured /\ Unmeasured \in 1 .. Unmeasured
  BY Parts DEF IInv, Unmeasured
<1>3. PICK status \in {"admitted", "retry", "fatal"}, speedup \in 1 .. Unmeasured :
        Reject(s, status, speedup)
  BY <1>2 DEF NoBaseline, LoadRefuses, InspectRefuses, CheckRefuses, TimeFails,
              RecheckRefuses, TooSlow, SaveFails, Throw
<1> QED BY <1>1, <1>3, RejectKeeps

\* However the compiler ends, feedback.json is what it was, torn or its report.
LEMMA EndKeeps ==
  ASSUME IInv, NEW s \in Sessions, Report(s) \/ ReportFails(s) \/ Crash(s)
  PROVE  IInv'
<1>1. compiler[s].pc \in Gates \cup {"report"}
  BY DEF Report, ReportFails, Crash, At
<1>2. feedback' \in Files(Feedbacks)
  <2>1. feedback \in Files(Feedbacks) /\ Torn \in Files(Feedbacks)
    BY DEF IInv, FilesTyped, Files
  <2>2. compiler[s].pc = "report" => FeedbackOf(s) \in Files(Feedbacks)
    BY ReportIsFeedback
  <2> QED BY <2>1, <2>2 DEF Report, ReportFails, Crash, At
<1>3. PICK passed \in BOOLEAN : Exit(s, passed)
  BY DEF Report, ReportFails, Crash
<1> QED BY <1>1, <1>2, <1>3, ExitKeeps

LEMMA AdmitKeeps ==
  ASSUME IInv, NEW s \in Sessions, Admit(s)
  PROVE  IInv'
BY FindBaselinesKeeps, LoadKeeps, InspectKeeps, CheckKeeps, TimeKeeps, RecheckKeeps,
   FastEnoughKeeps, SaveKeeps, RefusalKeeps, EndKeeps DEF Admit

-----------------------------------------------------------------------------
(* The generator's steps.                                                    *)

\* A step of a session that has no compiler, or whose compiler is gone after it.
LEMMA SessionStep ==
  ASSUME IInv, NEW s \in Sessions, NEW g \in Generators,
         generator' = [generator EXCEPT ![s] = g],
         UNCHANGED <<target, tested, feedback, artifact, loaded>>, candidate' \in Responses,
         \/ generator[s].pc # "wait" /\ UNCHANGED compiler
         \/ compiler' = [compiler EXCEPT ![s] = AtRest("none")],
         g.pc \notin Ended => g.attempt \in 1 .. MaxAttempts
  PROVE  IInv'
<1> DEFINE q == tested[s]
<1>1. Processes /\ FilesTyped
  BY DEF IInv
<1>2. PICK p \in Compilers : p.pc = "none" /\ compiler' = [compiler EXCEPT ![s] = p]
  <2>1. CASE generator[s].pc # "wait" /\ UNCHANGED compiler
    <3>1. compiler[s] \in Compilers /\ compiler[s].pc = "none"
      BY <1>1, <2>1 DEF Processes, Bound
    <3> QED BY <1>1, <2>1, <3>1 DEF Processes
  <2>2. CASE compiler' = [compiler EXCEPT ![s] = AtRest("none")]
    <3>1. AtRest("none") \in Compilers
      BY GenerationAssumption
         DEF AtRest, Compilers, Cases, Rounds, Unmeasured, Verdicts, NoVerdict
    <3>2. AtRest("none").pc = "none"
      BY DEF AtRest
    <3> QED BY <2>2, <3>1, <3>2
  <2> QED BY <2>1, <2>2
<1>3. Progress(p, q) /\ Bound(g, p, q, target)
  BY <1>2 DEF Progress, Bound, Gates
<1>4. q \in Tests /\ tested' = [tested EXCEPT ![s] = q]
  BY <1>1 DEF Processes
<1> HIDE DEF q
<1>5. Processes'
  BY <1>1, <1>2, <1>3, <1>4, ProcessStep
<1> QED BY <1>1, <1>5, FilesStay DEF FilesTyped

\* A session that goes to another place of its loop, or ends.
LEMMA GotoKeeps ==
  ASSUME IInv, NEW s \in Sessions, NEW pc \in Ended, Goto(s, pc),
         UNCHANGED <<target, files, tested, loaded>>,
         \/ generator[s].pc # "wait" /\ UNCHANGED compiler
         \/ compiler' = [compiler EXCEPT ![s] = AtRest("none")]
  PROVE  IInv'
<1> DEFINE g == [generator[s] EXCEPT !.pc = pc]
<1>1. generator[s] \in Generators
  BY DEF IInv, Processes
<1>2. g \in Generators /\ g.pc = pc
  BY <1>1 DEF Generators
<1>3. generator' = [generator EXCEPT ![s] = g]
  BY DEF Goto
<1> HIDE DEF g
<1>4. UNCHANGED <<candidate, feedback, artifact>> /\ candidate' \in Responses
  BY DEF files, IInv, FilesTyped
<1> QED BY <1>2, <1>3, <1>4, SessionStep

LEMMA StartKeeps ==
  ASSUME IInv, NEW s \in Sessions, Start(s)
  PROVE  IInv'
<1>1. PICK pc \in {"failed", "ask"} :
        generator' = [generator EXCEPT ![s].pc = pc, ![s].attempt = 1, ![s].found = artifact]
  BY DEF Start
<1> DEFINE g == [generator[s] EXCEPT !.pc = pc, !.attempt = 1, !.found = artifact]
<1>2. generator' = [generator EXCEPT ![s] = g]
  BY <1>1
<1>3. /\ generator[s] \in Generators /\ artifact \in {NoFile} \cup Artifacts
      /\ candidate \in Responses /\ 1 \in 1 .. MaxAttempts /\ 1 \in 0 .. MaxAttempts
  BY GenerationAssumption DEF IInv, Processes, FilesTyped
<1>4. g \in Generators /\ g.attempt = 1
  BY <1>3 DEF Generators, Ended
<1> HIDE DEF g
<1> QED BY <1>2, <1>3, <1>4, SessionStep DEF Start

LEMMA AnswerKeeps ==
  ASSUME IInv, NEW s \in Sessions, Answer(s)
  PROVE  IInv'
<1>1. PICK response \in {Kernel(k) : k \in Kernels} \cup {Malformed} :
        generator' = [generator EXCEPT ![s].pc = "write", ![s].response = response]
  BY DEF Answer
<1> DEFINE g == [generator[s] EXCEPT !.pc = "write", !.response = response]
<1>2. generator' = [generator EXCEPT ![s] = g]
  BY <1>1
<1>3. /\ generator[s] \in Generators /\ generator[s].attempt \in 1 .. MaxAttempts
      /\ response \in Responses /\ Torn \in Responses
  BY <1>1 DEF IInv, Processes, Bound, Ended, Answer, Responses, Files, KernelFiles
<1>4. g \in Generators /\ g.attempt = generator[s].attempt
  BY <1>3 DEF Generators
<1> HIDE DEF g
<1> QED BY <1>2, <1>3, <1>4, SessionStep DEF Answer

\* The compiler starts on the contract in force, with nothing tested.
LEMMA RunCompilerKeeps ==
  ASSUME IInv, NEW s \in Sessions, RunCompiler(s)
  PROVE  IInv'
<1> DEFINE g == [generator[s] EXCEPT !.pc = "wait"]
           p == AtRest("baselines")
           q == [Untested EXCEPT !.contract = target]
<1>1. Processes /\ FilesTyped
  BY DEF IInv
<1>2. /\ generator[s] \in Generators /\ generator[s].attempt \in 1 .. MaxAttempts
      /\ generator[s].response \in Responses /\ target \in Contracts
  BY <1>1 DEF Processes, Bound, Ended, RunCompiler, Generators
<1>3. g \in Generators /\ g.attempt = generator[s].attempt /\ g.pc = "wait"
  BY <1>2 DEF Generators
<1>4. /\ p \in Compilers /\ p.pc = "baselines" /\ p.case = 1
  BY GenerationAssumption
     DEF AtRest, Compilers, Cases, Rounds, Unmeasured, Verdicts, NoVerdict, Gates
<1>5. q \in Tests /\ q.contract = target /\ q.timings = {}
  BY <1>2 DEF Untested, Tests
<1>6. /\ generator' = [generator EXCEPT ![s] = g] /\ compiler' = [compiler EXCEPT ![s] = p]
      /\ tested' = [tested EXCEPT ![s] = q] /\ candidate' = generator[s].response
      /\ UNCHANGED <<target, feedback, artifact, loaded>>
  BY DEF RunCompiler, Goto
<1> HIDE DEF g, p, q
<1>7. Progress(p, q) /\ Bound(g, p, q, target)
  BY <1>2, <1>3, <1>4, <1>5 DEF Progress, Bound
<1>8. Processes'
  BY <1>1, <1>3, <1>4, <1>5, <1>6, <1>7, ProcessStep
<1> QED BY <1>1, <1>2, <1>6, <1>8, FilesStay DEF FilesTyped

\* A rejected attempt is remembered, and counted only up to the limit.
LEMMA RetryKeeps ==
  ASSUME IInv, NEW s \in Sessions, generator[s].pc = "wait", Readable, RetryLater(s),
         compiler' = [compiler EXCEPT ![s] = AtRest("none")],
         UNCHANGED <<target, files, tested, loaded>>
  PROVE  IInv'
<1> DEFINE n == generator[s].attempt
           more == n < MaxAttempts
           entry == [response |-> generator[s].response, feedback |-> feedback]
           g == [generator[s] EXCEPT !.pc = IF more THEN "ask" ELSE "fallback",
                                     !.attempt = IF more THEN n + 1 ELSE n,
                                     !.previous = Append(@, entry)]
<1>1. /\ generator[s] \in Generators /\ n \in 1 .. MaxAttempts /\ MaxAttempts \in Nat
      /\ candidate \in Responses
  BY GenerationAssumption DEF IInv, Processes, Bound, FilesTyped, Ended
<1>2. generator' = [generator EXCEPT ![s] = g]
  BY DEF RetryLater
<1>3. (IF more THEN n + 1 ELSE n) \in 1 .. MaxAttempts
  BY <1>1
<1>4. entry \in [response : Responses, feedback : Feedbacks]
  <2>1. feedback \in Feedbacks
    BY DEF IInv, FilesTyped, Readable, Files, NoFile, Torn
  <2> QED BY <1>1, <2>1 DEF Generators
<1>5. /\ g \in Generators /\ g.attempt = (IF more THEN n + 1 ELSE n)
  <2>1. Append(generator[s].previous, entry)
          \in Seq([response : Responses, feedback : Feedbacks])
    <3>1. generator[s].previous \in Seq([response : Responses, feedback : Feedbacks])
      BY <1>1 DEF Generators
    <3> HIDE DEF entry
    <3> QED BY <1>4, <3>1
  <2>2. (IF more THEN n + 1 ELSE n) \in 0 .. MaxAttempts
    BY <1>1, <1>3
  <2> HIDE DEF entry, n, more
  <2> QED BY <1>1, <2>1, <2>2 DEF Generators, Ended
<1>6. UNCHANGED <<candidate, feedback, artifact>>
  BY DEF files
<1> HIDE DEF g
<1> QED BY <1>1, <1>2, <1>3, <1>5, <1>6, SessionStep

LEMMA GenerateKeeps ==
  ASSUME IInv, NEW s \in Sessions, Generate(s) \/ Interrupt(s)
  PROVE  IInv'
<1>1. CASE AnswerFails(s) \/ RunCompilerFails(s) \/ Interrupt(s)
  <2>1. PICK pc \in Ended : Goto(s, pc)
    BY <1>1 DEF AnswerFails, RunCompilerFails, Interrupt, Ended
  <2>2. /\ UNCHANGED <<target, files, tested, loaded>>
        /\ \/ generator[s].pc # "wait" /\ UNCHANGED compiler
           \/ compiler' = [compiler EXCEPT ![s] = AtRest("none")]
    BY <1>1 DEF AnswerFails, RunCompilerFails, Interrupt
  <2> QED BY <2>1, <2>2, GotoKeeps
<1>2. CASE Collect(s)
  <2>1. /\ UNCHANGED <<target, files, tested, loaded>> /\ generator[s].pc = "wait"
        /\ compiler' = [compiler EXCEPT ![s] = AtRest("none")]
    BY <1>2 DEF Collect
  <2>2. (\E pc \in Ended : Goto(s, pc)) \/ (Readable /\ RetryLater(s))
    BY <1>2 DEF Collect, Ended
  <2> QED BY <2>1, <2>2, GotoKeeps, RetryKeeps
<1> QED BY <1>1, <1>2, StartKeeps, AnswerKeeps, RunCompilerKeeps DEF Generate

-----------------------------------------------------------------------------
(* The decoders and the rebuilds.                                            *)

\* What is loaded was admitted under the contract in force.
LEMMA LoadRegistryKeeps ==
  ASSUME IInv, LoadRegistry
  PROVE  IInv'
<1>1. Processes /\ FilesTyped /\ ArtifactIsAdmitted
  BY DEF IInv
<1>2. UNCHANGED <<target, candidate, feedback, artifact, generator, compiler, tested>>
  BY DEF LoadRegistry, files
<1>3. Processes' /\ ArtifactIsAdmitted'
  BY <1>1, <1>2 DEF Processes, ArtifactIsAdmitted
<1>4. FilesTyped' /\ LoadedKernelFits'
  BY <1>1, <1>2 DEF LoadRegistry, FilesTyped, ArtifactIsAdmitted, LoadedKernelFits
<1> QED BY <1>3, <1>4 DEF IInv

\* No session runs, so no compiler is left to work on the old contract.
LEMMA RebuildKeeps ==
  ASSUME IInv, Rebuild
  PROVE  IInv'
<1>1. Processes /\ FilesTyped /\ ArtifactIsAdmitted
  BY DEF IInv
<1>2. UNCHANGED <<candidate, feedback, artifact, generator, compiler, tested>>
      /\ target' \in Contracts /\ loaded' = NoFile
  BY DEF Rebuild, files
<1>3. \A s \in Sessions : Bound(generator[s], compiler[s], tested[s], target')
  BY <1>1 DEF Rebuild, Running, Processes, Bound, Ended
<1>4. Processes'
  <2>1. \A s \in Sessions : Progress(compiler[s], tested[s])
    BY <1>1 DEF Processes
  <2> QED BY <1>1, <1>2, <1>3, <2>1 DEF Processes
<1>5. FilesTyped' /\ ArtifactIsAdmitted' /\ LoadedKernelFits'
  BY <1>1, <1>2 DEF FilesTyped, ArtifactIsAdmitted, LoadedKernelFits
<1> QED BY <1>4, <1>5 DEF IInv

-----------------------------------------------------------------------------
(* The invariant and what follows from it.                                   *)

LEMMA InitEstablishes == Init => IInv
<1> SUFFICES ASSUME Init PROVE IInv
  OBVIOUS
<1> DEFINE g == [pc |-> "idle", attempt |-> 0, response |-> NoFile,
                 previous |-> <<>>, found |-> NoFile]
<1>1. g \in Generators /\ g.pc = "idle"
  BY GenerationAssumption DEF Generators, Ended, Responses, Files
<1>2. AtRest("none") \in Compilers /\ AtRest("none").pc = "none"
  BY GenerationAssumption
     DEF AtRest, Compilers, Cases, Rounds, Unmeasured, Verdicts, NoVerdict
<1>3. Untested \in Tests
  BY DEF Untested, Tests
<1>4. /\ generator = [s \in Sessions |-> g] /\ compiler = [s \in Sessions |-> AtRest("none")]
      /\ tested = [s \in Sessions |-> Untested] /\ target \in Contracts
      /\ candidate = NoFile /\ feedback = NoFile /\ artifact = NoFile /\ loaded = NoFile
  BY DEF Init
<1> HIDE DEF g
<1>5. Processes
  BY <1>1, <1>2, <1>3, <1>4 DEF Processes, Progress, Bound, Gates, Ended
<1>6. FilesTyped /\ ArtifactIsAdmitted /\ LoadedKernelFits
  BY <1>4 DEF FilesTyped, Responses, Files, ArtifactIsAdmitted, LoadedKernelFits
<1> QED BY <1>5, <1>6 DEF IInv

LEMMA NextKeeps == IInv /\ [Next]_vars => IInv'
<1> SUFFICES ASSUME IInv, [Next]_vars PROVE IInv'
  OBVIOUS
<1>1. CASE UNCHANGED vars
  BY <1>1 DEF vars, IInv, Processes, FilesTyped, ArtifactIsAdmitted, LoadedKernelFits
<1>2. CASE Next
  BY <1>2, AdmitKeeps, GenerateKeeps, LoadRegistryKeeps, RebuildKeeps DEF Next
<1> QED BY <1>1, <1>2

LEMMA Inductive == Spec => []IInv
BY InitEstablishes, NextKeeps, PTL DEF Spec

\* The processes and the files keep their types, attempts their bound.
THEOREM Typed == Spec => []TypeInvariant
<1>1. IInv => TypeInvariant
  BY DEF IInv, Processes, FilesTyped, TypeInvariant
<1> QED BY <1>1, Inductive, PTL

\* admitted.json only ever holds a kernel that passed every gate on every case
\* under the contract stored with it (GeneratedKernelAdmission.cpp 235-312),
\* for any number of sessions at a time, cases, rounds, attempts and contracts.
THEOREM Admission == Spec => []ArtifactIsAdmitted
<1>1. IInv => ArtifactIsAdmitted
  BY DEF IInv
<1> QED BY <1>1, Inductive, PTL

\* A decoder runs only generated kernels that passed the gates under its own
\* compiler's contract on its own device (KernelRegistry.mm 82-94), whatever
\* builds and sessions came before.
THEOREM Fitting == Spec => []LoadedKernelFits
<1>1. IInv => LoadedKernelFits
  BY DEF IInv
<1> QED BY <1>1, Inductive, PTL

-----------------------------------------------------------------------------
(* The speedup in the report.  Kept says what the two minima of the timed   *)
(* rounds are at every gate, and Reported what they make of the verdict.    *)

Kept(p, test) ==
  /\ p.worst # Unmeasured => \E t \in test.timings : t.speedup = p.worst
  /\ \A t \in test.timings : t.speedup >= p.worst
  /\ p.slowest # Unmeasured =>
       p.slowest < MinimumSpeedup /\ \E t \in test.timings : t.speedup = p.slowest
  /\ \A t \in test.timings : t.speedup < MinimumSpeedup => t.speedup >= p.slowest

Measured(verdict, test) ==
  verdict.speedup # Unmeasured =>
    /\ \E t \in test.timings : t.speedup = verdict.speedup
    /\ \A t \in test.timings : t.speedup >= verdict.speedup
    /\ test.rechecked = Cases
    /\ verdict.status = IF verdict.speedup >= MinimumSpeedup THEN "admitted" ELSE "retry"

Reported(p, test) ==
  /\ p.pc \in Gates \cup {"none"} => p.verdict = NoVerdict
  /\ p.pc \in Gates => Kept(p, test)
  /\ Measured(p.verdict, test)

WorstInv == \A s \in Sessions : Reported(compiler[s], tested[s])

LEMMA ReportedStep ==
  ASSUME Processes, WorstInv, NEW s \in Sessions, NEW p, NEW q,
         compiler' = [compiler EXCEPT ![s] = p], tested' = [tested EXCEPT ![s] = q],
         Reported(p, q)
  PROVE  WorstInv'
<1> SUFFICES ASSUME NEW t \in Sessions PROVE Reported(compiler'[t], tested'[t])
  BY DEF WorstInv
<1>1. /\ compiler'[t] = IF t = s THEN p ELSE compiler[t]
      /\ tested'[t] = IF t = s THEN q ELSE tested[t]
  BY DEF Processes
<1> QED BY <1>1 DEF WorstInv

\* From a gate to another one, with no round in between.
LEMMA ReportedMoves ==
  ASSUME NEW old, NEW test, NEW p, NEW q, Reported(old, test), old.pc \in Gates, p.pc \in Gates,
         p.worst = old.worst, p.slowest = old.slowest, p.verdict = old.verdict,
         q.timings = test.timings
  PROVE  Reported(p, q)
<1>1. p.verdict = NoVerdict /\ Kept(p, q)
  BY DEF Reported, Kept
<1> QED BY <1>1 DEF Reported, Measured, NoVerdict

LEMMA AdvanceReports ==
  ASSUME Processes, WorstInv, NEW s \in Sessions, NEW pc \in Gates, NEW q,
         compiler[s].pc \in Gates, Advance(s, pc),
         tested' = [tested EXCEPT ![s] = q], q.timings = tested[s].timings
  PROVE  WorstInv'
<1> DEFINE p == [compiler[s] EXCEPT !.pc = pc]
<1>1. compiler' = [compiler EXCEPT ![s] = p]
  BY DEF Advance
<1>2. /\ p.pc = pc /\ p.worst = compiler[s].worst /\ p.slowest = compiler[s].slowest
      /\ p.verdict = compiler[s].verdict
  BY Parts DEF Compilers
<1> HIDE DEF p
<1>3. Reported(p, q)
  BY <1>2, ReportedMoves DEF WorstInv
<1> QED BY <1>1, <1>3, ReportedStep

LEMMA NextCaseReports ==
  ASSUME Processes, WorstInv, NEW s \in Sessions, NEW pc \in Gates, NEW done \in Gates, NEW q,
         compiler[s].pc \in Gates, NextCase(s, pc, done),
         tested' = [tested EXCEPT ![s] = q], q.timings = tested[s].timings
  PROVE  WorstInv'
<1>1. PICK p \in Compilers :
        /\ compiler' = [compiler EXCEPT ![s] = p]
        /\ p.slowest = compiler[s].slowest
        /\ p.worst = compiler[s].worst /\ p.verdict = compiler[s].verdict
        /\ p.pc \in {pc, done}
  BY NextCaseMoves
<1>2. Reported(p, q)
  BY <1>1, ReportedMoves DEF WorstInv
<1> QED BY <1>1, <1>2, ReportedStep

\* Between the gates nothing is measured.
LEMMA GatesReport ==
  ASSUME Processes, WorstInv, NEW s \in Sessions,
         \/ FindBaselines(s) \/ Load(s) \/ Inspect(s) \/ Check(s) \/ Recheck(s) \/ FastEnough(s)
  PROVE  WorstInv'
<1>1. tested[s] \in Tests /\ tested[s].timings \subseteq Timings /\ tested \in [Sessions -> Tests]
  BY Parts DEF Processes
<1>2. CASE FindBaselines(s) \/ FastEnough(s)
  <2>1. PICK pc \in Gates : Advance(s, pc) /\ UNCHANGED tested /\ compiler[s].pc \in Gates
    BY <1>2 DEF FindBaselines, FastEnough, At, Gates
  <2>2. tested' = [tested EXCEPT ![s] = tested[s]]
    BY <1>1, <2>1
  <2> QED BY <2>1, <2>2, AdvanceReports
<1>3. CASE Load(s)
  <2> DEFINE q == [tested[s] EXCEPT !.kernel = candidate]
  <2>1. tested' = [tested EXCEPT ![s] = q] /\ q.timings = tested[s].timings
    BY <1>1, <1>3 DEF Load, Tests
  <2>2. compiler[s].pc \in Gates /\ "inspect" \in Gates /\ Advance(s, "inspect")
    BY <1>3 DEF Load, At, Gates
  <2> HIDE DEF q
  <2> QED BY <2>1, <2>2, AdvanceReports
<1>4. CASE Inspect(s)
  <2> DEFINE q == [tested[s] EXCEPT !.inspected = TRUE]
  <2>1. tested' = [tested EXCEPT ![s] = q] /\ q.timings = tested[s].timings
    BY <1>1, <1>4 DEF Inspect, Tests
  <2>2. compiler[s].pc \in Gates /\ "check" \in Gates /\ Advance(s, "check")
    BY <1>4 DEF Inspect, At, Gates
  <2> HIDE DEF q
  <2> QED BY <2>1, <2>2, AdvanceReports
<1>5. CASE Check(s)
  <2> DEFINE q == [tested[s] EXCEPT !.checked = @ \cup {compiler[s].case}]
  <2>1. tested' = [tested EXCEPT ![s] = q] /\ q.timings = tested[s].timings
    BY <1>1, <1>5 DEF Check, Tests
  <2>2. /\ compiler[s].pc \in Gates /\ "check" \in Gates /\ "time" \in Gates
        /\ NextCase(s, "check", "time")
    BY <1>5 DEF Check, At, Gates
  <2> HIDE DEF q
  <2> QED BY <2>1, <2>2, NextCaseReports
<1>6. CASE Recheck(s)
  <2> DEFINE q == [tested[s] EXCEPT !.rechecked = @ \cup {compiler[s].case}]
  <2>1. tested' = [tested EXCEPT ![s] = q] /\ q.timings = tested[s].timings
    BY <1>1, <1>6 DEF Recheck, Tests
  <2>2. /\ compiler[s].pc \in Gates /\ "time" \in Gates /\ "decide" \in Gates
        /\ NextCase(s, "time", "decide")
    BY <1>6 DEF Recheck, At, Gates
  <2> HIDE DEF q
  <2> QED BY <2>1, <2>2, NextCaseReports
<1> QED BY <1>2, <1>3, <1>4, <1>5, <1>6

\* The minimum of a minimum and a speedup.
LEMMA WorstIsOneOf ==
  ASSUME NEW a \in 1 .. Unmeasured, NEW b \in Speedups, MaxSpeedup \in Nat
  PROVE  /\ Worst(a, b) = b \/ (a # Unmeasured /\ Worst(a, b) = a)
         /\ Worst(a, b) <= a /\ Worst(a, b) <= b
BY DEF Worst, Speedups, Unmeasured

LEMMA TimeReports ==
  ASSUME Processes, WorstInv, NEW s \in Sessions, Time(s)
  PROVE  WorstInv'
<1> DEFINE old == compiler[s]
           test == tested[s]
<1>1. PICK speedup \in Speedups, t \in Timings, p \in Compilers, q \in Tests :
        /\ compiler' = [compiler EXCEPT ![s] = p] /\ tested' = [tested EXCEPT ![s] = q]
        /\ t.speedup = speedup /\ q.timings = test.timings \cup {t}
        /\ p.verdict = old.verdict /\ p.pc \in {"recheck", "time"}
        /\ p.worst = Worst(old.worst, speedup)
        /\ p.slowest = (IF speedup < MinimumSpeedup THEN Worst(old.slowest, speedup)
                                                    ELSE old.slowest)
  BY TimeMoves
<1>2. /\ old.pc \in Gates /\ Reported(old, test) /\ MaxSpeedup \in Nat /\ MinimumSpeedup \in Nat
      /\ old.worst \in 1 .. Unmeasured /\ old.slowest \in 1 .. Unmeasured
      /\ \A u \in test.timings : u.speedup \in 1 .. MaxSpeedup
  BY Parts DEF Time, At, Gates, WorstInv, Timings, Speedups
<1>3. p.verdict = NoVerdict /\ Kept(old, test)
  BY <1>1, <1>2 DEF Reported
<1>4. speedup \in 1 .. MaxSpeedup
  BY DEF Speedups
<1> HIDE DEF old, test
<1>5. /\ \A u \in q.timings : u \in test.timings \/ u = t
      /\ \A u \in test.timings : u \in q.timings
      /\ t \in q.timings
  BY <1>1
<1>6. /\ p.worst # Unmeasured => \E u \in q.timings : u.speedup = p.worst
      /\ \A u \in q.timings : u.speedup >= p.worst
  <2>1. /\ p.worst = speedup \/ (old.worst # Unmeasured /\ p.worst = old.worst)
        /\ p.worst <= old.worst /\ p.worst <= speedup
    BY <1>1, <1>2, WorstIsOneOf
  <2>2. p.worst \in Nat
    BY <1>2, <1>4, <2>1 DEF Unmeasured
  <2>3. ASSUME NEW u \in q.timings PROVE u.speedup >= p.worst
    <3>1. CASE u = t
      BY <1>1, <1>4, <2>1, <2>2, <3>1
    <3>2. CASE u \in test.timings
      <4>1. u.speedup >= old.worst /\ u.speedup \in Nat /\ old.worst \in Nat
        BY <1>2, <1>3, <3>2 DEF Kept, Unmeasured
      <4> QED BY <2>1, <2>2, <4>1
    <3> QED BY <1>5, <3>1, <3>2
  <2>4. \E u \in q.timings : u.speedup = p.worst
    BY <1>1, <1>3, <1>5, <2>1 DEF Kept
  <2> QED BY <2>3, <2>4
<1>7. /\ p.slowest # Unmeasured =>
           p.slowest < MinimumSpeedup /\ \E u \in q.timings : u.speedup = p.slowest
      /\ \A u \in q.timings : u.speedup < MinimumSpeedup => u.speedup >= p.slowest
  <2>1. CASE ~(speedup < MinimumSpeedup)
    <3>1. p.slowest = old.slowest
      BY <1>1, <2>1
    <3> QED BY <1>1, <1>3, <1>5, <2>1, <3>1 DEF Kept
  <2>2. CASE speedup < MinimumSpeedup
    <3>1. /\ p.slowest = speedup \/ (old.slowest # Unmeasured /\ p.slowest = old.slowest)
          /\ p.slowest <= old.slowest /\ p.slowest <= speedup
      BY <1>1, <1>2, <2>2, WorstIsOneOf
    <3>2. p.slowest \in Nat
      BY <1>2, <1>4, <3>1 DEF Unmeasured
    <3>3. ASSUME NEW u \in q.timings, u.speedup < MinimumSpeedup PROVE u.speedup >= p.slowest
      <4>1. CASE u = t
        BY <1>1, <1>4, <3>1, <3>2, <4>1
      <4>2. CASE u \in test.timings
        <5>1. u.speedup >= old.slowest /\ u.speedup \in Nat /\ old.slowest \in Nat
          BY <1>2, <1>3, <3>3, <4>2 DEF Kept, Unmeasured
        <5> QED BY <3>1, <3>2, <5>1
      <4> QED BY <1>5, <4>1, <4>2
    <3>4. p.slowest < MinimumSpeedup /\ \E u \in q.timings : u.speedup = p.slowest
      BY <1>1, <1>3, <1>5, <2>2, <3>1 DEF Kept
    <3> QED BY <3>3, <3>4
  <2> QED BY <2>1, <2>2
<1>8. Reported(p, q)
  BY <1>1, <1>3, <1>6, <1>7 DEF Reported, Kept, Measured, NoVerdict, Gates
<1> QED BY <1>1, <1>8, ReportedStep

\* A verdict on the rounds timed so far.
LEMMA DecidedReports ==
  ASSUME Processes, WorstInv, NEW s \in Sessions, NEW status, NEW speedup,
         Decided(s, status, speedup), UNCHANGED tested,
         Measured([status |-> status, speedup |-> speedup], tested[s])
  PROVE  WorstInv'
<1> DEFINE v == [status |-> status, speedup |-> speedup]
           p == [compiler[s] EXCEPT !.pc = "report", !.verdict = v]
<1>1. compiler' = [compiler EXCEPT ![s] = p] /\ tested' = [tested EXCEPT ![s] = tested[s]]
  BY DEF Decided, Processes
<1>2. p.pc = "report" /\ p.verdict = v
  <2>1. compiler[s] \in Compilers
    BY Parts
  <2> HIDE DEF v
  <2> QED BY <2>1 DEF Compilers
<1> HIDE DEF p
<1>3. Reported(p, tested[s])
  BY <1>2 DEF Reported, Gates
<1> QED BY <1>1, <1>3, ReportedStep

LEMMA RefusalReports ==
  ASSUME Processes, WorstInv, NEW s \in Sessions,
         \/ NoBaseline(s) \/ LoadRefuses(s) \/ InspectRefuses(s) \/ CheckRefuses(s)
         \/ TimeFails(s) \/ RecheckRefuses(s) \/ SaveFails(s) \/ Throw(s)
  PROVE  WorstInv'
<1>1. PICK status \in {"retry", "fatal"} : Reject(s, status, Unmeasured)
  BY DEF NoBaseline, LoadRefuses, InspectRefuses, CheckRefuses, TimeFails,
         RecheckRefuses, SaveFails, Throw
<1>2. Measured([status |-> status, speedup |-> Unmeasured], tested[s])
  BY DEF Measured
<1> QED BY <1>1, <1>2, DecidedReports DEF Reject

\* The slowest round of all is one that is too slow.
LEMMA TooSlowReports ==
  ASSUME Processes, WorstInv, NEW s \in Sessions, TooSlow(s)
  PROVE  WorstInv'
<1> DEFINE slowest == compiler[s].slowest
           test == tested[s]
<1>1. /\ slowest \in 1 .. Unmeasured /\ slowest # Unmeasured
      /\ MaxSpeedup \in Nat /\ MinimumSpeedup \in Nat
      /\ Kept(compiler[s], test) /\ test.rechecked = Cases
      /\ \A t \in test.timings : t.speedup \in 1 .. MaxSpeedup
  BY Parts DEF TooSlow, At, Slow, Gates, WorstInv, Reported, Progress, Timings, Speedups
<1>2. /\ slowest < MinimumSpeedup /\ \E t \in test.timings : t.speedup = slowest
      /\ \A t \in test.timings : t.speedup < MinimumSpeedup => t.speedup >= slowest
  BY <1>1 DEF Kept
<1>3. Reject(s, "retry", slowest)
  BY DEF TooSlow
<1> HIDE DEF slowest, test
<1>4. \A t \in test.timings : t.speedup >= slowest
  BY <1>1, <1>2 DEF Unmeasured
<1>5. Measured([status |-> "retry", speedup |-> slowest], test)
  BY <1>1, <1>2, <1>4 DEF Measured, Unmeasured
<1>6. UNCHANGED tested /\ Decided(s, "retry", slowest)
  BY <1>3 DEF Reject
<1> QED BY <1>5, <1>6, DecidedReports DEF test

\* No round is too slow, so the slowest of all is not.
LEMMA SaveReports ==
  ASSUME Processes, WorstInv, NEW s \in Sessions, Save(s)
  PROVE  WorstInv'
<1> DEFINE worst == compiler[s].worst
           test == tested[s]
<1>1. /\ worst \in 1 .. Unmeasured /\ MaxSpeedup \in Nat /\ MinimumSpeedup \in Nat
      /\ Kept(compiler[s], test) /\ test.rechecked = Cases
      /\ \A t \in test.timings : t.speedup >= MinimumSpeedup
  BY Parts DEF Save, At, Gates, WorstInv, Reported, Progress
<1>2. /\ worst # Unmeasured => \E t \in test.timings : t.speedup = worst
      /\ \A t \in test.timings : t.speedup >= worst
  BY <1>1 DEF Kept
<1>3. Decided(s, "admitted", worst) /\ UNCHANGED tested
  BY DEF Save
<1> HIDE DEF worst, test
<1>4. Measured([status |-> "admitted", speedup |-> worst], test)
  BY <1>1, <1>2 DEF Measured
<1> QED BY <1>3, <1>4, DecidedReports DEF test

\* However the compiler ends, its verdict stays.
LEMMA EndReports ==
  ASSUME Processes, WorstInv, NEW s \in Sessions, Report(s) \/ ReportFails(s) \/ Crash(s)
  PROVE  WorstInv'
<1>1. PICK passed \in BOOLEAN : Exit(s, passed)
  BY DEF Report, ReportFails, Crash
<1> DEFINE p == [compiler[s] EXCEPT !.pc = "exited", !.passed = passed]
<1>2. compiler' = [compiler EXCEPT ![s] = p] /\ tested' = [tested EXCEPT ![s] = tested[s]]
  BY <1>1 DEF Exit, Processes
<1>3. p.pc = "exited" /\ p.verdict = compiler[s].verdict
  BY Parts DEF Compilers
<1> HIDE DEF p
<1>4. Reported(p, tested[s])
  BY <1>3 DEF WorstInv, Reported, Gates
<1> QED BY <1>2, <1>4, ReportedStep

LEMMA AdmitReports ==
  ASSUME Processes, WorstInv, NEW s \in Sessions, Admit(s)
  PROVE  WorstInv'
BY GatesReport, TimeReports, RefusalReports, TooSlowReports, SaveReports, EndReports DEF Admit

\* A compiler starts, or is gone, without a verdict.
LEMMA AtRestReports ==
  ASSUME Processes, WorstInv, NEW s \in Sessions, NEW pc \in {"none", "baselines"}, NEW q \in Tests,
         compiler' = [compiler EXCEPT ![s] = AtRest(pc)], tested' = [tested EXCEPT ![s] = q],
         pc = "baselines" => q.timings = {}
  PROVE  WorstInv'
<1> DEFINE p == AtRest(pc)
<1>1. /\ p.pc = pc /\ p.verdict = NoVerdict /\ p.worst = Unmeasured /\ p.slowest = Unmeasured
  BY DEF AtRest
<1> HIDE DEF p
<1>2. Measured(p.verdict, q)
  BY <1>1 DEF Measured, NoVerdict
<1>3. p.pc \in Gates => Kept(p, q)
  BY <1>1 DEF Kept, Gates
<1>4. Reported(p, q)
  BY <1>1, <1>2, <1>3 DEF Reported
<1> QED BY <1>4, ReportedStep DEF p

LEMMA GenerateReports ==
  ASSUME Processes, WorstInv, NEW s \in Sessions, Generate(s) \/ Interrupt(s)
  PROVE  WorstInv'
<1>1. CASE UNCHANGED <<compiler, tested>>
  BY <1>1 DEF WorstInv
<1>2. CASE compiler' = [compiler EXCEPT ![s] = AtRest("none")] /\ UNCHANGED tested
  <2>1. tested[s] \in Tests /\ tested' = [tested EXCEPT ![s] = tested[s]]
    BY <1>2, Parts DEF Processes
  <2> QED BY <1>2, <2>1, AtRestReports
<1>3. CASE RunCompiler(s)
  <2> DEFINE q == [Untested EXCEPT !.contract = target]
  <2>1. q \in Tests /\ q.timings = {}
    BY DEF Untested, Tests, Processes
  <2>2. /\ compiler' = [compiler EXCEPT ![s] = AtRest("baselines")]
        /\ tested' = [tested EXCEPT ![s] = q]
    BY <1>3 DEF RunCompiler
  <2> HIDE DEF q
  <2> QED BY <2>1, <2>2, AtRestReports
<1> QED BY <1>1, <1>2, <1>3 DEF Generate, Interrupt, Start, Answer, AnswerFails,
           RunCompilerFails, Collect

LEMMA WorstNext ==
  ASSUME IInv, WorstInv, [Next]_vars
  PROVE  WorstInv'
<1>1. Processes
  BY DEF IInv
<1>2. CASE UNCHANGED <<compiler, tested>>
  BY <1>2 DEF WorstInv
<1>3. ASSUME NEW s \in Sessions, Generate(s) \/ Admit(s) \/ Interrupt(s) PROVE WorstInv'
  BY <1>1, <1>3, AdmitReports, GenerateReports
<1> QED BY <1>2, <1>3 DEF Next, vars, LoadRegistry, Rebuild

LEMMA WorstInvariance == Spec => [](IInv /\ WorstInv)
<1>1. Init => WorstInv
  <2> SUFFICES ASSUME Init, NEW s \in Sessions PROVE Reported(compiler[s], tested[s])
    BY DEF WorstInv
  <2>1. compiler[s] = AtRest("none")
    BY DEF Init
  <2>2. compiler[s].pc = "none" /\ compiler[s].verdict = NoVerdict
    BY <2>1 DEF AtRest
  <2> QED BY <2>2 DEF Reported, Measured, NoVerdict, Gates
<1> QED BY <1>1, InitEstablishes, NextKeeps, WorstNext, PTL DEF Spec

\* A reported speedup is the worst of all rounds of all cases and decides the
\* verdict (GeneratedKernelAdmission.cpp 277-309), for any number of them.
THEOREM Worsts == Spec => []ReportsTheWorst
<1>1. WorstInv => ReportsTheWorst
  BY DEF WorstInv, Reported, Measured, ReportsTheWorst, Verdict
<1> QED BY <1>1, WorstInvariance, PTL

-----------------------------------------------------------------------------
(* A session that runs alone.  It waits on its own candidate; the compiler  *)
(* it started tests that one; the artifact is what the session found until  *)
(* that compiler has admitted a kernel; and what there is to read after an  *)
(* exit with 0 is that compiler's verdict.                                  *)

Earlier(s, previous) ==
  \A i \in DOMAIN previous :
    previous[i].feedback.by = <<s, i>> /\ previous[i].feedback.status = "retry"

Stored(s, g, file) == file # NoFile /\ file.by = <<s, g.attempt>> /\ file.kernel = g.response

\* Of a session under way with its compiler p, what that has tested, and the files.
Working(s, g, p, test, cand, feed, file) ==
  /\ Len(g.previous) = g.attempt - 1
  /\ g.pc = "wait" => cand = g.response
  /\ p.pc \in Gates \ {"baselines", "load"} => test.kernel = g.response
  /\ IF p.verdict.status = "admitted" THEN Stored(s, g, file) ELSE file = g.found
  /\ p.pc = "exited" /\ p.passed /\ feed.is = "feedback" =>
       /\ feed.by = <<s, g.attempt>> /\ feed.status = p.verdict.status
       /\ p.verdict.status # "fatal"

Session(s, g, p, test, cand, feed, file) ==
  /\ g.pc = "idle" => g.previous = <<>>
  /\ Earlier(s, g.previous)
  /\ g.pc \notin Ended => Working(s, g, p, test, cand, feed, file)

AloneInv ==
  /\ \A s, t \in Sessions : Running(s) /\ Running(t) => s = t
  /\ \A s \in Sessions :
       Session(s, generator[s], compiler[s], tested[s], candidate, feedback, artifact)

\* A step of the one session that runs, or of the first one to run.
LEMMA AloneStep ==
  ASSUME Processes, AloneInv, NEW s \in Sessions, NEW g, NEW p, NEW q,
         generator' = [generator EXCEPT ![s] = g], compiler' = [compiler EXCEPT ![s] = p],
         tested' = [tested EXCEPT ![s] = q],
         Running(s) \/ \A t \in Sessions : ~Running(t),
         Session(s, g, p, q, candidate', feedback', artifact')
  PROVE  AloneInv'
<1>1. ASSUME NEW t \in Sessions
      PROVE  /\ generator'[t] = IF t = s THEN g ELSE generator[t]
             /\ compiler'[t] = IF t = s THEN p ELSE compiler[t]
             /\ tested'[t] = IF t = s THEN q ELSE tested[t]
  BY DEF Processes
<1>2. ASSUME NEW t \in Sessions, t # s PROVE ~Running(t) /\ ~Running(t)'
  <2>1. ~Running(t)
    BY <1>2 DEF AloneInv
  <2> QED BY <1>1, <1>2, <2>1 DEF Running
<1>3. ASSUME NEW t \in Sessions
      PROVE  Session(t, generator[t], compiler[t], tested[t], candidate, feedback, artifact)'
  <2>1. CASE t = s
    <3>1. generator'[t] = g /\ compiler'[t] = p /\ tested'[t] = q
      BY <1>1, <2>1
    <3> QED BY <2>1, <3>1
  <2>2. CASE t # s
    <3>1. generator'[t] = generator[t] /\ generator[t].pc \in Ended
      BY <1>1, <1>2, <2>2 DEF Running
    <3>2. /\ generator[t].pc = "idle" => generator[t].previous = <<>>
          /\ Earlier(t, generator[t].previous)
      BY DEF AloneInv, Session
    <3> QED BY <3>1, <3>2 DEF Session, Earlier
  <2> QED BY <2>1, <2>2
<1> QED BY <1>2, <1>3 DEF AloneInv

\* What the invariants say of the session whose compiler is at work.
LEMMA CompilerFacts ==
  ASSUME IInv, WorstInv, AloneInv, NEW s \in Sessions, compiler[s].pc # "none"
  PROVE  /\ generator[s].pc = "wait" /\ generator[s].pc \notin Ended /\ Running(s)
         /\ Earlier(s, generator[s].previous)
         /\ Working(s, generator[s], compiler[s], tested[s], candidate, feedback, artifact)
         /\ compiler[s].pc \in Gates =>
              compiler[s].verdict.status = "none" /\ artifact = generator[s].found
         /\ compiler[s] \in Compilers /\ tested[s] \in Tests /\ generator[s] \in Generators
<1>1. /\ generator[s].pc = "wait" /\ compiler[s] \in Compilers /\ tested[s] \in Tests
      /\ generator[s] \in Generators
  BY DEF IInv, Processes, Bound
<1>2. generator[s].pc \notin Ended /\ Running(s)
  BY <1>1 DEF Running, Ended
<1>3. /\ Earlier(s, generator[s].previous)
      /\ Working(s, generator[s], compiler[s], tested[s], candidate, feedback, artifact)
  BY <1>2 DEF AloneInv, Session
<1>4. compiler[s].pc \in Gates =>
        compiler[s].verdict.status = "none" /\ artifact = generator[s].found
  BY <1>3 DEF WorstInv, Reported, NoVerdict, Working
<1> QED BY <1>1, <1>2, <1>3, <1>4

LEMMA CompilerAlone ==
  ASSUME IInv, WorstInv, AloneInv, NEW s \in Sessions, compiler[s].pc # "none", NEW p, NEW q,
         compiler' = [compiler EXCEPT ![s] = p], tested' = [tested EXCEPT ![s] = q],
         UNCHANGED <<generator, candidate>>,
         p.pc \in Gates \ {"baselines", "load"} => q.kernel = generator[s].response,
         IF p.verdict.status = "admitted" THEN Stored(s, generator[s], artifact')
                                          ELSE artifact' = generator[s].found,
         p.pc = "exited" /\ p.passed /\ feedback'.is = "feedback" =>
           /\ feedback'.by = <<s, generator[s].attempt>> /\ feedback'.status = p.verdict.status
           /\ p.verdict.status # "fatal"
  PROVE  AloneInv'
<1>1. /\ generator[s].pc = "wait" /\ generator[s].pc \notin Ended /\ Running(s)
      /\ Earlier(s, generator[s].previous)
      /\ Working(s, generator[s], compiler[s], tested[s], candidate, feedback, artifact)
  BY CompilerFacts
<1>2. Working(s, generator[s], p, q, candidate', feedback', artifact')
  BY <1>1 DEF Working
<1>3. Session(s, generator[s], p, q, candidate', feedback', artifact')
  BY <1>1, <1>2 DEF Session
<1>4. Processes /\ generator' = [generator EXCEPT ![s] = generator[s]]
  BY DEF IInv, Processes
<1> QED BY <1>1, <1>3, <1>4, AloneStep

\* From gate to gate the kernel under test is the one that was loaded.
LEMMA GateStep ==
  ASSUME Processes, NEW s \in Sessions,
         \/ FindBaselines(s) \/ Load(s) \/ Inspect(s) \/ Check(s) \/ Time(s) \/ Recheck(s)
         \/ FastEnough(s)
  PROVE  \E p, q :
           /\ compiler' = [compiler EXCEPT ![s] = p] /\ tested' = [tested EXCEPT ![s] = q]
           /\ compiler[s].pc \in Gates /\ p.pc \in Gates /\ p.verdict = compiler[s].verdict
           /\ p.pc \notin {"baselines", "load"} =>
                \/ q.kernel = candidate
                \/ compiler[s].pc \notin {"baselines", "load"} /\ q.kernel = tested[s].kernel
           /\ UNCHANGED <<generator, candidate, feedback, artifact>>
<1>1. compiler[s] \in Compilers /\ tested[s] \in Tests /\ tested \in [Sessions -> Tests]
  BY DEF Processes
<1>2. ASSUME NEW pc \in Gates, Advance(s, pc)
      PROVE  \E p \in Compilers : /\ compiler' = [compiler EXCEPT ![s] = p] /\ p.pc = pc
                                  /\ p.verdict = compiler[s].verdict
                                  /\ UNCHANGED <<generator, candidate, feedback, artifact>>
  <2> DEFINE p == [compiler[s] EXCEPT !.pc = pc]
  <2>1. p \in Compilers /\ p.pc = pc /\ p.verdict = compiler[s].verdict
    BY <1>1 DEF Compilers
  <2>2. compiler' = [compiler EXCEPT ![s] = p]
    BY <1>2 DEF Advance
  <2> HIDE DEF p
  <2> QED BY <1>2, <2>1, <2>2 DEF Advance, files
<1>3. CASE FindBaselines(s)
  <2>1. /\ Advance(s, "load") /\ compiler[s].pc = "baselines"
        /\ tested' = [tested EXCEPT ![s] = tested[s]]
    BY <1>1, <1>3 DEF FindBaselines, At
  <2>2. PICK p \in Compilers : /\ compiler' = [compiler EXCEPT ![s] = p] /\ p.pc = "load"
                               /\ p.verdict = compiler[s].verdict
                               /\ UNCHANGED <<generator, candidate, feedback, artifact>>
    BY <1>2, <2>1 DEF Gates
  <2>3. compiler[s].pc \in Gates /\ p.pc \in Gates
    BY <2>1, <2>2 DEF Gates
  <2> QED BY <1>1, <2>1, <2>2, <2>3
<1>4. CASE FastEnough(s)
  <2>1. /\ Advance(s, "save") /\ compiler[s].pc = "decide"
        /\ tested' = [tested EXCEPT ![s] = tested[s]]
    BY <1>1, <1>4 DEF FastEnough, At
  <2>2. PICK p \in Compilers : /\ compiler' = [compiler EXCEPT ![s] = p] /\ p.pc = "save"
                               /\ p.verdict = compiler[s].verdict
                               /\ UNCHANGED <<generator, candidate, feedback, artifact>>
    BY <1>2, <2>1 DEF Gates
  <2>3. compiler[s].pc \in Gates /\ p.pc \in Gates
    BY <2>1, <2>2 DEF Gates
  <2> QED BY <1>1, <2>1, <2>2, <2>3
<1>5. CASE Load(s)
  <2> DEFINE q == [tested[s] EXCEPT !.kernel = candidate]
  <2>1. /\ Advance(s, "inspect") /\ compiler[s].pc = "load" /\ candidate.is = "kernel"
        /\ tested' = [tested EXCEPT ![s] = q] /\ q.kernel = candidate
    BY <1>1, <1>5 DEF Load, At, Tests
  <2> HIDE DEF q
  <2>2. PICK p \in Compilers : /\ compiler' = [compiler EXCEPT ![s] = p] /\ p.pc = "inspect"
                               /\ p.verdict = compiler[s].verdict
                               /\ UNCHANGED <<generator, candidate, feedback, artifact>>
    BY <1>2, <2>1 DEF Gates
  <2>3. compiler[s].pc \in Gates /\ p.pc \in Gates
    BY <2>1, <2>2 DEF Gates
  <2> QED BY <2>1, <2>2, <2>3
<1>6. CASE Inspect(s)
  <2> DEFINE q == [tested[s] EXCEPT !.inspected = TRUE]
  <2>1. /\ Advance(s, "check") /\ compiler[s].pc = "inspect" /\ q \in Tests
        /\ tested' = [tested EXCEPT ![s] = q] /\ q.kernel = tested[s].kernel
    BY <1>1, <1>6 DEF Inspect, At, Tests
  <2> HIDE DEF q
  <2>2. PICK p \in Compilers : /\ compiler' = [compiler EXCEPT ![s] = p] /\ p.pc = "check"
                               /\ p.verdict = compiler[s].verdict
                               /\ UNCHANGED <<generator, candidate, feedback, artifact>>
    BY <1>2, <2>1 DEF Gates
  <2>3. compiler[s].pc \in Gates /\ p.pc \in Gates
    BY <2>1, <2>2 DEF Gates
  <2> QED BY <2>1, <2>2, <2>3
<1>7. CASE Check(s)
  <2> DEFINE q == [tested[s] EXCEPT !.checked = @ \cup {compiler[s].case}]
  <2>1. /\ compiler[s].pc = "check" /\ q \in Tests
        /\ tested' = [tested EXCEPT ![s] = q] /\ q.kernel = tested[s].kernel
        /\ NextCase(s, "check", "time")
        /\ UNCHANGED <<generator, candidate, feedback, artifact>>
    BY <1>1, <1>7, Parts DEF Check, At, Tests, files
  <2> HIDE DEF q
  <2>2. PICK p \in Compilers : /\ compiler' = [compiler EXCEPT ![s] = p]
                               /\ p.pc \in {"check", "time"} /\ p.verdict = compiler[s].verdict
    BY <2>1, NextCaseMoves DEF Gates
  <2>3. compiler[s].pc \in Gates /\ p.pc \in Gates
    BY <2>1, <2>2 DEF Gates
  <2> QED BY <2>1, <2>2, <2>3
<1>8. CASE Recheck(s)
  <2> DEFINE q == [tested[s] EXCEPT !.rechecked = @ \cup {compiler[s].case}]
  <2>1. /\ compiler[s].pc = "recheck" /\ q \in Tests
        /\ tested' = [tested EXCEPT ![s] = q] /\ q.kernel = tested[s].kernel
        /\ NextCase(s, "time", "decide")
        /\ UNCHANGED <<generator, candidate, feedback, artifact>>
    BY <1>1, <1>8, Parts DEF Recheck, At, Tests, files
  <2> HIDE DEF q
  <2>2. PICK p \in Compilers : /\ compiler' = [compiler EXCEPT ![s] = p]
                               /\ p.pc \in {"time", "decide"} /\ p.verdict = compiler[s].verdict
    BY <2>1, NextCaseMoves DEF Gates
  <2>3. compiler[s].pc \in Gates /\ p.pc \in Gates
    BY <2>1, <2>2 DEF Gates
  <2> QED BY <2>1, <2>2, <2>3
<1>9. CASE Time(s)
  <2>1. PICK p \in Compilers, q \in Tests :
          /\ compiler' = [compiler EXCEPT ![s] = p] /\ tested' = [tested EXCEPT ![s] = q]
          /\ q.kernel = tested[s].kernel /\ p.verdict = compiler[s].verdict
          /\ p.pc \in {"time", "recheck"}
    BY <1>9, TimeMoves
  <2>2. /\ compiler[s].pc = "time" /\ UNCHANGED <<generator, candidate, feedback, artifact>>
    BY <1>9 DEF Time, At, files
  <2>3. compiler[s].pc \in Gates /\ p.pc \in Gates
    BY <2>1, <2>2 DEF Gates
  <2> QED BY <2>1, <2>2, <2>3
<1> QED BY <1>3, <1>4, <1>5, <1>6, <1>7, <1>8, <1>9

LEMMA GatesAlone ==
  ASSUME IInv, WorstInv, AloneInv, NEW s \in Sessions,
         \/ FindBaselines(s) \/ Load(s) \/ Inspect(s) \/ Check(s) \/ Time(s) \/ Recheck(s)
         \/ FastEnough(s)
  PROVE  AloneInv'
<1>1. PICK p, q :
        /\ compiler' = [compiler EXCEPT ![s] = p] /\ tested' = [tested EXCEPT ![s] = q]
        /\ compiler[s].pc \in Gates /\ p.pc \in Gates /\ p.verdict = compiler[s].verdict
        /\ p.pc \notin {"baselines", "load"} =>
             \/ q.kernel = candidate
             \/ compiler[s].pc \notin {"baselines", "load"} /\ q.kernel = tested[s].kernel
        /\ UNCHANGED <<generator, candidate, feedback, artifact>>
  BY GateStep DEF IInv
<1>2. compiler[s].pc # "none" /\ p.pc # "exited"
  BY <1>1 DEF Gates
<1>3. /\ generator[s].pc = "wait" /\ artifact = generator[s].found
      /\ compiler[s].verdict.status = "none"
      /\ Working(s, generator[s], compiler[s], tested[s], candidate, feedback, artifact)
  BY <1>1, <1>2, CompilerFacts
<1>4. p.pc \in Gates \ {"baselines", "load"} => q.kernel = generator[s].response
  BY <1>1, <1>3 DEF Working
<1> QED BY <1>1, <1>2, <1>3, <1>4, CompilerAlone

\* A refusal stores nothing.
LEMMA RefusalAlone ==
  ASSUME IInv, WorstInv, AloneInv, NEW s \in Sessions,
         \/ NoBaseline(s) \/ LoadRefuses(s) \/ InspectRefuses(s) \/ CheckRefuses(s)
         \/ TimeFails(s) \/ RecheckRefuses(s) \/ TooSlow(s) \/ SaveFails(s) \/ Throw(s)
  PROVE  AloneInv'
<1>1. compiler[s].pc \in Gates
  BY DEF NoBaseline, LoadRefuses, InspectRefuses, CheckRefuses, TimeFails, RecheckRefuses,
         TooSlow, SaveFails, Throw, At, Gates
<1>2. PICK status \in {"retry", "fatal"}, speedup \in {Unmeasured, compiler[s].slowest} :
        Reject(s, status, speedup)
  BY DEF NoBaseline, LoadRefuses, InspectRefuses, CheckRefuses, TimeFails,
         RecheckRefuses, TooSlow, SaveFails, Throw
<1> DEFINE v == [status |-> status, speedup |-> speedup]
           p == [compiler[s] EXCEPT !.pc = "report", !.verdict = v]
<1>3. /\ compiler' = [compiler EXCEPT ![s] = p] /\ tested' = [tested EXCEPT ![s] = tested[s]]
      /\ UNCHANGED <<generator, candidate, feedback, artifact>>
  BY <1>2 DEF Reject, Decided, files, IInv, Processes
<1>4. compiler[s].pc # "none" /\ compiler[s] \in Compilers /\ artifact = generator[s].found
  BY <1>1, CompilerFacts DEF Gates
<1>5. p.pc = "report" /\ p.verdict = v /\ v.status # "admitted"
  BY <1>4 DEF Compilers
<1> HIDE DEF p, v
<1>6. p.pc \notin Gates
  BY <1>5 DEF Gates
<1> QED BY <1>3, <1>4, <1>5, <1>6, CompilerAlone

\* What is stored is the kernel of this attempt.
LEMMA SaveAlone ==
  ASSUME IInv, WorstInv, AloneInv, NEW s \in Sessions, Save(s)
  PROVE  AloneInv'
<1> DEFINE v == [status |-> "admitted", speedup |-> compiler[s].worst]
           p == [compiler[s] EXCEPT !.pc = "report", !.verdict = v]
<1>1. compiler[s].pc = "save" /\ compiler[s].pc \in Gates \ {"baselines", "load"}
  BY DEF Save, At, Gates
<1>2. /\ compiler' = [compiler EXCEPT ![s] = p] /\ tested' = [tested EXCEPT ![s] = tested[s]]
      /\ UNCHANGED <<generator, candidate, feedback>>
      /\ artifact' = [is |-> "artifact", contract |-> target, kernel |-> tested[s].kernel,
                      by |-> <<s, generator[s].attempt>>, test |-> tested[s]]
  BY DEF Save, Decided, IInv, Processes
<1>3. /\ compiler[s] \in Compilers /\ compiler[s].pc # "none"
      /\ Working(s, generator[s], compiler[s], tested[s], candidate, feedback, artifact)
  BY <1>1, CompilerFacts
<1>4. p.pc = "report" /\ p.verdict = v /\ v.status = "admitted"
  BY <1>3 DEF Compilers
<1>5. /\ artifact'.by = <<s, generator[s].attempt>> /\ artifact'.kernel = generator[s].response
      /\ artifact'.is = "artifact"
  BY <1>1, <1>2, <1>3 DEF Working
<1>6. artifact' # NoFile
  BY <1>5 DEF NoFile
<1> HIDE DEF p, v
<1>7. Stored(s, generator[s], artifact') /\ p.pc \notin Gates
  BY <1>4, <1>5, <1>6 DEF Stored, Gates
<1> QED BY <1>2, <1>3, <1>4, <1>7, CompilerAlone

\* An exit with 0 leaves the report, or a file that cannot be read.
LEMMA EndAlone ==
  ASSUME IInv, WorstInv, AloneInv, NEW s \in Sessions, Report(s) \/ ReportFails(s) \/ Crash(s)
  PROVE  AloneInv'
<1>1. compiler[s].pc # "none"
  BY DEF Report, ReportFails, Crash, At, Gates
<1>2. /\ compiler[s] \in Compilers
      /\ Working(s, generator[s], compiler[s], tested[s], candidate, feedback, artifact)
  BY <1>1, CompilerFacts
<1>3. PICK passed \in BOOLEAN :
        /\ Exit(s, passed)
        /\ passed /\ feedback'.is = "feedback" =>
             feedback' = FeedbackOf(s) /\ Verdict(s).status # "fatal"
  <2>1. CASE Report(s)
    <3>1. /\ feedback' = FeedbackOf(s) /\ Exit(s, Verdict(s).status # "fatal")
          /\ (Verdict(s).status # "fatal") \in BOOLEAN
      BY <2>1 DEF Report
    <3> QED BY <3>1
  <2>2. CASE Exit(s, FALSE)
    BY <2>2
  <2>3. CASE feedback' = Torn /\ \E passed \in BOOLEAN : Exit(s, passed)
    BY <2>3 DEF Torn
  <2>4. ReportFails(s) => Exit(s, FALSE) \/ (feedback' = Torn /\ \E passed \in BOOLEAN : Exit(s, passed))
    BY DEF ReportFails
  <2>5. Crash(s) => Exit(s, FALSE)
    BY DEF Crash
  <2> QED BY <2>1, <2>2, <2>3, <2>4, <2>5
<1> DEFINE p == [compiler[s] EXCEPT !.pc = "exited", !.passed = passed]
<1>4. /\ compiler' = [compiler EXCEPT ![s] = p] /\ tested' = [tested EXCEPT ![s] = tested[s]]
      /\ UNCHANGED <<generator, candidate, artifact>>
  BY <1>3 DEF Exit, IInv, Processes
<1>5. p.pc = "exited" /\ p.passed = passed /\ p.verdict = compiler[s].verdict
  BY <1>2 DEF Compilers
<1> HIDE DEF p
<1>6. p.pc = "exited" /\ p.passed /\ feedback'.is = "feedback" =>
        /\ feedback'.by = <<s, generator[s].attempt>> /\ feedback'.status = p.verdict.status
        /\ p.verdict.status # "fatal"
  BY <1>3, <1>5 DEF FeedbackOf, Verdict
<1>7. IF p.verdict.status = "admitted" THEN Stored(s, generator[s], artifact')
                                       ELSE artifact' = generator[s].found
  BY <1>2, <1>4, <1>5 DEF Working
<1>8. p.pc \notin Gates
  BY <1>5 DEF Gates
<1> QED BY <1>1, <1>4, <1>6, <1>7, <1>8, CompilerAlone

LEMMA AdmitAlone ==
  ASSUME IInv, WorstInv, AloneInv, NEW s \in Sessions, Admit(s)
  PROVE  AloneInv'
BY GatesAlone, RefusalAlone, SaveAlone, EndAlone DEF Admit

\* A session that ends keeps what it sent.
LEMMA GotoAlone ==
  ASSUME IInv, AloneInv, NEW s \in Sessions, NEW pc \in {"admitted", "fallback", "failed"},
         Running(s), Goto(s, pc), UNCHANGED <<files, tested>>,
         UNCHANGED compiler \/ compiler' = [compiler EXCEPT ![s] = AtRest("none")]
  PROVE  AloneInv'
<1> DEFINE g == [generator[s] EXCEPT !.pc = pc]
<1>1. Processes /\ generator[s] \in Generators /\ UNCHANGED <<candidate, feedback, artifact>>
  BY DEF IInv, Processes, files
<1>2. generator' = [generator EXCEPT ![s] = g]
  BY DEF Goto
<1>3. g.pc = pc /\ g.previous = generator[s].previous
  BY <1>1 DEF Generators
<1>4. PICK p : compiler' = [compiler EXCEPT ![s] = p]
  <2>1. UNCHANGED compiler => compiler' = [compiler EXCEPT ![s] = compiler[s]]
    BY <1>1 DEF Processes
  <2> QED BY <2>1
<1>5. tested' = [tested EXCEPT ![s] = tested[s]]
  BY <1>1 DEF Processes
<1>6. Earlier(s, generator[s].previous)
  BY DEF AloneInv, Session
<1> HIDE DEF g
<1>7. Session(s, g, p, tested[s], candidate', feedback', artifact')
  BY <1>3, <1>6 DEF Session, Ended
<1> QED BY <1>1, <1>2, <1>4, <1>5, <1>7, AloneStep

\* A session that has no compiler has no verdict.
LEMMA NoCompiler ==
  ASSUME IInv, WorstInv, NEW s \in Sessions, generator[s].pc # "wait"
  PROVE  compiler[s].pc = "none" /\ compiler[s].verdict.status = "none"
<1>1. compiler[s].pc = "none"
  BY DEF IInv, Processes, Bound
<1> QED BY <1>1 DEF WorstInv, Reported, NoVerdict

LEMMA StartAlone ==
  ASSUME ~Concurrent, IInv, WorstInv, AloneInv, NEW s \in Sessions, Start(s)
  PROVE  AloneInv'
<1>1. PICK pc \in {"failed", "ask"} :
        generator' = [generator EXCEPT ![s].pc = pc, ![s].attempt = 1, ![s].found = artifact]
  BY DEF Start
<1> DEFINE g == [generator[s] EXCEPT !.pc = pc, !.attempt = 1, !.found = artifact]
<1>2. /\ Processes /\ generator[s] \in Generators /\ generator[s].pc = "idle"
      /\ \A t \in Sessions : ~Running(t)
      /\ UNCHANGED <<candidate, feedback, artifact, compiler, tested>>
  BY DEF Start, IInv, Processes
<1>3. generator' = [generator EXCEPT ![s] = g]
  BY <1>1
<1>4. /\ g.pc = pc /\ g.attempt = 1 /\ g.found = artifact /\ g.previous = generator[s].previous
  BY <1>2 DEF Generators
<1>5. generator[s].previous = <<>>
  BY <1>2 DEF AloneInv, Session
<1>6. compiler[s].pc = "none" /\ compiler[s].verdict.status = "none"
  BY <1>2, NoCompiler
<1> HIDE DEF g
<1>7. Working(s, g, compiler[s], tested[s], candidate, feedback, artifact)
  BY <1>4, <1>5, <1>6 DEF Working, Gates
<1>8. Session(s, g, compiler[s], tested[s], candidate', feedback', artifact')
  BY <1>2, <1>4, <1>5, <1>7 DEF Session, Earlier
<1>9. compiler' = [compiler EXCEPT ![s] = compiler[s]] /\ tested' = [tested EXCEPT ![s] = tested[s]]
  BY <1>2 DEF Processes
<1>10. Processes /\ (Running(s) \/ \A t \in Sessions : ~Running(t))
  BY <1>2
<1> QED BY ONLY <1>3, <1>8, <1>9, <1>10, AloneInv, AloneStep

LEMMA AnswerAlone ==
  ASSUME IInv, WorstInv, AloneInv, NEW s \in Sessions, Answer(s)
  PROVE  AloneInv'
<1>1. PICK response :
        generator' = [generator EXCEPT ![s].pc = "write", ![s].response = response]
  BY DEF Answer
<1> DEFINE g == [generator[s] EXCEPT !.pc = "write", !.response = response]
<1>2. /\ Processes /\ generator[s] \in Generators /\ generator[s].pc = "ask" /\ Running(s)
      /\ UNCHANGED <<feedback, artifact, compiler, tested>>
  BY DEF Answer, IInv, Processes, Running, Ended
<1>3. generator' = [generator EXCEPT ![s] = g]
  BY <1>1
<1>4. /\ g.pc = "write" /\ g.attempt = generator[s].attempt /\ g.found = generator[s].found
      /\ g.previous = generator[s].previous
  BY <1>2 DEF Generators
<1>5. compiler[s].pc = "none" /\ compiler[s].verdict.status = "none"
  BY <1>2, NoCompiler
<1>6. /\ Earlier(s, generator[s].previous)
      /\ Working(s, generator[s], compiler[s], tested[s], candidate, feedback, artifact)
  BY <1>2 DEF AloneInv, Session, Running
<1> HIDE DEF g
<1>7. Session(s, g, compiler[s], tested[s], candidate', feedback', artifact')
  BY <1>2, <1>4, <1>5, <1>6 DEF Session, Working, Gates
<1>8. compiler' = [compiler EXCEPT ![s] = compiler[s]] /\ tested' = [tested EXCEPT ![s] = tested[s]]
  BY <1>2 DEF Processes
<1> QED BY <1>2, <1>3, <1>7, <1>8, AloneStep

\* The compiler is started on the response.
LEMMA RunCompilerAlone ==
  ASSUME IInv, WorstInv, AloneInv, NEW s \in Sessions, RunCompiler(s)
  PROVE  AloneInv'
<1> DEFINE g == [generator[s] EXCEPT !.pc = "wait"]
           p == AtRest("baselines")
           q == [Untested EXCEPT !.contract = target]
<1>1. /\ Processes /\ generator[s] \in Generators /\ generator[s].pc = "write" /\ Running(s)
      /\ UNCHANGED <<feedback, artifact>> /\ candidate' = generator[s].response
      /\ generator' = [generator EXCEPT ![s] = g] /\ compiler' = [compiler EXCEPT ![s] = p]
      /\ tested' = [tested EXCEPT ![s] = q]
  BY DEF RunCompiler, Goto, IInv, Processes, Running, Ended
<1>2. /\ g.pc = "wait" /\ g.attempt = generator[s].attempt /\ g.found = generator[s].found
      /\ g.previous = generator[s].previous /\ g.response = generator[s].response
  BY <1>1 DEF Generators
<1>3. p.pc = "baselines" /\ p.verdict.status = "none"
  BY DEF AtRest, NoVerdict
<1>4. compiler[s].verdict.status = "none"
  BY <1>1, NoCompiler
<1>5. /\ Earlier(s, generator[s].previous)
      /\ Working(s, generator[s], compiler[s], tested[s], candidate, feedback, artifact)
  BY <1>1 DEF AloneInv, Session, Running
<1> HIDE DEF g, p, q
<1>6. Session(s, g, p, q, candidate', feedback', artifact')
  BY <1>1, <1>2, <1>3, <1>4, <1>5 DEF Session, Working
<1> QED BY <1>1, <1>6, AloneStep

\* What the compiler that has exited leaves to a session that runs alone.
LEMMA Collected ==
  ASSUME IInv, WorstInv, AloneInv, NEW s \in Sessions,
         generator[s].pc = "wait", At(s, "exited"), compiler[s].passed, Readable
  PROVE  /\ feedback.by = <<s, generator[s].attempt>> /\ feedback.status # "fatal"
         /\ feedback.status = "admitted" => Stored(s, generator[s], artifact)
         /\ feedback.status # "admitted" => artifact = generator[s].found
         /\ Len(generator[s].previous) = generator[s].attempt - 1
         /\ Earlier(s, generator[s].previous)
<1>1. compiler[s].pc = "exited" /\ compiler[s].pc # "none" /\ feedback.is = "feedback"
  BY DEF At, Readable
<1>2. /\ Earlier(s, generator[s].previous)
      /\ Working(s, generator[s], compiler[s], tested[s], candidate, feedback, artifact)
  BY <1>1, CompilerFacts
<1> QED BY <1>1, <1>2 DEF Working

\* A rejection is added to those that the next request carries.
LEMMA RetryAlone ==
  ASSUME IInv, WorstInv, AloneInv, NEW s \in Sessions,
         generator[s].pc = "wait", At(s, "exited"), compiler[s].passed, Readable,
         feedback.status = "retry", RetryLater(s),
         compiler' = [compiler EXCEPT ![s] = AtRest("none")], UNCHANGED <<files, tested>>
  PROVE  AloneInv'
<1> DEFINE n == generator[s].attempt
           more == n < MaxAttempts
           entry == [response |-> generator[s].response, feedback |-> feedback]
           old == generator[s].previous
           new == Append(old, entry)
           g == [generator[s] EXCEPT !.pc = IF more THEN "ask" ELSE "fallback",
                                     !.attempt = IF more THEN n + 1 ELSE n,
                                     !.previous = new]
<1>1. /\ Processes /\ generator[s] \in Generators /\ Running(s) /\ n \in Nat
      /\ UNCHANGED <<candidate, feedback, artifact>>
  <2>1. generator[s] \in Generators
    BY DEF IInv, Processes
  <2>2. n \in 0 .. MaxAttempts
    BY <2>1 DEF Generators
  <2>3. n \in Nat
    BY <2>2, GenerationAssumption
  <2> QED BY <2>1, <2>3 DEF IInv, Running, Ended, files
<1>2. /\ feedback.by = <<s, n>> /\ artifact = generator[s].found
      /\ Len(old) = n - 1 /\ Earlier(s, old)
  BY Collected
<1>3. generator' = [generator EXCEPT ![s] = g]
  BY DEF RetryLater
<1>4. entry.feedback = feedback /\ old \in Seq([response : Responses, feedback : Feedbacks])
  BY <1>1 DEF Generators
<1>5. /\ g.pc = (IF more THEN "ask" ELSE "fallback") /\ g.attempt = (IF more THEN n + 1 ELSE n)
      /\ g.previous = new /\ g.found = generator[s].found
  <2> HIDE DEF new, n, more
  <2> QED BY <1>1 DEF Generators
<1>6. /\ Len(new) = n /\ DOMAIN new = 1 .. n
      /\ \A i \in 1 .. n - 1 : new[i] = old[i] /\ i \in DOMAIN old
      /\ new[n] = entry
  <2> DEFINE E == [response : Responses, feedback : Feedbacks]
  <2>1. entry \in E
    <3>1. feedback \in Feedbacks
      BY DEF IInv, FilesTyped, Readable, Files, NoFile, Torn
    <3> QED BY <1>1, <3>1 DEF Generators
  <2>2. old \in Seq(E)
    BY <1>4
  <2> HIDE DEF E, entry, old
  <2>3. /\ new \in Seq(E) /\ Len(new) = Len(old) + 1 /\ new[Len(old) + 1] = entry
        /\ \A i \in 1 .. Len(old) : new[i] = old[i]
    BY <2>1, <2>2, AppendProperties
  <2>4. DOMAIN old = 1 .. Len(old) /\ Len(old) + 1 = n /\ Len(old) = n - 1
    BY <1>1, <1>2, <2>2, LenProperties
  <2>5. DOMAIN new = 1 .. Len(new)
    BY <2>3, LenProperties
  <2> HIDE DEF new
  <2> QED BY <2>3, <2>4, <2>5
<1>7. Earlier(s, new)
  <2> SUFFICES ASSUME NEW i \in DOMAIN new
               PROVE  new[i].feedback.by = <<s, i>> /\ new[i].feedback.status = "retry"
    BY DEF Earlier
  <2>1. CASE i = n
    <3> HIDE DEF entry, new, n
    <3> QED BY <1>2, <1>4, <1>6, <2>1
  <2>2. CASE i # n
    <3>1. i \in 1 .. n - 1
      <4> HIDE DEF new, n
      <4> QED BY <1>1, <1>6, <2>2
    <3>2. new[i] = old[i] /\ i \in DOMAIN old
      <4> HIDE DEF new, n, old
      <4> QED BY <1>6, <3>1
    <3> HIDE DEF new
    <3> QED BY <1>2, <3>2 DEF Earlier
  <2> QED BY <2>1, <2>2
<1>8. AtRest("none").pc = "none" /\ AtRest("none").verdict.status = "none"
  BY DEF AtRest, NoVerdict
<1> DEFINE p == AtRest("none")
<1>9. p.pc = "none" /\ p.verdict.status = "none" /\ compiler' = [compiler EXCEPT ![s] = p]
  BY <1>8
<1> HIDE DEF g, n, old, new, entry, p
<1>10. g.attempt - 1 = n \/ ~more
  BY <1>1, <1>5
<1>11. Session(s, g, p, tested[s], candidate', feedback', artifact')
  BY <1>1, <1>2, <1>5, <1>6, <1>7, <1>9, <1>10 DEF Session, Working, Ended, Gates
<1>12. tested' = [tested EXCEPT ![s] = tested[s]]
  BY <1>1 DEF Processes
<1> QED BY <1>1, <1>3, <1>9, <1>11, <1>12, AloneStep

LEMMA GenerateAlone ==
  ASSUME ~Concurrent, IInv, WorstInv, AloneInv, NEW s \in Sessions, Generate(s) \/ Interrupt(s)
  PROVE  AloneInv'
<1>1. CASE AnswerFails(s) \/ RunCompilerFails(s) \/ Interrupt(s)
  <2>1. PICK pc \in {"fallback", "failed"} : Goto(s, pc)
    BY <1>1 DEF AnswerFails, RunCompilerFails, Interrupt
  <2>2. /\ Running(s) /\ UNCHANGED <<files, tested>>
        /\ (UNCHANGED compiler) \/ compiler' = [compiler EXCEPT ![s] = AtRest("none")]
    BY <1>1 DEF AnswerFails, RunCompilerFails, Interrupt, Running, Ended
  <2> QED BY <2>1, <2>2, GotoAlone
<1>2. CASE Collect(s)
  <2>1. /\ generator[s].pc = "wait" /\ At(s, "exited") /\ Running(s) /\ UNCHANGED <<files, tested>>
        /\ compiler' = [compiler EXCEPT ![s] = AtRest("none")]
    BY <1>2 DEF Collect, Running, Ended
  <2>2. \/ \E pc \in {"admitted", "failed"} : Goto(s, pc)
        \/ compiler[s].passed /\ Readable /\ feedback.status = "retry" /\ RetryLater(s)
    BY <1>2 DEF Collect
  <2> QED BY <2>1, <2>2, GotoAlone, RetryAlone
<1> QED BY <1>1, <1>2, StartAlone, AnswerAlone, RunCompilerAlone DEF Generate

LEMMA AloneFrame ==
  ASSUME AloneInv, UNCHANGED <<candidate, feedback, artifact, generator, compiler, tested>>
  PROVE  AloneInv'
<1>1. \A s \in Sessions : Running(s)' <=> Running(s)
  BY DEF Running
<1>2. \A s \in Sessions :
        Session(s, generator'[s], compiler'[s], tested'[s], candidate', feedback', artifact')
  BY DEF AloneInv
<1> QED BY <1>1, <1>2 DEF AloneInv

LEMMA AloneNext ==
  ASSUME ~Concurrent, IInv, WorstInv, AloneInv, [Next]_vars
  PROVE  AloneInv'
<1>1. CASE UNCHANGED <<candidate, feedback, artifact, generator, compiler, tested>>
  BY <1>1, AloneFrame
<1>2. ASSUME NEW s \in Sessions, Generate(s) \/ Admit(s) \/ Interrupt(s) PROVE AloneInv'
  BY <1>2, AdmitAlone, GenerateAlone
<1> QED BY <1>1, <1>2 DEF Next, vars, LoadRegistry, Rebuild, files

LEMMA AloneInit == Init => AloneInv
<1> SUFFICES ASSUME Init PROVE AloneInv
  OBVIOUS
<1>1. \A s \in Sessions : generator[s].pc = "idle" /\ generator[s].previous = <<>>
  BY DEF Init
<1> QED BY <1>1 DEF AloneInv, Running, Ended, Session, Earlier

LEMMA AloneInvariance == Spec => [](IInv /\ WorstInv /\ (~Concurrent => AloneInv))
<1>1. IInv /\ WorstInv /\ (~Concurrent => AloneInv) /\ [Next]_vars => (~Concurrent => AloneInv)'
  BY AloneNext
<1>2. Init => (~Concurrent => AloneInv)
  BY AloneInit
<1> QED BY <1>1, <1>2, WorstInvariance, PTL DEF Spec

\* The feedback that a session on its own acts on is its own compiler's on this
\* attempt, and the next request carries one rejection for each earlier one
\* (llm_kernel_generator.py 226-256), for any number of attempts.
THEOREM FeedbackIsCurrent == Spec => []FeedbackIsOfThisAttempt
<1>1. ASSUME IInv, WorstInv, ~Concurrent => AloneInv PROVE FeedbackIsOfThisAttempt
  <2> SUFFICES ASSUME ~Concurrent, AloneInv, NEW s \in Sessions
               PROVE  /\ generator[s].pc = "wait" /\ At(s, "exited") /\ compiler[s].passed /\ Readable =>
                           feedback.by = <<s, generator[s].attempt>> /\ feedback.status # "fatal"
                      /\ Running(s) => Len(generator[s].previous) = generator[s].attempt - 1
                      /\ Earlier(s, generator[s].previous)
    BY <1>1 DEF FeedbackIsOfThisAttempt, Earlier
  <2>1. Earlier(s, generator[s].previous)
    BY DEF AloneInv, Session
  <2>2. Running(s) => Len(generator[s].previous) = generator[s].attempt - 1
    BY DEF AloneInv, Session, Working, Running
  <2> QED BY <1>1, <2>1, <2>2, Collected
<1>2. IInv /\ WorstInv /\ (~Concurrent => AloneInv) => FeedbackIsOfThisAttempt
  BY <1>1
<1> QED BY <1>2, AloneInvariance, PTL

\* A step that ends a session with ADMITTED or FALLBACK is one of its own, and
\* not Start or Interrupt.
LEMMA OwnStep ==
  ASSUME Processes, [Next]_vars, NEW s \in Sessions, NEW pc \in {"admitted", "fallback"}, Ends(s, pc)
  PROVE  AnswerFails(s) \/ Collect(s)
<1>1. generator[s].pc # pc /\ generator'[s].pc = pc /\ generator \in [Sessions -> Generators]
  BY DEF Ends, Processes
<1>2. ~UNCHANGED generator
  BY SMTT(40), <1>1
<1>3. PICK t \in Sessions : Generate(t) \/ Interrupt(t)
  BY ZenonT(60), <1>2 DEF Next, vars, LoadRegistry, Rebuild, Admit, FindBaselines, NoBaseline, Load, LoadRefuses,
              Inspect, InspectRefuses, Check, CheckRefuses, Time, TimeFails, Recheck, RecheckRefuses,
              TooSlow, FastEnough, Save, SaveFails, Throw, Report, ReportFails, Crash, Advance,
              Reject, Exit
<1>4. \A u \in Sessions : \A h : generator' = [generator EXCEPT ![t] = h] /\ u # t =>
                                   generator'[u] = generator[u]
  BY <1>1
<1>5. s = t
  <2>1. generator[t] \in Generators
    BY <1>1
  <2>2. \E h : generator' = [generator EXCEPT ![t] = h]
    BY <1>3 DEF Generate, Interrupt, Start, Answer, AnswerFails, RunCompiler, RunCompilerFails,
                Collect, Goto, RetryLater
  <2> QED BY <1>1, <1>4, <2>2
<1>6. ASSUME NEW place \in {"ask", "write", "wait", "failed"},
             Goto(s, place)
      PROVE  FALSE
  BY <1>1, <1>6 DEF Goto, Generators
<1>7. ~Start(s)
  BY ZenonT(60), <1>1 DEF Start, Generators
<1>8. ~Answer(s)
  BY <1>1 DEF Answer, Generators
<1>9. ~RunCompiler(s) /\ ~RunCompilerFails(s) /\ ~Interrupt(s)
  BY <1>6 DEF RunCompiler, RunCompilerFails, Interrupt
<1> QED BY <1>3, <1>5, <1>7, <1>8, <1>9 DEF Generate

\* A session on its own that ends with ADMITTED leaves its last response in
\* admitted.json, and one that ends with FALLBACK the file that it found
\* (llm_kernel_generator.py 219-223, 241-246, 258-263).
THEOREM OutcomesAreTrue == Spec => OutcomeIsTrue
<1> DEFINE Outcome ==
      ~Concurrent => \A s \in Sessions :
        /\ Ends(s, "admitted") =>
             /\ artifact.by = <<s, generator[s].attempt>>
             /\ artifact.kernel = generator[s].response
        /\ Ends(s, "fallback") => artifact = generator[s].found
<1>1. ASSUME IInv, WorstInv, ~Concurrent => AloneInv, [Next]_vars PROVE Outcome
  <2> SUFFICES ASSUME ~Concurrent, AloneInv, NEW s \in Sessions
               PROVE  /\ Ends(s, "admitted") => Stored(s, generator[s], artifact)
                      /\ Ends(s, "fallback") => artifact = generator[s].found
    BY <1>1 DEF Stored
  <2>1. ASSUME NEW pc \in {"admitted", "fallback"}, Ends(s, pc)
        PROVE  AnswerFails(s) \/ Collect(s)
    BY <1>1, <2>1, OwnStep DEF IInv
  <2>2. generator \in [Sessions -> Generators] /\ generator[s] \in Generators
    BY <1>1 DEF IInv, Processes
  <2>3. ASSUME AnswerFails(s)
        PROVE  artifact = generator[s].found /\ ~Ends(s, "admitted")
    <3>1. generator[s].pc = "ask"
      BY <2>3 DEF AnswerFails
    <3>2. compiler[s].verdict.status = "none"
      BY <1>1, <3>1, NoCompiler
    <3>3. artifact = generator[s].found
      BY <3>1, <3>2 DEF AloneInv, Session, Working, Ended
    <3>4. ~Ends(s, "admitted")
      BY <2>2, <2>3 DEF AnswerFails, Goto, Ends, Generators
    <3> QED BY <3>3, <3>4
  <2>4. ASSUME Collect(s)
        PROVE  /\ Ends(s, "admitted") => Stored(s, generator[s], artifact)
               /\ Ends(s, "fallback") => artifact = generator[s].found
    <3>1. \A pc, place : Goto(s, place) /\ Ends(s, pc) => pc = place
      BY <2>2 DEF Goto, Ends, Generators
    <3>2. RetryLater(s) => ~Ends(s, "admitted")
      BY <2>2 DEF RetryLater, Ends, Generators
    <3>3. CASE ~(compiler[s].passed /\ Readable)
      BY <2>4, <3>1, <3>3 DEF Collect
    <3>4. CASE compiler[s].passed /\ Readable
      <4>1. /\ feedback.status = "admitted" => Stored(s, generator[s], artifact)
            /\ feedback.status # "admitted" => artifact = generator[s].found
        BY <1>1, <2>4, <3>4, Collected DEF Collect
      <4>2. \/ feedback.status = "admitted" /\ \E pc \in {"failed", "admitted"} : Goto(s, pc)
            \/ Goto(s, "failed")
            \/ feedback.status = "retry" /\ RetryLater(s)
        BY <2>4, <3>4 DEF Collect
      <4>3. Ends(s, "admitted") => feedback.status = "admitted"
        BY <3>1, <3>2, <4>2
      <4>4. Ends(s, "fallback") => feedback.status = "retry"
        BY <3>1, <4>2
      <4> QED BY <4>1, <4>3, <4>4
    <3> QED BY <3>3, <3>4
  <2> QED BY <2>1, <2>3, <2>4
<1>2. IInv /\ WorstInv /\ (~Concurrent => AloneInv) /\ [Next]_vars => [Outcome]_vars
  BY <1>1
<1> HIDE DEF Outcome
<1>3. Spec => [][Outcome]_vars
  BY <1>2, AloneInvariance, PTL DEF Spec
<1> QED BY <1>3 DEF OutcomeIsTrue, Outcome
=============================================================================
