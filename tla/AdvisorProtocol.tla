---------------------------- MODULE AdvisorProtocol ----------------------------
(***************************************************************************)
(* Advice on which kernels to try first: src/tools/llm_advisor.py asks a   *)
(* model to rank the candidates of a compiler request and writes its       *)
(* answer to a file; a later compilation reads the file                    *)
(* (src/src/llm/AdvisorProtocol.cpp) and takes from it what it finds to    *)
(* fit the program it compiles now.  Nothing ties the file to a request:   *)
(* it may be cut short, written by hand, or an answer about another        *)
(* program.                                                                *)
(***************************************************************************)
EXTENDS Integers, Sequences, FiniteSets
LOCAL Seqs == INSTANCE SequencesExt

CONSTANTS
  Programs,     \* sequences of regions; a region has its fusion pattern and a number of RMSNorms
  Devices,      \* limits: threads of a threadgroup, floats of its memory
  Answers,      \* what the JSON of an advisor file may say: sequences of [region, ids]
  CandidateBudget

Fusions == {"None", "AddRMSNorm", "AddLayerNorm", "Elementwise"}
Regions == [fusion : Fusions, norms : Nat]
Kinds == {"rmsnorm", "fusion"}
ThreadCandidates == <<64, 128, 256>>
Ids == [region : Nat, kind : Kinds, threads : Nat]     \* "r<region>_<kind>_t<threads>"
Advice == [region : Nat, ids : Seq(Ids)]

ASSUME AdvisorAssumption ==
  /\ Programs \subseteq Seq(Regions)
  /\ Devices \subseteq [threads : Nat, floats : Nat]
  /\ Answers \subseteq Seq(Advice)
  /\ CandidateBudget \in Nat \ {0}

VARIABLES
  device,
  program,   \* the regions of the graph that is compiled next
  file,      \* the advisor file
  phase,
  hints,     \* recommendations the compilation has not looked at yet
  seen,      \* seenCandidates
  ranked     \* AdvisorGuidance::rankedThreads; an absent key is an empty list

adviceVars == <<device, program, file, phase, hints, seen, ranked>>

NoFile == [is |-> "absent"]
Torn == [is |-> "torn"]
Whole(answer) == [is |-> "whole", answer |-> answer]
Files == {NoFile, Torn} \cup {Whole(a) : a \in Answers}

RegionIds == DOMAIN program
NoRanking(p) == [r \in DOMAIN p |-> [kind \in Kinds |-> <<>>]]

Threads == {ThreadCandidates[i] : i \in DOMAIN ThreadCandidates}
HasKind(region, kind) ==
  IF kind = "rmsnorm" THEN region.norms > 0 ELSE region.fusion # "None"

ScratchArrays(region, kind) ==
  CASE kind = "fusion" /\ region.fusion = "AddLayerNorm" -> 2
    [] kind = "rmsnorm" \/ region.fusion = "AddRMSNorm" -> 1
    [] OTHER -> 0

hardwareAllows(region, kind, threads) ==
  /\ threads <= device.threads
  /\ threads * ScratchArrays(region, kind) <= device.floats

Candidates ==
  {c \in [region : RegionIds, kind : Kinds, threads : Threads] :
     /\ HasKind(program[c.region], c.kind)
     /\ hardwareAllows(program[c.region], c.kind, c.threads)}

HasRepeatedRegion(answer) ==
  \E i, j \in DOMAIN answer : i # j /\ answer[i].region = answer[j].region

\* Every recommendation with the region it was made under.
Recommendations(answer) ==
  Seqs!FlattenSeq([i \in DOMAIN answer |->
    [k \in DOMAIN answer[i].ids |-> [region |-> answer[i].region, id |-> answer[i].ids[k]]]])

Init ==
  /\ device \in Devices
  /\ program \in Programs
  /\ file \in Files
  /\ phase = "idle"
  /\ hints = <<>> /\ seen = {} /\ ranked = NoRanking(program)

\* Another model is exported.
Export(p) ==
  /\ phase = "idle"
  /\ program' = p /\ ranked' = NoRanking(p)
  /\ UNCHANGED <<device, file, phase, hints, seen>>

\* The tool writes an answer it has validated.  A failure before that leaves the
\* file alone; one while it writes leaves it cut short.
Advise(answer) ==
  /\ phase = "idle"
  /\ ~HasRepeatedRegion(answer)
  /\ file' \in {Whole(answer), Torn}
  /\ UNCHANGED <<device, program, phase, hints, seen, ranked>>

\* A compilation starts; a file it cannot read or decode counts as no advice.
Decodes == file.is = "whole" /\ ~HasRepeatedRegion(file.answer)
LoadAdvice ==
  /\ phase = "idle"
  /\ phase' = "guiding"
  /\ hints' = IF Decodes THEN Recommendations(file.answer) ELSE <<>>
  /\ UNCHANGED <<device, program, file, seen, ranked>>

FitsAgain(hint) ==
  hint.region \in RegionIds /\ hint.id \in Candidates /\ hint.id.region = hint.region

Fits(hint) ==
  /\ hint.region \in RegionIds
  /\ hint.id \in Candidates
  /\ hint.id.region = hint.region
  /\ hint.id \notin seen

Take(hint) ==
  LET id == hint.id IN
  /\ seen' = seen \cup {id}
  /\ ranked' = [ranked EXCEPT ![id.region][id.kind] =
                  IF Len(@) >= CandidateBudget THEN @ ELSE Append(@, id.threads)]

ConsiderHint ==
  /\ phase = "guiding" /\ hints # <<>>
  /\ IF Fits(Head(hints)) THEN Take(Head(hints)) ELSE UNCHANGED <<seen, ranked>>
  /\ hints' = Tail(hints)
  /\ UNCHANGED <<device, program, file, phase>>

Guided ==
  /\ phase = "guiding" /\ hints = <<>>
  /\ phase' = "tuning"
  /\ UNCHANGED <<device, program, file, hints, seen, ranked>>

\* The compilation returns, whatever came of it.
Return ==
  /\ phase \in {"compiled", "failed"}
  /\ phase' = "idle" /\ seen' = {} /\ ranked' = NoRanking(program)
  /\ UNCHANGED <<device, program, file, hints>>

threadsFor(region, kind, deterministic) ==
  IF ranked[region][kind] = <<>> THEN deterministic ELSE ranked[region][kind]
================================================================================
