-------------------------- MODULE GuidedTuningProofs --------------------------
(***************************************************************************)
(* Advice only narrows a search, for every program, device, budget and     *)
(* content of the advisor file.  The loop over the recommendations keeps   *)
(* that every ranked candidate is one the compiler offers and has been     *)
(* marked as seen; from the first comes that the tuners do not refuse it,  *)
(* from the second that no list holds a candidate twice.                   *)
(*                                                                         *)
(* Tuning, for every program, set of times, list of GEMV candidates and    *)
(* minimum: the winner a tuner keeps is the fastest of those it admitted,  *)
(* and max_element finds one as fast; every RMSNorm of the program has a   *)
(* task, and is right once the task is done; all of these tasks come       *)
(* before those of the fusions, so that the kernels a fused one was        *)
(* measured against are not replaced any more.                             *)
(***************************************************************************)
EXTENDS GuidedTuning, TLAPS, SequenceTheorems, WellFoundedInduction

RankedId(r, kind, threads) == [region |-> r, kind |-> kind, threads |-> threads]

Marked ==
  \A r \in RegionIds : \A kind \in Kinds : \A i \in DOMAIN ranked[r][kind] :
    /\ RankedId(r, kind, ranked[r][kind][i]) \in Candidates
    /\ RankedId(r, kind, ranked[r][kind][i]) \in seen

Distinct ==
  \A r \in RegionIds : \A kind \in Kinds :
    /\ Len(ranked[r][kind]) <= CandidateBudget
    /\ \A i, j \in DOMAIN ranked[r][kind] : ranked[r][kind][i] = ranked[r][kind][j] => i = j

AdviceInv ==
  /\ device \in [threads : Nat, floats : Nat]
  /\ program \in Seq(Regions)
  /\ ranked \in [RegionIds -> [Kinds -> Seq(Threads)]]
  /\ Marked
  /\ Distinct

\* The limits the request is made with are those of the tuner that gets the
\* candidate: hardwareAllows and the two tuners' hardware filters agree.
LEMMA FiltersAgree ==
  ASSUME device \in [threads : Nat, floats : Nat],
         NEW region \in Regions, NEW kind \in Kinds, NEW threads \in Threads,
         HasKind(region, kind), hardwareAllows(region, kind, threads)
  PROVE  FilterOf(region, kind, threads)
<1>1. threads \in {64, 128, 256}
  BY DEF Threads, ThreadCandidates
<1>2. device.threads \in Nat /\ device.floats \in Nat /\ threads \in Nat
  BY <1>1
<1>3. CASE kind = "rmsnorm"
  BY <1>1, <1>2, <1>3 DEF FilterOf, RMSNormFilter, hardwareAllows, ScratchArrays
<1>4. CASE kind = "fusion"
  <2>1. region.fusion \in Fusions
    BY DEF Regions
  <2>2. ScratchArrays(region, kind) = FusionScratch(region)
    BY <1>4, <2>1 DEF ScratchArrays, FusionScratch, Fusions
  <2>. QED
    BY <1>4, <2>2 DEF FilterOf, FusionFilter, hardwareAllows
<1>. QED
  BY <1>3, <1>4 DEF Kinds

\* A ranking that is empty everywhere is one the invariant allows.
LEMMA NoRankingIsNarrow ==
  ASSUME NEW p \in Seq(Regions)
  PROVE  /\ NoRanking(p) \in [DOMAIN p -> [Kinds -> Seq(Threads)]]
         /\ \A r \in DOMAIN p : \A kind \in Kinds :
              /\ DOMAIN NoRanking(p)[r][kind] = {}
              /\ Len(NoRanking(p)[r][kind]) = 0
  BY DEF NoRanking

LEMMA AdviceInvInit == Init => AdviceInv
<1> SUFFICES ASSUME Init PROVE AdviceInv
  OBVIOUS
<1>1. device \in [threads : Nat, floats : Nat] /\ program \in Seq(Regions)
  BY AdvisorAssumption DEF Init
<1>2. ranked = NoRanking(program)
  BY DEF Init
<1>3. CandidateBudget \in Nat \ {0}
  BY AdvisorAssumption
<1>. QED
  BY <1>1, <1>2, <1>3, NoRankingIsNarrow DEF AdviceInv, Marked, Distinct, RegionIds

\* Steps that leave the program and the ranking alone.
LEMMA AdviceInvFrame ==
  ASSUME AdviceInv, UNCHANGED <<device, program, seen, ranked>>
  PROVE  AdviceInv'
  BY DEF AdviceInv, Marked, Distinct, Candidates, hardwareAllows, RegionIds

\* Steps that drop the ranking, for the same program or another.
LEMMA AdviceInvReset ==
  ASSUME AdviceInv, program' \in Seq(Regions), UNCHANGED device, ranked' = NoRanking(program')
  PROVE  AdviceInv'
<1>1. CandidateBudget \in Nat \ {0}
  BY AdvisorAssumption
<1>2. ranked' \in [DOMAIN program' -> [Kinds -> Seq(Threads)]]
  BY NoRankingIsNarrow
<1>3. \A r \in DOMAIN program' : \A kind \in Kinds :
        DOMAIN ranked'[r][kind] = {} /\ Len(ranked'[r][kind]) = 0
  BY NoRankingIsNarrow
<1>. QED
  BY <1>1, <1>2, <1>3 DEF AdviceInv, Marked, Distinct, RegionIds

\* Taking a recommendation that fits: it is marked as seen, and put last on the
\* list of its region and kind unless the budget is used up.
LEMMA AdviceInvTake ==
  ASSUME AdviceInv, NEW hint, Fits(hint), Take(hint), UNCHANGED <<device, program>>
  PROVE  AdviceInv'
<1> DEFINE id == hint.id
<1>1. id \in Candidates /\ id \notin seen
  BY DEF Fits
<1>2. /\ id.region \in RegionIds /\ id.kind \in Kinds /\ id.threads \in Threads
      /\ id = RankedId(id.region, id.kind, id.threads)
  BY <1>1 DEF Candidates, RankedId
<1>3. Candidates' = Candidates /\ RegionIds' = RegionIds
  BY DEF Candidates, RegionIds, hardwareAllows
<1>4. seen' = seen \cup {id}
  BY DEF Take
<1>5. CandidateBudget \in Nat
  BY AdvisorAssumption
<1>6. ranked \in [RegionIds -> [Kinds -> Seq(Threads)]]
  BY DEF AdviceInv
<1> DEFINE old == ranked[id.region][id.kind]
           new == IF Len(old) >= CandidateBudget THEN old ELSE Append(old, id.threads)
<1>7. old \in Seq(Threads) /\ new \in Seq(Threads) /\ Len(old) \in Nat
  BY <1>2, <1>6
<1>8. ranked' = [ranked EXCEPT ![id.region][id.kind] = new]
  BY DEF Take
<1>9. /\ ranked' \in [RegionIds -> [Kinds -> Seq(Threads)]]
      /\ ranked'[id.region][id.kind] = new
      /\ \A r \in RegionIds : \A kind \in Kinds :
           r # id.region \/ kind # id.kind => ranked'[r][kind] = ranked[r][kind]
  <2> HIDE DEF new, old, id
  <2>. QED
    BY <1>2, <1>6, <1>7, <1>8
<1>10. \A i \in DOMAIN new :
         \/ i \in DOMAIN old /\ new[i] = old[i]
         \/ i = Len(old) + 1 /\ new[i] = id.threads /\ Len(old) < CandidateBudget
  BY <1>5, <1>7
<1>11. \A i \in DOMAIN old : old[i] # id.threads
  BY <1>1, <1>2 DEF AdviceInv, Marked
<1>12. Len(new) <= CandidateBudget
  BY <1>2, <1>5, <1>7 DEF AdviceInv, Distinct
<1>13. \A i, j \in DOMAIN new : new[i] = new[j] => i = j
  <2>1. \A i, j \in DOMAIN old : old[i] = old[j] => i = j
    BY <1>2 DEF AdviceInv, Distinct
  <2> HIDE DEF new, old, id
  <2>. QED
    BY <2>1, <1>10, <1>11
<1>14. \A i \in DOMAIN new : /\ RankedId(id.region, id.kind, new[i]) \in Candidates
                             /\ RankedId(id.region, id.kind, new[i]) \in seen'
  <2>1. \A i \in DOMAIN old : /\ RankedId(id.region, id.kind, old[i]) \in Candidates
                              /\ RankedId(id.region, id.kind, old[i]) \in seen
    BY <1>2 DEF AdviceInv, Marked
  <2> HIDE DEF new, old
  <2>. QED
    BY <2>1, <1>1, <1>2, <1>4, <1>10
<1> HIDE DEF new, old, id
<1>15. \A r \in RegionIds : \A kind \in Kinds :
         \/ r = id.region /\ kind = id.kind /\ ranked'[r][kind] = new
         \/ ranked'[r][kind] = ranked[r][kind]
  BY <1>9
<1>16. ASSUME NEW r \in RegionIds, NEW kind \in Kinds
       PROVE  /\ Len(ranked'[r][kind]) <= CandidateBudget
              /\ \A i, j \in DOMAIN ranked'[r][kind] :
                   ranked'[r][kind][i] = ranked'[r][kind][j] => i = j
              /\ \A i \in DOMAIN ranked'[r][kind] :
                   /\ RankedId(r, kind, ranked'[r][kind][i]) \in Candidates
                   /\ RankedId(r, kind, ranked'[r][kind][i]) \in seen'
  <2>1. CASE r = id.region /\ kind = id.kind /\ ranked'[r][kind] = new
    BY <2>1, <1>12, <1>13, <1>14
  <2>2. CASE ranked'[r][kind] = ranked[r][kind]
    <3>1. /\ Len(ranked[r][kind]) <= CandidateBudget
          /\ \A i, j \in DOMAIN ranked[r][kind] : ranked[r][kind][i] = ranked[r][kind][j] => i = j
      BY DEF AdviceInv, Distinct
    <3>2. \A i \in DOMAIN ranked[r][kind] :
             /\ RankedId(r, kind, ranked[r][kind][i]) \in Candidates
             /\ RankedId(r, kind, ranked[r][kind][i]) \in seen
      BY DEF AdviceInv, Marked
    <3>. QED
      BY <2>2, <3>1, <3>2, <1>4
  <2>. QED
    BY <1>15, <2>1, <2>2
<1>17. Marked'
  BY <1>3, <1>16 DEF Marked, RankedId
<1>18. Distinct'
  BY <1>3, <1>16 DEF Distinct
<1>. QED
  BY <1>3, <1>9, <1>17, <1>18 DEF AdviceInv

LEMMA AdviceInvNext == AdviceInv /\ [Next]_vars => AdviceInv'
<1> SUFFICES ASSUME AdviceInv, [Next]_vars PROVE AdviceInv'
  OBVIOUS
<1> USE AdviceInvFrame
<1>1. ASSUME NEW p \in Programs, Export(p) PROVE AdviceInv'
  BY <1>1, AdvisorAssumption, AdviceInvReset DEF Export
<1>2. ASSUME NEW answer \in Answers, Advise(answer) PROVE AdviceInv'
  BY <1>2 DEF Advise
<1>3. CASE LoadAdvice
  BY <1>3 DEF LoadAdvice
<1>4. CASE ConsiderHint
  <2>1. CASE Fits(Head(hints))
    BY <1>4, <2>1, AdviceInvTake DEF ConsiderHint
  <2>2. CASE ~Fits(Head(hints))
    BY <1>4, <2>2 DEF ConsiderHint
  <2>. QED
    BY <2>1, <2>2
<1>5. CASE StartGraph
  BY <1>5 DEF StartGraph, Guided
<1>6. ASSUME NEW inputSize \in InputSizes, NEW prefill \in BOOLEAN,
             StartProduct(inputSize, prefill)
      PROVE  AdviceInv'
  BY <1>6 DEF StartProduct
<1>7. CASE BaselineFails
  BY <1>7 DEF BaselineFails, Abandoned
<1>8. ASSUME NEW timed \in BOOLEAN, BaselineReady(timed) PROVE AdviceInv'
  BY <1>8 DEF BaselineReady, adviceVars
<1>9. CASE Reject
  BY <1>9 DEF Reject, adviceVars
<1>10. ASSUME NEW trial \in Trials, Admit(trial) PROVE AdviceInv'
  BY <1>10 DEF Admit, adviceVars
<1>11. ASSUME NEW runs \in BOOLEAN \X BOOLEAN, SelectNorm(runs) PROVE AdviceInv'
  BY <1>11 DEF SelectNorm, adviceVars
<1>12. CASE FinalRunFails
  BY <1>12 DEF FinalRunFails, Abandoned
<1>13. CASE SelectFusion
  BY <1>13 DEF SelectFusion, adviceVars
<1>14. CASE SelectProduct
  BY <1>14 DEF SelectProduct
<1>15. CASE Assemble
  BY <1>15 DEF Assemble, Abandoned
<1>16. CASE Discard
  <2>1. program' = program /\ UNCHANGED device /\ ranked' = NoRanking(program')
    BY <1>16 DEF Discard, Return
  <2>. QED
    BY <2>1, AdviceInvReset DEF AdviceInv
<1>17. CASE UNCHANGED vars
  BY <1>17 DEF vars, adviceVars
<1>. QED
  BY <1>1, <1>2, <1>3, <1>4, <1>5, <1>6, <1>7, <1>8, <1>9, <1>10, <1>11, <1>12, <1>13,
     <1>14, <1>15, <1>16, <1>17 DEF Next, Consult

LEMMA AdviceInvNarrows == AdviceInv => AdviceOnlyNarrows
<1> SUFFICES ASSUME AdviceInv,
                    NEW r \in RegionIds, NEW kind \in Kinds
             PROVE  LET list == ranked[r][kind] IN
                    /\ Len(list) <= CandidateBudget
                    /\ \A i \in DOMAIN list :
                         /\ HasKind(program[r], kind)
                         /\ list[i] \in Threads /\ FilterOf(program[r], kind, list[i])
                         /\ \A j \in DOMAIN list : list[j] = list[i] => j = i
  BY DEF AdviceOnlyNarrows
<1> DEFINE list == ranked[r][kind]
<1>1. program[r] \in Regions
  BY DEF AdviceInv, RegionIds
<1>2. ASSUME NEW i \in DOMAIN list
      PROVE  HasKind(program[r], kind) /\ list[i] \in Threads
             /\ FilterOf(program[r], kind, list[i])
  <2>1. RankedId(r, kind, list[i]) \in Candidates
    BY DEF AdviceInv, Marked
  <2>2. /\ list[i] \in Threads /\ HasKind(program[r], kind)
        /\ hardwareAllows(program[r], kind, list[i])
    BY <2>1 DEF Candidates, RankedId
  <2>. QED
    BY <1>1, <2>2, FiltersAgree DEF AdviceInv
<1>. QED
  BY <1>2 DEF AdviceInv, Distinct

\* Whatever the advisor file says, the lists it leads to are within the budget,
\* without repetition, and of candidates that the tuner they go to accepts.
THEOREM AdviceNarrows == Spec => []AdviceOnlyNarrows
<1>1. TInit => AdviceInv
  BY AdviceInvInit DEF TInit
<1>. QED
  BY <1>1, AdviceInvNext, AdviceInvNarrows, PTL DEF Spec

---------------------------------------------------------------------------
(* Numbers and sequences *)

LEMMA LeastNumber ==
  ASSUME NEW T, T \subseteq Nat, T # {}
  PROVE  \E x \in T : \A y \in T : x <= y
<1> DEFINE L == OpToRel(<, Nat)
<1>1. IsWellFoundedOn(L, Nat)
  BY NatLessThanWellFounded
<1>2. \A x, y \in Nat : x < y => <<x, y>> \in L
  BY DEF OpToRel
<1> HIDE DEF L
<1>3. PICK x \in T : \A y \in T : ~(<<y, x>> \in L)
  BY <1>1, WFMin
<1>4. \A y \in T : ~(y < x)
  BY <1>2, <1>3
<1>. QED
  BY <1>4

\* A set of numbers with 0 and the successor of each of its members is Nat.
LEMMA Induction ==
  ASSUME NEW S \in SUBSET Nat, 0 \in S, \A n \in S : n + 1 \in S
  PROVE  S = Nat
<1> SUFFICES ASSUME S # Nat PROVE FALSE
  OBVIOUS
<1>1. PICK x \in Nat \ S : \A y \in Nat \ S : x <= y
  <2>1. Nat \ S # {}
    OBVIOUS
  <2>. QED
    BY <2>1, LeastNumber
<1>2. x # 0 /\ x - 1 \in Nat
  OBVIOUS
<1>3. x - 1 \in S
  BY <1>1, <1>2
<1>. QED
  BY <1>2, <1>3

\* f[i] joins the first i sequences of s, which has n of them.
Joins(f, s, n) == f = [i \in 1 .. n |-> IF i = 1 THEN s[i] ELSE f[i - 1] \o s[i]]

LEMMA JoinExists ==
  ASSUME NEW s, NEW n \in Nat
  PROVE  \E f : Joins(f, s, n)
<1> DEFINE I == {k \in Nat : \E f : Joins(f, s, k)}
<1>1. 0 \in I
  <2> DEFINE f == [i \in 1 .. 0 |-> s]
  <2>1. f = [i \in 1 .. 0 |-> IF i = 1 THEN s[i] ELSE f[i - 1] \o s[i]]
    OBVIOUS
  <2> HIDE DEF f
  <2>. QED
    BY <2>1 DEF Joins
<1>2. ASSUME NEW k \in I PROVE k + 1 \in I
  <2>1. PICK f : Joins(f, s, k)
    OBVIOUS
  <2> DEFINE Step(h, i) == IF i = 1 THEN s[i] ELSE h[i - 1] \o s[i]
             g == [i \in 1 .. k + 1 |-> Step(f, i)]
  <2>2. \A i \in 1 .. k : f[i] = Step(f, i)
    BY <2>1 DEF Joins
  <2>3. k \in Nat /\ \A i \in 1 .. k + 1 : i # 1 => i - 1 \in 1 .. k
    OBVIOUS
  <2>4. \A i \in 1 .. k : i \in 1 .. k + 1
    OBVIOUS
  <2>5. \A i \in 1 .. k : g[i] = f[i]
    <3> HIDE DEF Step
    <3>. QED
      BY <2>2, <2>4
  <2>6. \A i \in 1 .. k + 1 : Step(g, i) = Step(f, i)
    <3> HIDE DEF g
    <3>. QED
      BY <2>3, <2>5
  <2>7. g = [i \in 1 .. k + 1 |-> Step(g, i)]
    <3>1. \A i \in 1 .. k + 1 : g[i] = Step(f, i)
      <4> HIDE DEF Step
      <4>. QED
        OBVIOUS
    <3>2. g = [i \in 1 .. k + 1 |-> g[i]]
      OBVIOUS
    <3> HIDE DEF g, Step
    <3>. QED
      BY <2>6, <3>1, <3>2
  <2> HIDE DEF g
  <2>8. Joins(g, s, k + 1)
    BY <2>7 DEF Joins
  <2>. QED
    BY <2>8
<1>3. I = Nat
  <2> HIDE DEF I
  <2> SUFFICES I \in SUBSET Nat
    BY <1>1, <1>2, Induction
  <2>. QED
    BY DEF I
<1>. QED
  BY <1>3

Member(t, s) == \E i \in DOMAIN s : s[i] = t

LEMMA MemberOfConcat ==
  ASSUME NEW T, NEW a \in Seq(T), NEW b \in Seq(T)
  PROVE  a \o b \in Seq(T) /\ \A t : Member(t, a \o b) <=> Member(t, a) \/ Member(t, b)
<1> DEFINE c == a \o b
<1>1. /\ c \in Seq(T) /\ Len(c) = Len(a) + Len(b)
      /\ \A i \in 1 .. Len(a) + Len(b) : c[i] = IF i <= Len(a) THEN a[i] ELSE b[i - Len(a)]
  OBVIOUS
<1>2. /\ Len(a) \in Nat /\ Len(b) \in Nat /\ DOMAIN a = 1 .. Len(a)
      /\ DOMAIN b = 1 .. Len(b) /\ DOMAIN c = 1 .. Len(a) + Len(b)
  BY <1>1
<1> HIDE DEF c
<1>3. \A i \in DOMAIN a : i \in DOMAIN c /\ c[i] = a[i]
  BY <1>1, <1>2
<1>4. \A i \in DOMAIN b : i + Len(a) \in DOMAIN c /\ c[i + Len(a)] = b[i]
  <2> SUFFICES ASSUME NEW i \in DOMAIN b
               PROVE  i + Len(a) \in DOMAIN c /\ c[i + Len(a)] = b[i]
    OBVIOUS
  <2>1. i + Len(a) \in 1 .. Len(a) + Len(b) /\ ~(i + Len(a) <= Len(a)) /\ (i + Len(a)) - Len(a) = i
    BY <1>2
  <2>. QED
    BY <1>1, <1>2, <2>1
<1>5. ASSUME NEW i \in DOMAIN c PROVE Member(c[i], a) \/ Member(c[i], b)
  <2>1. CASE i <= Len(a)
    <3>1. i \in DOMAIN a /\ c[i] = a[i]
      BY <1>1, <1>2, <1>5, <2>1
    <3>. QED
      BY <3>1 DEF Member
  <2>2. CASE ~(i <= Len(a))
    <3>1. i - Len(a) \in DOMAIN b /\ c[i] = b[i - Len(a)]
      BY <1>1, <1>2, <1>5, <2>2
    <3>. QED
      BY <3>1 DEF Member
  <2>. QED
    BY <2>1, <2>2
<1>6. \A t : Member(t, c) <=> Member(t, a) \/ Member(t, b)
  BY <1>3, <1>4, <1>5 DEF Member
<1>. QED
  BY <1>1, <1>6 DEF c

\* The members of a flattened sequence are those of its sequences.
LEMMA MembersOfFlattened ==
  ASSUME NEW T, NEW s \in Seq(Seq(T))
  PROVE  /\ Seqs!FlattenSeq(s) \in Seq(T)
         /\ \A t : Member(t, Seqs!FlattenSeq(s)) <=> \E j \in DOMAIN s : Member(t, s[j])
<1> DEFINE n == Len(s)
           f == CHOOSE h : Joins(h, s, n)
<1>1. n \in Nat /\ DOMAIN s = 1 .. n /\ \A i \in 1 .. n : s[i] \in Seq(T)
  OBVIOUS
<1>2. Seqs!FlattenSeq(s) = IF n = 0 THEN s ELSE f[n]
  BY DEF Seqs!FlattenSeq, Joins
<1>3. Joins(f, s, n)
  <2> HIDE DEF n
  <2>. QED
    BY <1>1, JoinExists
<1>4. \A i \in 1 .. n : f[i] = IF i = 1 THEN s[i] ELSE f[i - 1] \o s[i]
  <2> HIDE DEF f
  <2>. QED
    BY <1>3 DEF Joins
<1> HIDE DEF f, n
<1> DEFINE Good(k) == /\ f[k] \in Seq(T)
                      /\ \A t : Member(t, f[k]) <=> \E j \in 1 .. k : Member(t, s[j])
           I == {k \in Nat : k + 1 <= n => Good(k + 1)}
<1>5. 0 \in I
  <2> SUFFICES ASSUME 1 <= n PROVE Good(1)
    OBVIOUS
  <2>1. f[1] = s[1] /\ s[1] \in Seq(T)
    BY <1>1, <1>4
  <2>. QED
    BY <2>1
<1>6. ASSUME NEW k \in I PROVE k + 1 \in I
  <2> SUFFICES ASSUME k + 2 <= n PROVE Good(k + 2)
    OBVIOUS
  <2>1. k \in Nat /\ k + 2 \in 1 .. n /\ k + 2 # 1 /\ (k + 2) - 1 = k + 1 /\ Good(k + 1)
    BY SMTT(40), <1>1
  <2>2. f[k + 2] = f[k + 1] \o s[k + 2] /\ s[k + 2] \in Seq(T)
    BY <1>1, <1>4, <2>1
  <2>3. f[k + 2] \in Seq(T) /\ \A t : Member(t, f[k + 2]) <=> Member(t, f[k + 1]) \/ Member(t, s[k + 2])
    BY <2>1, <2>2, MemberOfConcat
  <2>4. \A j : j \in 1 .. k + 2 <=> j \in 1 .. k + 1 \/ j = k + 2
    BY <2>1
  <2>. QED
    BY <2>1, <2>3, <2>4
<1>7. I = Nat
  <2> HIDE DEF I
  <2> SUFFICES I \in SUBSET Nat
    BY <1>5, <1>6, Induction
  <2>. QED
    BY DEF I
<1>8. CASE n = 0
  BY <1>1, <1>2, <1>8 DEF n, Member
<1>9. CASE n # 0
  <2>1. n - 1 \in Nat /\ (n - 1) + 1 = n
    BY <1>1, <1>9
  <2>2. n - 1 \in I
    <3> HIDE DEF I
    <3>. QED
      BY <1>7, <2>1
  <2>3. Good(n)
    BY <1>1, <2>1, <2>2
  <2>. QED
    BY <1>1, <1>2, <1>9, <2>3
<1>. QED
  BY <1>8, <1>9

---------------------------------------------------------------------------
(* The tuners.  Three invariants: the winner is the fastest of those       *)
(* admitted; an RMSNorm of the program is right or still to be tuned; and  *)
(* no RMSNorm is tuned after a fusion, so that what a fused kernel was     *)
(* measured against does not change.                                       *)

AllTasks == [tuner : {"rmsnorm", "fusion", "gemv"}, region : Nat, norm : Nat,
             candidates : Seq(Configurations), inputSize : Nat, prefill : BOOLEAN]
AdmittedKernels == [config : Configurations, trial : Trials]

\* Some RMSNorm is still to be tuned; that one is.
NormsLeft == \E i \in DOMAIN todo : todo[i].tuner = "rmsnorm"
Waiting(r, k) ==
  \E i \in DOMAIN todo : todo[i].tuner = "rmsnorm" /\ todo[i].region = r /\ todo[i].norm = k

WinnerInv ==
  /\ tuning \in [step : {"rest", "candidates"}, left : Seq(Configurations), timed : BOOLEAN,
                 winner : AdmittedKernels \cup {Baseline}, admitted : Seq(AdmittedKernels)]
  /\ IF tuning.admitted = <<>> THEN tuning.winner = Baseline
     ELSE \E i \in DOMAIN tuning.admitted :
            /\ tuning.winner = tuning.admitted[i]
            /\ \A j \in DOMAIN tuning.admitted :
                 tuning.admitted[j].trial.speedup <= tuning.winner.trial.speedup

ScheduleInv ==
  /\ todo \in Seq(AllTasks)
  /\ phase # "tuning" => todo = <<>>
  /\ phase \notin {"tuning", "compiled"} => norms = <<>> /\ fused = <<>>
  /\ \A i \in DOMAIN todo : todo[i].tuner = "gemv" => Len(todo) = 1 /\ norms = <<>> /\ fused = <<>>
  /\ \A i, j \in DOMAIN todo : i < j /\ todo[i].tuner = "fusion" => todo[j].tuner # "rmsnorm"
  /\ \A r \in DOMAIN norms : \A k \in DOMAIN norms[r] : norms[r][k].right \/ Waiting(r, k)
  /\ \A r \in DOMAIN fused : fused[r] # Unfused => fused[r].beat = norms[r] /\ ~NormsLeft

TuneInv == WinnerInv /\ ScheduleInv /\ FastestAdmittedIsChosen

LEMMA SpeedupsAreNumbers == Speedups \subseteq Nat
<1>1. ASSUME NEW m \in Medians PROVE m \in Nat \ {0}
  <2>1. CASE m \in Times
    BY <2>1, TuningAssumption
  <2>2. CASE \E a, b \in Times : m = (a + b) \div 2
    <3>1. PICK a \in Times, b \in Times : m = (a + b) \div 2
      BY <2>2
    <3>2. a \in Nat \ {0} /\ b \in Nat \ {0}
      BY TuningAssumption
    <3>. QED
      BY <3>1, <3>2
  <2>. QED
    BY <2>1, <2>2 DEF Medians
<1>2. ASSUME NEW a \in Medians, NEW b \in Medians PROVE (100 * a) \div b \in Nat
  BY <1>1
<1>. QED
  BY <1>2 DEF Speedups

LEMMA TrialFacts ==
  ASSUME NEW trial \in Trials
  PROVE  /\ trial.first \in Nat /\ trial.confirmation \in Nat /\ trial.speedup \in Nat
         /\ MinimumSpeedup \in Nat /\ MinimumSpeedup > 100
         /\ trial.first >= MinimumSpeedup /\ trial.confirmation >= MinimumSpeedup
         /\ trial.speedup <= trial.first /\ trial.speedup <= trial.confirmation
         /\ trial.speedup \in {trial.first, trial.confirmation}
         /\ trial # NoTrial
<1>1. /\ trial.first \in Nat /\ trial.confirmation \in Nat /\ trial.speedup \in Nat
      /\ trial.first >= MinimumSpeedup /\ trial.speedup >= MinimumSpeedup
      /\ trial.speedup = Least(trial.first, trial.confirmation)
  BY SpeedupsAreNumbers DEF Trials
<1>2. MinimumSpeedup \in Nat /\ MinimumSpeedup > 100
  BY TuningAssumption
<1>3. trial # NoTrial
  BY <1>1, <1>2 DEF NoTrial
<1>. QED
  BY <1>1, <1>2, <1>3 DEF Least

LEMMA KernelsFrame == AdmittedKernels' = AdmittedKernels /\ Baseline' = Baseline
BY DEF AdmittedKernels, Trials, Speedups, Medians, Baseline, Candidate, Config, NoTrial

LEMMA AdmittedTrials ==
  ASSUME WinnerInv, NEW j \in DOMAIN tuning.admitted
  PROVE  tuning.admitted[j] \in AdmittedKernels /\ tuning.admitted[j].trial \in Trials
<1>1. tuning.admitted \in Seq(AdmittedKernels)
  BY DEF WinnerInv
<1>2. tuning.admitted[j] \in AdmittedKernels
  BY <1>1, ElementOfSeq
<1>. QED
  BY <1>2 DEF AdmittedKernels

LEMMA RestingWinner ==
  ASSUME NEW left \in Seq(Configurations), NEW timed \in BOOLEAN, NEW step \in {"rest", "candidates"},
         tuning' = [step |-> step, left |-> left, timed |-> timed, winner |-> Baseline,
                    admitted |-> <<>>]
  PROVE  WinnerInv'
<1>1. <<>> \in Seq(AdmittedKernels)
  OBVIOUS
<1>2. tuning'.admitted = <<>> /\ tuning'.winner = Baseline
  OBVIOUS
<1>3. tuning' \in [step : {"rest", "candidates"}, left : Seq(Configurations), timed : BOOLEAN,
                   winner : AdmittedKernels \cup {Baseline}, admitted : Seq(AdmittedKernels)]
  <2> DEFINE A == Seq(AdmittedKernels)
             C == Seq(Configurations)
             W == AdmittedKernels \cup {Baseline}
  <2>1. <<>> \in A /\ Baseline \in W /\ left \in C
    BY <1>1
  <2> HIDE DEF A, C, W
  <2>2. tuning' \in [step : {"rest", "candidates"}, left : C, timed : BOOLEAN, winner : W, admitted : A]
    BY <2>1
  <2>. QED
    BY <2>2 DEF A, C, W
<1>. QED
  BY <1>2, <1>3, KernelsFrame DEF WinnerInv

\* Admitted after some others, a kernel becomes the winner if it is faster.
LEMMA AdmitKeepsWinner ==
  ASSUME WinnerInv, NEW candidate \in AdmittedKernels, tuning.left # <<>>,
         tuning' = [tuning EXCEPT !.left = Tail(@), !.admitted = Append(@, candidate),
                                  !.winner = Better(@, candidate)]
  PROVE  WinnerInv'
<1> DEFINE old == tuning.admitted
           n == Len(old)
           new == Append(old, candidate)
           w == Better(tuning.winner, candidate)
<1>1. /\ old \in Seq(AdmittedKernels) /\ n \in Nat /\ DOMAIN old = 1 .. n
      /\ new \in Seq(AdmittedKernels) /\ DOMAIN new = 1 .. n + 1 /\ new # <<>>
      /\ \A i \in 1 .. n : new[i] = old[i]
      /\ new[n + 1] = candidate
  <2>1. old \in Seq(AdmittedKernels)
    BY DEF WinnerInv
  <2>2. n \in Nat /\ DOMAIN old = 1 .. n
    BY <2>1, LenProperties
  <2>3. /\ new \in Seq(AdmittedKernels) /\ Len(new) = n + 1
        /\ \A i \in 1 .. n : new[i] = old[i]
        /\ new[n + 1] = candidate
    BY <2>1, AppendProperties
  <2> HIDE DEF new, n, old
  <2>4. DOMAIN new = 1 .. n + 1
    BY <2>3, LenProperties
  <2>5. new # <<>>
    <3>1. n + 1 \in DOMAIN new
      BY <2>2, <2>4
    <3>. QED
      BY <3>1
  <2>. QED
    BY <2>1, <2>2, <2>3, <2>4, <2>5
<1>2. Tail(tuning.left) \in Seq(Configurations)
  BY DEF WinnerInv
<1>3. /\ tuning.winner \in AdmittedKernels \cup {Baseline} /\ w \in AdmittedKernels \cup {Baseline}
      /\ tuning' = [step |-> tuning.step, left |-> Tail(tuning.left), timed |-> tuning.timed,
                    winner |-> w, admitted |-> new]
  BY DEF WinnerInv, Better
<1>4. \A k \in AdmittedKernels : k.trial.speedup \in Nat /\ k.trial.speedup > 100
  <2> SUFFICES ASSUME NEW k \in AdmittedKernels PROVE k.trial.speedup \in Nat /\ k.trial.speedup > 100
    OBVIOUS
  <2>1. k.trial \in Trials
    BY DEF AdmittedKernels
  <2>. QED
    BY <2>1, TrialFacts
<1>5. Baseline.trial.speedup = 100
  BY DEF Baseline, Candidate, NoTrial
<1>6. \E i \in DOMAIN new : w = new[i] /\ \A j \in DOMAIN new : new[j].trial.speedup <= w.trial.speedup
  <2>1. CASE old = <<>>
    <3>1. n = 0 /\ tuning.winner = Baseline
      BY <2>1 DEF WinnerInv
    <3>2. w = candidate
      BY <1>4, <1>5, <3>1 DEF Better
    <3>3. DOMAIN new = {1} /\ new[1] = candidate
      BY <1>1, <3>1
    <3> HIDE DEF new, w
    <3>. QED
      BY <1>4, <3>2, <3>3
  <2>2. CASE old # <<>>
    <3>1. PICK i \in DOMAIN old :
            /\ tuning.winner = old[i]
            /\ \A j \in DOMAIN old : old[j].trial.speedup <= tuning.winner.trial.speedup
      BY <2>2 DEF WinnerInv
    <3>2. \A j \in DOMAIN new :
            \/ j \in DOMAIN old /\ new[j] = old[j]
            \/ j = n + 1 /\ new[j] = candidate
      BY <1>1
    <3>3. \A j \in DOMAIN old : old[j] \in AdmittedKernels /\ old[j].trial.speedup \in Nat
      BY <1>1, <1>4
    <3>4. tuning.winner.trial.speedup \in Nat /\ candidate.trial.speedup \in Nat
      BY <1>4, <3>1, <3>3
    <3>5. i \in DOMAIN new /\ new[i] = old[i] /\ n + 1 \in DOMAIN new /\ new[n + 1] = candidate
      BY <1>1, <3>1
    <3> HIDE DEF new, old, n, w
    <3>6. CASE candidate.trial.speedup > tuning.winner.trial.speedup
      <4>1. w = candidate
        BY <3>6 DEF w, Better
      <4>2. \A j \in DOMAIN new : new[j].trial.speedup <= candidate.trial.speedup
        BY <3>1, <3>2, <3>3, <3>4, <3>6
      <4>. QED
        BY <3>5, <4>1, <4>2
    <3>7. CASE ~(candidate.trial.speedup > tuning.winner.trial.speedup)
      <4>1. w = tuning.winner
        BY <3>7 DEF w, Better
      <4>2. \A j \in DOMAIN new : new[j].trial.speedup <= tuning.winner.trial.speedup
        BY <3>1, <3>2, <3>3, <3>4, <3>7
      <4>. QED
        BY <3>1, <3>5, <4>1, <4>2
    <3>. QED
      BY <3>6, <3>7
  <2>. QED
    BY <2>1, <2>2
<1>7. /\ tuning'.winner = w /\ tuning'.admitted = new
      /\ tuning' \in [step : {"rest", "candidates"}, left : Seq(Configurations), timed : BOOLEAN,
                       winner : AdmittedKernels \cup {Baseline}, admitted : Seq(AdmittedKernels)]
  <2> HIDE DEF w, new
  <2>1. tuning.step \in {"rest", "candidates"} /\ tuning.timed \in BOOLEAN
    BY DEF WinnerInv
  <2> DEFINE A == Seq(AdmittedKernels)
             C == Seq(Configurations)
             W == AdmittedKernels \cup {Baseline}
  <2>2. new \in A /\ w \in W /\ Tail(tuning.left) \in C
    BY <1>1, <1>2, <1>3
  <2> HIDE DEF A, C, W
  <2>3. tuning' \in [step : {"rest", "candidates"}, left : C, timed : BOOLEAN, winner : W, admitted : A]
    BY ONLY <1>3, <2>1, <2>2
  <2>4. tuning'.winner = w /\ tuning'.admitted = new
    BY ONLY SMTT(40), <1>3
  <2>. QED
    BY <2>3, <2>4 DEF A, C, W
<1> HIDE DEF w, new
<1>. QED
  BY <1>1, <1>6, <1>7, KernelsFrame DEF WinnerInv

\* max_element finds the first of the fastest, which the winner shows to exist.
LEMMA MaxElementIsFastest ==
  ASSUME WinnerInv, tuning.admitted # <<>>
  PROVE  LET chosen == max_element(tuning.admitted) IN
         \E i \in DOMAIN tuning.admitted :
           /\ chosen = tuning.admitted[i]
           /\ \A j \in DOMAIN tuning.admitted :
                tuning.admitted[j].trial.speedup <= chosen.trial.speedup
<1> DEFINE a == tuning.admitted
           First(i) ==
             /\ \A j \in DOMAIN a : a[j].trial.speedup <= a[i].trial.speedup
             /\ \A j \in 1 .. i - 1 : a[j].trial.speedup < a[i].trial.speedup
           T == {i \in DOMAIN a : \A j \in DOMAIN a : a[j].trial.speedup <= a[i].trial.speedup}
<1>1. a \in Seq(AdmittedKernels) /\ Len(a) \in Nat /\ DOMAIN a = 1 .. Len(a)
  BY DEF WinnerInv
<1>2. \A j \in DOMAIN a : a[j].trial.speedup \in Nat
  <2> SUFFICES ASSUME NEW j \in DOMAIN a PROVE a[j].trial.speedup \in Nat
    OBVIOUS
  <2>1. a[j].trial \in Trials
    BY AdmittedTrials
  <2>. QED
    BY <2>1, TrialFacts
<1>3. T # {} /\ T \subseteq Nat
  BY <1>1 DEF WinnerInv
<1>4. PICK i \in T : \A j \in T : i <= j
  BY <1>3, LeastNumber
<1>5. First(i)
  <2>1. ASSUME NEW j \in 1 .. i - 1 PROVE a[j].trial.speedup < a[i].trial.speedup
    <3>1. j \in DOMAIN a /\ j \notin T
      BY <1>1, <1>4
    <3>2. PICK m \in DOMAIN a : ~(a[m].trial.speedup <= a[j].trial.speedup)
      BY <3>1
    <3>. QED
      BY <1>2, <1>4, <3>1, <3>2
  <2>. QED
    BY <1>4, <2>1
<1>6. max_element(a) = a[CHOOSE k \in DOMAIN a : First(k)]
  BY DEF max_element
<1>7. \E k \in DOMAIN a : First(k)
  BY <1>4, <1>5
<1> HIDE DEF First
<1>8. (CHOOSE k \in DOMAIN a : First(k)) \in DOMAIN a /\ First(CHOOSE k \in DOMAIN a : First(k))
  BY <1>7
<1>. QED
  BY <1>6, <1>8 DEF First

\* One of those admitted, and none of them has the greater speedup.
Tops(winner) ==
  \E i \in DOMAIN tuning.admitted :
    /\ winner = tuning.admitted[i]
    /\ \A j \in DOMAIN tuning.admitted :
         tuning.admitted[j].trial.speedup <= winner.trial.speedup

\* FastestAdmitted, of any list of candidates.
FastestOf(a, winner) ==
  /\ \E i \in DOMAIN a : a[i] = winner
  /\ \A round \in RoundsOf(winner) :
       /\ round >= MinimumSpeedup
       /\ \A i \in DOMAIN a : \E mine \in RoundsOf(a[i]) : mine <= round

LEMMA TopIsFastest ==
  ASSUME WinnerInv, NEW winner, Tops(winner)
  PROVE  FastestOf(tuning.admitted, winner) /\ winner # Baseline
<1> DEFINE a == tuning.admitted
<1>1. PICK i \in DOMAIN a : winner = a[i] /\ \A j \in DOMAIN a : a[j].trial.speedup <= winner.trial.speedup
  BY DEF Tops
<1>2. \A j \in DOMAIN a : a[j].trial \in Trials
  BY AdmittedTrials
<1>3. winner.trial \in Trials
  BY <1>1, <1>2
<1>4. winner # Baseline
  <2>1. winner.trial # NoTrial
    BY <1>3, TrialFacts
  <2>. QED
    BY <2>1 DEF Baseline, Candidate
<1>5. /\ winner.trial.first >= MinimumSpeedup /\ winner.trial.confirmation >= MinimumSpeedup
      /\ winner.trial.first \in Nat /\ winner.trial.confirmation \in Nat
      /\ winner.trial.speedup \in Nat
      /\ winner.trial.speedup <= winner.trial.first
      /\ winner.trial.speedup <= winner.trial.confirmation
  BY <1>3, TrialFacts
<1>6. ASSUME NEW j \in DOMAIN a
      PROVE  /\ a[j].trial.speedup \in RoundsOf(a[j])
             /\ a[j].trial.speedup <= winner.trial.first
             /\ a[j].trial.speedup <= winner.trial.confirmation
  <2>1. /\ a[j].trial.speedup \in {a[j].trial.first, a[j].trial.confirmation}
        /\ a[j].trial.speedup \in Nat
    BY <1>2, TrialFacts
  <2>. QED
    BY <1>1, <1>5, <2>1 DEF RoundsOf
<1>7. FastestOf(a, winner)
  <2> HIDE DEF a
  <2>1. ASSUME NEW round \in RoundsOf(winner)
        PROVE  round >= MinimumSpeedup /\ \A j \in DOMAIN a : \E mine \in RoundsOf(a[j]) : mine <= round
    <3>1. round = winner.trial.first \/ round = winner.trial.confirmation
      BY <2>1 DEF RoundsOf
    <3>2. ASSUME NEW j \in DOMAIN a PROVE \E mine \in RoundsOf(a[j]) : mine <= round
      <4>1. a[j].trial.speedup \in RoundsOf(a[j]) /\ a[j].trial.speedup <= round
        BY <1>6, <3>1
      <4>. QED
        BY <4>1
    <3>. QED
      BY <1>5, <3>1, <3>2
  <2>. QED
    BY <1>1, <2>1 DEF FastestOf
<1>. QED
  BY <1>4, <1>7

\* What a tuner returns: the fastest of those admitted, or the baseline where it
\* may, which is when none was or the fastest was rejected.
LEMMA ReturnedIsFastest ==
  ASSUME WinnerInv, NEW chosen, NEW rejected, NEW tuner,
         result' = [tuner |-> tuner, chosen |-> chosen, admitted |-> tuning.admitted,
                    rejected |-> rejected],
         chosen \notin rejected,
         \/ chosen = Baseline /\ tuning.admitted = <<>>
         \/ chosen = Baseline /\ \E winner \in rejected : Tops(winner)
         \/ Tops(chosen)
  PROVE  FastestAdmittedIsChosen'
<1> DEFINE a == tuning.admitted
<1>1. result'.chosen = chosen /\ result'.admitted = a /\ result'.rejected = rejected
  OBVIOUS
<1>2. SUFFICES IF chosen = Baseline
               THEN a = <<>> \/ \E winner \in rejected : FastestOf(a, winner)
               ELSE FastestOf(a, chosen)
  <2> HIDE DEF a
  <2>. QED
    BY <1>1 DEF FastestAdmittedIsChosen, FastestAdmitted, FastestOf, RoundsOf,
                Baseline, Candidate, Config, NoTrial
<1>. QED
  BY TopIsFastest

LEMMA TaskType ==
  ASSUME AdviceInv, NEW tuner \in Kinds, NEW r \in RegionIds, NEW k \in Nat
  PROVE  /\ Task(tuner, r, k, Configs(threadsFor(r, tuner, ThreadCandidates))) \in AllTasks
         /\ r \in Nat /\ program[r].norms \in Nat /\ Len(program) \in Nat
         /\ RegionIds = 1 .. Len(program)
<1>1. program \in Seq(Regions) /\ ranked[r][tuner] \in Seq(Threads)
  BY DEF AdviceInv
<1>2. r \in Nat /\ program[r] \in Regions /\ Len(program) \in Nat /\ RegionIds = 1 .. Len(program)
  BY <1>1 DEF RegionIds
<1>3. Threads \subseteq Nat /\ ThreadCandidates \in Seq(Nat)
  BY DEF Threads, ThreadCandidates
<1> DEFINE list == threadsFor(r, tuner, ThreadCandidates)
<1>4. list \in Seq(Nat)
  <2>1. ranked[r][tuner] \in Seq(Nat)
    <3> DEFINE l == ranked[r][tuner]
    <3>1. l \in Seq(Threads) /\ DOMAIN l = 1 .. Len(l)
      BY <1>1, LenProperties
    <3> HIDE DEF l
    <3>2. \A i \in 1 .. Len(l) : l[i] \in Nat
      BY <1>3, <3>1, ElementOfSeq
    <3>3. l \in Seq(Nat)
      BY <3>1, <3>2
    <3>. QED
      BY <3>3 DEF l
  <2>. QED
    BY <1>3, <2>1 DEF threadsFor
<1> HIDE DEF list
<1>5. Configs(list) \in Seq(Configurations)
  <2>1. \A i \in DOMAIN list : Config(list[i]) \in Configurations
    BY <1>4 DEF Config, Configurations
  <2>2. DOMAIN list = 1 .. Len(list) /\ Len(list) \in Nat
    BY <1>4
  <2> DEFINE f(i) == Config(list[i])
  <2>3. Configs(list) = [i \in 1 .. Len(list) |-> f(i)]
    BY <2>2 DEF Configs
  <2>4. \A i \in 1 .. Len(list) : f(i) \in Configurations
    BY <2>1, <2>2
  <2> HIDE DEF f
  <2>. QED
    BY <2>2, <2>3, <2>4
<1>6. Task(tuner, r, k, Configs(list)) \in AllTasks
  <2> DEFINE C == Seq(Configurations)
             c == Configs(list)
  <2>1. c \in C /\ tuner \in {"rmsnorm", "fusion", "gemv"}
    BY <1>5 DEF Kinds
  <2> HIDE DEF C, c
  <2>2. Task(tuner, r, k, c) \in [tuner : {"rmsnorm", "fusion", "gemv"}, region : Nat, norm : Nat,
                                  candidates : C, inputSize : Nat, prefill : BOOLEAN]
    BY <1>2, <2>1 DEF Task
  <2>. QED
    BY <2>2 DEF AllTasks, C, c
<1>. QED
  BY <1>1, <1>2, <1>6 DEF list, Regions

\* Every RMSNorm of the program has a task.
LEMMA NormTasksFacts ==
  ASSUME AdviceInv
  PROVE  /\ NormTasks \in Seq(AllTasks)
         /\ \A i \in DOMAIN NormTasks : NormTasks[i].tuner = "rmsnorm"
         /\ \A r \in RegionIds : \A k \in 1 .. program[r].norms : \E i \in DOMAIN NormTasks :
              NormTasks[i].tuner = "rmsnorm" /\ NormTasks[i].region = r /\ NormTasks[i].norm = k
<1> DEFINE N == {t \in AllTasks : t.tuner = "rmsnorm"}
           T(r, k) == Task("rmsnorm", r, k, Configs(threadsFor(r, "rmsnorm", ThreadCandidates)))
           part(r) == [k \in 1 .. program[r].norms |-> T(r, k)]
           s == [r \in RegionIds |-> part(r)]
<1>1. ASSUME NEW r \in RegionIds, NEW k \in Nat
      PROVE  T(r, k) \in N /\ T(r, k).region = r /\ T(r, k).norm = k
  <2>1. T(r, k) \in AllTasks
    BY TaskType DEF Kinds
  <2>2. T(r, k).tuner = "rmsnorm" /\ T(r, k).region = r /\ T(r, k).norm = k
    BY DEF Task
  <2> HIDE DEF T
  <2>. QED
    BY <2>1, <2>2
<1>2. \A r \in RegionIds : program[r].norms \in Nat /\ RegionIds = 1 .. Len(program) /\ Len(program) \in Nat
  BY TaskType DEF Kinds
<1>3. RegionIds = 1 .. Len(program) /\ Len(program) \in Nat
  BY DEF AdviceInv, RegionIds
<1> HIDE DEF T, N
<1>4. ASSUME NEW r \in RegionIds
      PROVE  /\ part(r) \in Seq(N) /\ DOMAIN part(r) = 1 .. program[r].norms
             /\ \A k \in 1 .. program[r].norms : part(r)[k] = T(r, k)
  BY <1>1, <1>2
<1> HIDE DEF part
<1>5. s \in Seq(Seq(N)) /\ DOMAIN s = RegionIds /\ \A r \in RegionIds : s[r] = part(r)
  BY <1>3, <1>4
<1>6. NormTasks = Seqs!FlattenSeq(s)
  BY DEF NormTasks, part, T
<1> HIDE DEF s
<1>7. /\ NormTasks \in Seq(N)
      /\ \A t : Member(t, NormTasks) <=> \E j \in DOMAIN s : Member(t, s[j])
  BY <1>5, <1>6, MembersOfFlattened
<1>8. \A i \in DOMAIN NormTasks : NormTasks[i] \in N
  BY <1>7, ElementOfSeq
<1>9. ASSUME NEW r \in RegionIds, NEW k \in 1 .. program[r].norms
      PROVE  Member(T(r, k), NormTasks) /\ T(r, k).region = r /\ T(r, k).norm = k
             /\ T(r, k).tuner = "rmsnorm"
  <2>1. k \in Nat
    BY <1>2
  <2>2. Member(T(r, k), s[r])
    BY <1>4, <1>5 DEF Member
  <2>3. T(r, k).tuner = "rmsnorm"
    BY <1>1, <2>1 DEF N
  <2>. QED
    BY <1>1, <1>5, <1>7, <2>1, <2>2, <2>3
<1>10. N \subseteq AllTasks /\ \A t \in N : t.tuner = "rmsnorm"
  BY DEF N
<1>11. NormTasks \in Seq(AllTasks)
  BY <1>7, <1>10
<1>. QED
  BY <1>8, <1>9, <1>10, <1>11 DEF Member

LEMMA FusionTasksFacts ==
  ASSUME AdviceInv
  PROVE  /\ FusionTasks \in Seq(AllTasks)
         /\ \A i \in DOMAIN FusionTasks : FusionTasks[i].tuner = "fusion"
<1> DEFINE F == {t \in AllTasks : t.tuner = "fusion"}
           T(r) == Task("fusion", r, 0, Configs(threadsFor(r, "fusion", ThreadCandidates)))
           part(r) == IF program[r].fusion = "None" THEN <<>> ELSE <<T(r)>>
           s == [r \in RegionIds |-> part(r)]
<1>1. ASSUME NEW r \in RegionIds PROVE T(r) \in F
  <2>1. T(r) \in AllTasks
    BY TaskType DEF Kinds
  <2>2. T(r).tuner = "fusion"
    BY DEF Task
  <2> HIDE DEF T
  <2>. QED
    BY <2>1, <2>2
<1>2. RegionIds = 1 .. Len(program) /\ Len(program) \in Nat
  BY DEF AdviceInv, RegionIds
<1> HIDE DEF T, F
<1>3. \A r \in RegionIds : part(r) \in Seq(F)
  BY <1>1
<1> HIDE DEF part
<1>4. s \in Seq(Seq(F))
  BY <1>2, <1>3
<1>5. FusionTasks = Seqs!FlattenSeq(s)
  BY DEF FusionTasks, part, T
<1> HIDE DEF s
<1>6. FusionTasks \in Seq(F)
  BY <1>4, <1>5, MembersOfFlattened
<1>7. \A i \in DOMAIN FusionTasks : FusionTasks[i] \in F
  BY <1>6, ElementOfSeq
<1>8. F \subseteq AllTasks /\ \A t \in F : t.tuner = "fusion"
  BY DEF F
<1>9. FusionTasks \in Seq(AllTasks)
  BY <1>6, <1>8
<1>. QED
  BY <1>7, <1>8, <1>9

LEMMA TuneInvInit == TInit => TuneInv
<1> SUFFICES ASSUME TInit PROVE TuneInv
  OBVIOUS
<1>1. /\ todo = <<>> /\ tuning = Resting /\ norms = <<>> /\ fused = <<>> /\ result = NoResult
      /\ phase = "idle"
  BY DEF TInit, TuningInit, Init
<1>2. WinnerInv
  <2> DEFINE A == Seq(AdmittedKernels)
             C == Seq(Configurations)
             W == AdmittedKernels \cup {Baseline}
  <2>1. <<>> \in A /\ <<>> \in C /\ Baseline \in W
    OBVIOUS
  <2> HIDE DEF A, C, W
  <2>2. /\ tuning \in [step : {"rest", "candidates"}, left : C, timed : BOOLEAN, winner : W, admitted : A]
        /\ tuning.admitted = <<>> /\ tuning.winner = Baseline
    BY <1>1, <2>1 DEF Resting
  <2>. QED
    BY <2>2 DEF A, C, W, WinnerInv
<1>3. ScheduleInv
  BY <1>1 DEF ScheduleInv
<1>4. FastestAdmittedIsChosen
  BY <1>1 DEF FastestAdmittedIsChosen, NoResult
<1>. QED
  BY <1>2, <1>3, <1>4 DEF TuneInv

\* At rest, whatever came before.
LEMMA RestKeepsWinner ==
  ASSUME tuning' = Resting
  PROVE  WinnerInv'
<1>1. <<>> \in Seq(Configurations)
  OBVIOUS
<1>. QED
  BY <1>1, RestingWinner DEF Resting

LEMMA FastestFrame ==
  ASSUME FastestAdmittedIsChosen, result' = result \/ result' = NoResult
  PROVE  FastestAdmittedIsChosen'
<1>1. CASE result' = result
  BY <1>1, KernelsFrame DEF FastestAdmittedIsChosen, FastestAdmitted, RoundsOf
<1>2. CASE result' = NoResult
  <2>1. result'.chosen = Baseline /\ result'.admitted = <<>> /\ result'.rejected = {}
    BY <1>2 DEF NoResult
  <2>. QED
    BY <2>1, KernelsFrame DEF FastestAdmittedIsChosen
<1>. QED
  BY <1>1, <1>2

LEMMA ScheduleFrame ==
  ASSUME ScheduleInv, UNCHANGED <<todo, norms, fused>>,
         phase' # "tuning" => todo = <<>>,
         phase' \notin {"tuning", "compiled"} => norms = <<>> /\ fused = <<>>
  PROVE  ScheduleInv'
BY DEF ScheduleInv, Waiting, NormsLeft, Unfused, Baseline, Candidate, Config, NoTrial

LEMMA AbandonedKeeps ==
  ASSUME TuneInv, Abandoned
  PROVE  TuneInv'
<1>1. /\ phase' = "failed" /\ todo' = <<>> /\ tuning' = Resting
      /\ norms' = <<>> /\ fused' = <<>> /\ result' = NoResult
  BY DEF Abandoned
<1>2. ScheduleInv'
  BY <1>1 DEF ScheduleInv
<1>. QED
  BY <1>1, <1>2, RestKeepsWinner, FastestFrame DEF TuneInv

LEMMA StartGraphKeeps ==
  ASSUME AdviceInv, TuneInv, StartGraph
  PROVE  TuneInv'
<1>1. /\ phase' = "tuning" /\ todo' = Tasks /\ norms' = Kernels(program) /\ fused' = Choices(program)
      /\ UNCHANGED <<tuning, result>>
  BY DEF StartGraph, Guided
<1>2. WinnerInv' /\ FastestAdmittedIsChosen'
  BY <1>1, FastestFrame, KernelsFrame DEF TuneInv, WinnerInv
<1> DEFINE a == NormTasks
           b == FusionTasks
<1>3. /\ a \in Seq(AllTasks) /\ \A i \in DOMAIN a : a[i].tuner = "rmsnorm"
      /\ \A r \in RegionIds : \A k \in 1 .. program[r].norms : \E i \in DOMAIN a :
           a[i].tuner = "rmsnorm" /\ a[i].region = r /\ a[i].norm = k
  BY NormTasksFacts
<1>4. b \in Seq(AllTasks) /\ \A i \in DOMAIN b : b[i].tuner = "fusion"
  BY FusionTasksFacts
<1>5. todo' = a \o b
  BY <1>1 DEF Tasks
<1> HIDE DEF a, b
<1>6. /\ Len(a) \in Nat /\ Len(b) \in Nat /\ DOMAIN a = 1 .. Len(a) /\ DOMAIN b = 1 .. Len(b)
      /\ todo' \in Seq(AllTasks) /\ DOMAIN todo' = 1 .. Len(a) + Len(b)
      /\ \A i \in 1 .. Len(a) + Len(b) :
           todo'[i] = IF i <= Len(a) THEN a[i] ELSE b[i - Len(a)]
  BY <1>3, <1>4, <1>5
<1>7. \A i \in DOMAIN todo' : IF i <= Len(a) THEN todo'[i].tuner = "rmsnorm"
                              ELSE todo'[i].tuner = "fusion"
  <2> SUFFICES ASSUME NEW i \in DOMAIN todo'
               PROVE  IF i <= Len(a) THEN todo'[i].tuner = "rmsnorm"
                      ELSE todo'[i].tuner = "fusion"
    OBVIOUS
  <2>1. i \in 1 .. Len(a) + Len(b)
    BY <1>6
  <2>2. CASE i <= Len(a)
    <3>1. i \in DOMAIN a /\ todo'[i] = a[i]
      BY <1>6, <2>1, <2>2
    <3>. QED
      BY <1>3, <2>2, <3>1
  <2>3. CASE ~(i <= Len(a))
    <3>1. i - Len(a) \in DOMAIN b /\ todo'[i] = b[i - Len(a)]
      BY <1>6, <2>1, <2>3
    <3>. QED
      BY <1>4, <2>3, <3>1
  <2>. QED
    BY <2>2, <2>3
<1>8. \A i, j \in DOMAIN todo' : i < j /\ todo'[i].tuner = "fusion" => todo'[j].tuner # "rmsnorm"
  <2> SUFFICES ASSUME NEW i \in DOMAIN todo', NEW j \in DOMAIN todo', i < j,
                      todo'[i].tuner = "fusion"
               PROVE  todo'[j].tuner # "rmsnorm"
    OBVIOUS
  <2>1. ~(i <= Len(a))
    BY <1>7
  <2>2. ~(j <= Len(a))
    BY <1>6, <2>1
  <2>. QED
    BY <1>7, <2>2
<1>9. \A i \in DOMAIN todo' : todo'[i].tuner # "gemv"
  BY <1>7
<1>10. \A r \in DOMAIN norms' : \A k \in DOMAIN norms'[r] : Waiting(r, k)'
  <2> SUFFICES ASSUME NEW r \in DOMAIN norms', NEW k \in DOMAIN norms'[r]
               PROVE  Waiting(r, k)'
    OBVIOUS
  <2>1. r \in RegionIds /\ k \in 1 .. program[r].norms
    BY <1>1 DEF Kernels, RegionIds
  <2>2. PICK i \in DOMAIN a : a[i].tuner = "rmsnorm" /\ a[i].region = r /\ a[i].norm = k
    BY <1>3, <2>1
  <2>3. i \in DOMAIN todo' /\ todo'[i] = a[i]
    BY <1>6
  <2>. QED
    BY <2>2, <2>3 DEF Waiting
<1>11. \A r \in DOMAIN fused' : fused'[r] = Unfused
  BY <1>1 DEF Choices
<1>12. Unfused' = Unfused
  BY DEF Unfused, Baseline, Candidate, Config, NoTrial
<1>13. ScheduleInv'
  BY <1>1, <1>6, <1>8, <1>9, <1>10, <1>11, <1>12 DEF ScheduleInv
<1>. QED
  BY <1>2, <1>13 DEF TuneInv

LEMMA StartProductKeeps ==
  ASSUME TuneInv, NEW inputSize \in InputSizes, NEW prefill \in BOOLEAN,
         StartProduct(inputSize, prefill)
  PROVE  TuneInv'
<1> DEFINE t == GEMVTask(inputSize, prefill)
<1>1. /\ phase = "idle" /\ phase' = "tuning" /\ todo' = <<t>>
      /\ UNCHANGED <<tuning, norms, fused, result>>
  BY DEF StartProduct
<1>2. WinnerInv' /\ FastestAdmittedIsChosen'
  BY <1>1, FastestFrame, KernelsFrame DEF TuneInv, WinnerInv
<1>3. t \in AllTasks
  <2>1. GEMVConfigs[prefill] \in Seq(Configurations) /\ inputSize \in Nat
    BY TuningAssumption
  <2> DEFINE C == Seq(Configurations)
             c == GEMVConfigs[prefill]
  <2>2. c \in C
    BY <2>1
  <2>3. t = [tuner |-> "gemv", region |-> 0, norm |-> 0, candidates |-> c,
             inputSize |-> inputSize, prefill |-> prefill]
    <3> DEFINE plain == [tuner |-> "gemv", region |-> 0, norm |-> 0, candidates |-> c,
                         inputSize |-> 0, prefill |-> FALSE]
    <3>1. t = [plain EXCEPT !.inputSize = inputSize, !.prefill = prefill]
      BY DEF GEMVTask, Task
    <3> HIDE DEF c, t
    <3>. QED
      BY <3>1
  <2> HIDE DEF C, c, t
  <2>4. t \in [tuner : {"rmsnorm", "fusion", "gemv"}, region : Nat, norm : Nat,
               candidates : C, inputSize : Nat, prefill : BOOLEAN]
    BY <2>1, <2>2, <2>3
  <2>. QED
    BY <2>4 DEF AllTasks, C
<1> HIDE DEF t
<1>4. todo' \in Seq(AllTasks) /\ Len(todo') = 1 /\ DOMAIN todo' = {1}
  BY <1>1, <1>3
<1>5. norms' = <<>> /\ fused' = <<>>
  BY <1>1 DEF TuneInv, ScheduleInv
<1>6. DOMAIN norms' = {} /\ DOMAIN fused' = {}
  BY <1>5
<1>7. ScheduleInv'
  BY <1>1, <1>4, <1>5, <1>6 DEF ScheduleInv
<1>. QED
  BY <1>2, <1>7 DEF TuneInv

LEMMA TodoFacts ==
  ASSUME ScheduleInv, todo # <<>>
  PROVE  /\ task \in AllTasks /\ 1 \in DOMAIN todo /\ todo[1] = task
         /\ Len(todo) \in Nat /\ DOMAIN todo = 1 .. Len(todo)
         /\ Tail(todo) \in Seq(AllTasks) /\ Len(Tail(todo)) \in Nat
         /\ Len(Tail(todo)) = Len(todo) - 1 /\ DOMAIN Tail(todo) = 1 .. Len(Tail(todo))
         /\ \A i \in DOMAIN Tail(todo) : i + 1 \in DOMAIN todo /\ Tail(todo)[i] = todo[i + 1]
<1>1. todo \in Seq(AllTasks)
  BY DEF ScheduleInv
<1> DEFINE W == AllTasks
<1> HIDE DEF W
<1>2. todo \in Seq(W)
  BY <1>1 DEF W
<1>3. Len(todo) \in Nat /\ Len(todo) # 0 /\ DOMAIN todo = 1 .. Len(todo) /\ todo[1] = task /\ todo[1] \in W
  BY <1>2 DEF task
<1>4. /\ Tail(todo) \in Seq(W) /\ Len(Tail(todo)) = Len(todo) - 1
      /\ \A i \in 1 .. Len(todo) - 1 : Tail(todo)[i] = todo[i + 1]
  BY <1>2
<1>5. DOMAIN Tail(todo) = 1 .. Len(todo) - 1 /\ 1 \in DOMAIN todo /\ Len(todo) - 1 \in Nat
  BY <1>3, <1>4
<1>6. \A i \in 1 .. Len(todo) - 1 : i + 1 \in 1 .. Len(todo)
  BY <1>3
<1>. QED
  BY <1>3, <1>4, <1>5, <1>6 DEF W

\* The next task is taken up once the norm or the region of the first is settled.
LEMMA NextTask ==
  ASSUME ScheduleInv, todo # <<>>, todo' = Tail(todo), phase' \in {"tuning", "compiled"},
         phase' # "tuning" => Tail(todo) = <<>>,
         \A r \in DOMAIN norms' : \A k \in DOMAIN norms'[r] :
           \/ norms'[r][k].right
           \/ Waiting(r, k) /\ ~(task.tuner = "rmsnorm" /\ task.region = r /\ task.norm = k),
         \A r \in DOMAIN fused' : fused'[r] # Unfused => fused'[r].beat = norms'[r] /\ ~NormsLeft
  PROVE  ScheduleInv'
<1> DEFINE t == Tail(todo)
<1>1. /\ 1 \in DOMAIN todo /\ todo[1] = task
      /\ Len(todo) \in Nat /\ DOMAIN todo = 1 .. Len(todo)
      /\ t \in Seq(AllTasks) /\ Len(t) \in Nat /\ Len(t) = Len(todo) - 1 /\ DOMAIN t = 1 .. Len(t)
      /\ \A i \in DOMAIN t : i + 1 \in DOMAIN todo /\ t[i] = todo[i + 1]
  BY TodoFacts
<1> HIDE DEF t
<1>2. todo' = t
  BY DEF t
<1>3. ASSUME NEW i \in DOMAIN t PROVE t[i].tuner # "gemv"
  <2>1. i + 1 \in DOMAIN todo /\ t[i] = todo[i + 1] /\ Len(todo) # 1
    BY <1>1, <1>3
  <2>. QED
    BY <2>1 DEF ScheduleInv
<1>4. ASSUME NEW i \in DOMAIN t, NEW j \in DOMAIN t, i < j, t[i].tuner = "fusion"
      PROVE  t[j].tuner # "rmsnorm"
  <2>1. /\ i + 1 \in DOMAIN todo /\ t[i] = todo[i + 1]
        /\ j + 1 \in DOMAIN todo /\ t[j] = todo[j + 1] /\ i + 1 < j + 1
    BY <1>1, <1>4
  <2>. QED
    BY <1>4, <2>1 DEF ScheduleInv
<1>5. ASSUME NEW r, NEW k, Waiting(r, k),
             ~(task.tuner = "rmsnorm" /\ task.region = r /\ task.norm = k)
      PROVE  Waiting(r, k)'
  <2>1. PICK i \in DOMAIN todo : todo[i].tuner = "rmsnorm" /\ todo[i].region = r /\ todo[i].norm = k
    BY <1>5 DEF Waiting
  <2>2. i # 1
    BY <1>1, <1>5, <2>1
  <2>3. i - 1 \in DOMAIN t /\ (i - 1) + 1 = i
    BY <1>1, <2>1, <2>2
  <2>4. t[i - 1] = todo[i]
    BY <1>1, <2>3
  <2>. QED
    BY <1>2, <2>1, <2>3, <2>4 DEF Waiting
<1>6. ~NormsLeft => ~NormsLeft'
  BY <1>1, <1>2 DEF NormsLeft
<1>7. Unfused' = Unfused
  BY DEF Unfused, Baseline, Candidate, Config, NoTrial
<1>8. \A r \in DOMAIN norms' : \A k \in DOMAIN norms'[r] : norms'[r][k].right \/ Waiting(r, k)'
  BY <1>5
<1>9. \A r \in DOMAIN fused' : fused'[r] # Unfused' => fused'[r].beat = norms'[r] /\ ~NormsLeft'
  BY <1>6, <1>7
<1>10. phase' # "tuning" => t = <<>>
  BY DEF t
<1>. QED
  BY <1>1, <1>2, <1>3, <1>4, <1>8, <1>9, <1>10 DEF ScheduleInv

LEMMA BaselineReadyKeeps ==
  ASSUME TuneInv, NEW timed \in BOOLEAN, BaselineReady(timed)
  PROVE  TuneInv'
<1>1. /\ todo # <<>> /\ phase = "tuning" /\ phase' = phase /\ result' = NoResult
      /\ UNCHANGED <<todo, norms, fused>>
      /\ tuning' = [Resting EXCEPT !.step = "candidates", !.left = task.candidates, !.timed = timed]
  BY DEF BaselineReady, Tuning, adviceVars
<1>2. ScheduleInv'
  BY <1>1, ScheduleFrame DEF TuneInv
<1>3. task.candidates \in Seq(Configurations)
  <2>1. task \in AllTasks
    BY <1>1, TodoFacts DEF TuneInv
  <2>. QED
    BY <2>1 DEF AllTasks
<1>4. tuning' = [step |-> "candidates", left |-> task.candidates, timed |-> timed,
                 winner |-> Baseline, admitted |-> <<>>]
  <2> DEFINE c == task.candidates
  <2> HIDE DEF c
  <2>1. tuning' = [Resting EXCEPT !.step = "candidates", !.left = c, !.timed = timed]
    BY <1>1 DEF c
  <2>2. tuning' = [step |-> "candidates", left |-> c, timed |-> timed,
                   winner |-> Baseline, admitted |-> <<>>]
    BY ONLY <2>1 DEF Resting
  <2>. QED
    BY <2>2 DEF c
<1>5. WinnerInv'
  <2> DEFINE c == task.candidates
  <2> HIDE DEF c
  <2>1. c \in Seq(Configurations)
    BY <1>3 DEF c
  <2>2. tuning' = [step |-> "candidates", left |-> c, timed |-> timed,
                   winner |-> Baseline, admitted |-> <<>>]
    BY <1>4 DEF c
  <2>. QED
    BY <2>1, <2>2, RestingWinner
<1>. QED
  BY <1>1, <1>2, <1>5, FastestFrame DEF TuneInv

LEMMA RejectKeeps ==
  ASSUME TuneInv, Reject
  PROVE  TuneInv'
<1>1. /\ phase = "tuning" /\ phase' = phase /\ todo # <<>> /\ result' = result
      /\ UNCHANGED <<todo, norms, fused>> /\ tuning.left # <<>>
      /\ tuning' = [tuning EXCEPT !.left = Tail(@)]
  BY DEF Reject, Tuning, adviceVars
<1>2. ScheduleInv' /\ FastestAdmittedIsChosen'
  BY <1>1, ScheduleFrame, FastestFrame DEF TuneInv
<1> DEFINE A == Seq(AdmittedKernels)
           C == Seq(Configurations)
           W == AdmittedKernels \cup {Baseline}
<1>3. tuning \in [step : {"rest", "candidates"}, left : C, timed : BOOLEAN, winner : W, admitted : A]
  BY DEF TuneInv, WinnerInv
<1>4. Tail(tuning.left) \in C
  BY <1>1, <1>3
<1> HIDE DEF A, C, W
<1>5. /\ tuning' \in [step : {"rest", "candidates"}, left : C, timed : BOOLEAN, winner : W, admitted : A]
      /\ tuning'.winner = tuning.winner /\ tuning'.admitted = tuning.admitted
  BY ONLY <1>1, <1>3, <1>4
<1>6. WinnerInv'
  BY <1>5, KernelsFrame DEF TuneInv, WinnerInv, A, C, W
<1>. QED
  BY <1>2, <1>6 DEF TuneInv

LEMMA AdmitKeeps ==
  ASSUME TuneInv, NEW trial \in Trials, Admit(trial)
  PROVE  TuneInv'
<1> DEFINE c == Candidate(Head(tuning.left), trial)
<1>1. /\ phase = "tuning" /\ phase' = phase /\ todo # <<>> /\ result' = result
      /\ UNCHANGED <<todo, norms, fused>> /\ tuning.left # <<>>
      /\ tuning' = [tuning EXCEPT !.left = Tail(@), !.admitted = Append(@, c),
                                  !.winner = Better(@, c)]
  BY DEF Admit, Tuning, adviceVars
<1>2. ScheduleInv' /\ FastestAdmittedIsChosen'
  BY <1>1, ScheduleFrame, FastestFrame DEF TuneInv
<1>3. c \in AdmittedKernels
  <2>1. tuning.left \in Seq(Configurations)
    BY DEF TuneInv, WinnerInv
  <2>2. Head(tuning.left) \in Configurations
    BY <1>1, <2>1, HeadTailProperties
  <2> DEFINE h == Head(tuning.left)
  <2> HIDE DEF h
  <2>3. Candidate(h, trial) \in AdmittedKernels
    BY <2>2 DEF Candidate, AdmittedKernels, h
  <2>. QED
    BY <2>3 DEF h
<1> HIDE DEF c
<1>4. WinnerInv'
  BY <1>1, <1>3, AdmitKeepsWinner DEF TuneInv
<1>. QED
  BY <1>2, <1>4 DEF TuneInv

\* The winner is what a tuner that keeps one may return.
LEMMA WinnerIsFastest ==
  ASSUME WinnerInv
  PROVE  \/ tuning.winner = Baseline /\ tuning.admitted = <<>>
         \/ Tops(tuning.winner) /\ tuning.winner # Baseline
<1>1. CASE tuning.admitted = <<>>
  BY <1>1 DEF WinnerInv
<1>2. CASE tuning.admitted # <<>>
  <2>1. Tops(tuning.winner)
    BY <1>2 DEF WinnerInv, Tops
  <2>. QED
    BY <2>1, TopIsFastest
<1>. QED
  BY <1>1, <1>2

\* The norm is right now; a region that is fused already has none left.
LEMMA SelectNormKeeps ==
  ASSUME TuneInv, NEW runs \in BOOLEAN \X BOOLEAN, SelectNorm(runs)
  PROVE  TuneInv'
<1> DEFINE chosen == Settled(tuning.winner, runs)
           ran == RanRight(runs)
           wrong == RanWrong(runs)
           kernel == [chosen |-> chosen, right |-> chosen \in ran]
           a == task.region
           b == task.norm
<1>1. /\ phase = "tuning" /\ phase' = phase /\ todo # <<>> /\ task.tuner = "rmsnorm" /\ ran # {}
      /\ norms' = [norms EXCEPT ![a][b] = kernel]
      /\ result' = [tuner |-> task.tuner, chosen |-> chosen, admitted |-> tuning.admitted,
                    rejected |-> wrong]
      /\ todo' = Tail(todo) /\ tuning' = Resting /\ fused' = fused
  BY DEF SelectNorm, Judged, Tuning, Returned, adviceVars
<1>2. WinnerInv /\ ScheduleInv
  BY DEF TuneInv
<1>3. chosen \in ran
  BY <1>1 DEF Settled, RanRight
<1>4. /\ chosen \notin wrong
      /\ \/ chosen = Baseline /\ tuning.admitted = <<>>
         \/ chosen = Baseline /\ \E winner \in wrong : Tops(winner)
         \/ Tops(chosen)
  <2>1. CASE runs[1]
    <3>1. chosen = tuning.winner /\ wrong = {}
      BY <2>1 DEF Settled, RanWrong
    <3> HIDE DEF chosen, wrong
    <3>. QED
      BY <1>2, <3>1, WinnerIsFastest
  <2>2. CASE ~runs[1]
    <3>1. chosen = Baseline /\ wrong = {tuning.winner} /\ tuning.winner # Baseline
      BY <1>1, <2>2 DEF Settled, RanRight, RanWrong
    <3> HIDE DEF chosen, wrong
    <3>. QED
      BY <1>2, <3>1, WinnerIsFastest
  <2>. QED
    BY <2>1, <2>2
<1>5. kernel.right
  BY <1>3
<1> HIDE DEF chosen, ran, wrong, kernel, a, b
<1>6. FastestAdmittedIsChosen'
  BY <1>1, <1>2, <1>4, ReturnedIsFastest
<1>7. ASSUME NEW r \in DOMAIN norms', NEW k \in DOMAIN norms'[r]
      PROVE  \/ norms'[r][k].right
             \/ Waiting(r, k) /\ ~(task.tuner = "rmsnorm" /\ a = r /\ b = k)
  <2>1. r \in DOMAIN norms /\ k \in DOMAIN norms[r]
    BY <1>1, <1>7
  <2>2. CASE r = a /\ k = b
    BY <1>1, <1>5, <2>1, <2>2
  <2>3. CASE ~(r = a /\ k = b)
    <3>1. norms'[r][k] = norms[r][k]
      BY <1>1, <2>1, <2>3
    <3>2. norms[r][k].right \/ Waiting(r, k)
      BY <1>2, <2>1 DEF ScheduleInv
    <3>. QED
      BY <2>3, <3>1, <3>2
  <2>. QED
    BY <2>2, <2>3
<1>8. NormsLeft
  BY <1>1, <1>2, TodoFacts DEF NormsLeft
<1>9. \A r \in DOMAIN fused' : fused'[r] = Unfused
  BY <1>1, <1>2, <1>8 DEF ScheduleInv
<1>10. ScheduleInv'
  BY <1>1, <1>2, <1>7, <1>9, NextTask DEF a, b
<1>. QED
  BY <1>1, <1>6, <1>10, RestKeepsWinner DEF TuneInv

\* Measured against the norms of its region, none of which is left to tune.
LEMMA SelectFusionKeeps ==
  ASSUME TuneInv, SelectFusion
  PROVE  TuneInv'
<1> DEFINE chosen == IF tuning.admitted = <<>> THEN Baseline ELSE max_element(tuning.admitted)
           a == task.region
           kernel == IF chosen = Baseline THEN Unfused
                     ELSE [chosen |-> chosen, beat |-> norms[a]]
<1>1. /\ phase = "tuning" /\ phase' = phase /\ todo # <<>> /\ task.tuner = "fusion"
      /\ fused' = [fused EXCEPT ![a] = kernel]
      /\ result' = [tuner |-> task.tuner, chosen |-> chosen, admitted |-> tuning.admitted,
                    rejected |-> {}]
      /\ todo' = Tail(todo) /\ tuning' = Resting /\ norms' = norms
  BY DEF SelectFusion, Judged, Tuning, Returned, adviceVars
<1>2. WinnerInv /\ ScheduleInv
  BY DEF TuneInv
<1>3. (chosen = Baseline /\ tuning.admitted = <<>>) \/ Tops(chosen)
  BY <1>2, MaxElementIsFastest DEF Tops
<1>4. kernel # Unfused => kernel.beat = norms[a]
  BY DEF kernel
<1> HIDE DEF chosen, kernel, a
<1>5. FastestAdmittedIsChosen'
  BY <1>1, <1>2, <1>3, ReturnedIsFastest
<1>6. ~NormsLeft
  <2> SUFFICES ASSUME NEW j \in DOMAIN todo, todo[j].tuner = "rmsnorm" PROVE FALSE
    BY DEF NormsLeft
  <2>1. /\ 1 \in DOMAIN todo /\ todo[1].tuner = "fusion"
        /\ Len(todo) \in Nat /\ DOMAIN todo = 1 .. Len(todo)
    BY <1>1, <1>2, TodoFacts
  <2>2. 1 < j
    BY <2>1
  <2>. QED
    BY <1>2, <2>1, <2>2 DEF ScheduleInv
<1>7. ASSUME NEW r \in DOMAIN fused', fused'[r] # Unfused
      PROVE  fused'[r].beat = norms'[r] /\ ~NormsLeft
  <2>1. r \in DOMAIN fused /\ fused'[r] = IF r = a THEN kernel ELSE fused[r]
    BY <1>1, <1>7
  <2>2. CASE r = a
    BY <1>1, <1>4, <1>6, <1>7, <2>1, <2>2
  <2>3. CASE r # a
    BY <1>1, <1>2, <1>6, <1>7, <2>1, <2>3 DEF ScheduleInv
  <2>. QED
    BY <2>2, <2>3
<1>8. \A r \in DOMAIN norms' : \A k \in DOMAIN norms'[r] :
           \/ norms'[r][k].right
           \/ Waiting(r, k) /\ ~(task.tuner = "rmsnorm" /\ task.region = r /\ task.norm = k)
  BY <1>1, <1>2 DEF ScheduleInv
<1>9. ScheduleInv'
  BY <1>1, <1>2, <1>7, <1>8, NextTask
<1>. QED
  BY <1>1, <1>5, <1>9, RestKeepsWinner DEF TuneInv

LEMMA SelectProductKeeps ==
  ASSUME TuneInv, SelectProduct
  PROVE  TuneInv'
<1>1. /\ phase' = "compiled" /\ todo # <<>> /\ task.tuner = "gemv"
      /\ result' = [tuner |-> task.tuner, chosen |-> tuning.winner, admitted |-> tuning.admitted,
                    rejected |-> {}]
      /\ todo' = Tail(todo) /\ tuning' = Resting /\ norms' = norms /\ fused' = fused
  BY DEF SelectProduct, Judged, Tuning, Returned
<1>2. WinnerInv /\ ScheduleInv
  BY DEF TuneInv
<1> DEFINE w == tuning.winner
<1>3. (w = Baseline /\ tuning.admitted = <<>>) \/ Tops(w)
  BY <1>2, WinnerIsFastest
<1>4. result' = [tuner |-> task.tuner, chosen |-> w, admitted |-> tuning.admitted, rejected |-> {}]
  BY <1>1
<1> HIDE DEF w
<1>5. FastestAdmittedIsChosen'
  BY <1>2, <1>3, <1>4, ReturnedIsFastest
<1>6. /\ Tail(todo) \in Seq(AllTasks) /\ Len(Tail(todo)) = 0 /\ norms = <<>> /\ fused = <<>>
  <2>1. 1 \in DOMAIN todo /\ todo[1].tuner = "gemv" /\ Len(Tail(todo)) = Len(todo) - 1
        /\ Tail(todo) \in Seq(AllTasks)
    BY <1>1, <1>2, TodoFacts
  <2>2. Len(todo) = 1 /\ norms = <<>> /\ fused = <<>>
    BY <1>2, <2>1 DEF ScheduleInv
  <2>. QED
    BY <2>1, <2>2
<1>7. Tail(todo) = <<>>
  BY <1>6, EmptySeq
<1>8. DOMAIN norms' = {} /\ DOMAIN fused' = {}
  BY <1>1, <1>6
<1>9. ScheduleInv'
  BY <1>1, <1>2, <1>7, <1>8, NextTask
<1>. QED
  BY <1>1, <1>5, <1>9, RestKeepsWinner DEF TuneInv

LEMMA AssembleKeeps ==
  ASSUME TuneInv, Assemble
  PROVE  TuneInv'
<1>1. CASE Abandoned
  BY <1>1, AbandonedKeeps
<1>2. CASE /\ phase' = "compiled" /\ result' = NoResult /\ todo = <<>> /\ phase = "tuning"
           /\ UNCHANGED <<todo, tuning, norms, fused>>
  <2>1. ScheduleInv'
    BY <1>2, ScheduleFrame DEF TuneInv
  <2>2. WinnerInv'
    BY <1>2, KernelsFrame DEF TuneInv, WinnerInv
  <2>. QED
    BY <1>2, <2>1, <2>2, FastestFrame DEF TuneInv
<1>. QED
  BY <1>1, <1>2 DEF Assemble

LEMMA DiscardKeeps ==
  ASSUME TuneInv, Discard
  PROVE  TuneInv'
<1>1. /\ phase \in {"compiled", "failed"} /\ phase' = "idle" /\ norms' = <<>> /\ fused' = <<>>
      /\ result' = NoResult /\ UNCHANGED <<todo, tuning>>
  BY DEF Discard, Return
<1>2. todo' = <<>>
  BY <1>1 DEF TuneInv, ScheduleInv
<1>3. ScheduleInv'
  BY <1>1, <1>2 DEF ScheduleInv
<1>4. WinnerInv'
  BY <1>1, KernelsFrame DEF TuneInv, WinnerInv
<1>. QED
  BY <1>1, <1>3, <1>4, FastestFrame DEF TuneInv

\* While the advice is read nothing is tuned.
LEMMA ConsultKeeps ==
  ASSUME TuneInv, Consult
  PROVE  TuneInv'
<1>1. UNCHANGED <<todo, tuning, norms, fused, result>>
  BY DEF Consult, tuningVars
<1>2. phase \notin {"tuning", "compiled"} /\ phase' \notin {"tuning", "compiled"}
  BY DEF Consult, Export, Advise, LoadAdvice, ConsiderHint
<1>3. todo = <<>> /\ norms = <<>> /\ fused = <<>>
  BY <1>2 DEF TuneInv, ScheduleInv
<1>4. ScheduleInv'
  BY <1>1, <1>3, ScheduleFrame DEF TuneInv
<1>5. WinnerInv'
  BY <1>1, KernelsFrame DEF TuneInv, WinnerInv
<1>. QED
  BY <1>1, <1>4, <1>5, FastestFrame DEF TuneInv

LEMMA TuneInvNext ==
  ASSUME AdviceInv, TuneInv, [Next]_vars
  PROVE  TuneInv'
<1>1. CASE Consult
  BY <1>1, ConsultKeeps
<1>2. CASE StartGraph
  BY <1>2, StartGraphKeeps
<1>3. ASSUME NEW inputSize \in InputSizes, NEW prefill \in BOOLEAN,
             StartProduct(inputSize, prefill)
      PROVE  TuneInv'
  BY <1>3, StartProductKeeps
<1>4. CASE BaselineFails
  BY <1>4, AbandonedKeeps DEF BaselineFails
<1>5. ASSUME NEW timed \in BOOLEAN, BaselineReady(timed) PROVE TuneInv'
  BY <1>5, BaselineReadyKeeps
<1>6. CASE Reject
  BY <1>6, RejectKeeps
<1>7. ASSUME NEW trial \in Trials, Admit(trial) PROVE TuneInv'
  BY <1>7, AdmitKeeps
<1>8. ASSUME NEW runs \in BOOLEAN \X BOOLEAN, SelectNorm(runs) PROVE TuneInv'
  BY <1>8, SelectNormKeeps
<1>9. CASE FinalRunFails
  BY <1>9, AbandonedKeeps DEF FinalRunFails
<1>10. CASE SelectFusion
  BY <1>10, SelectFusionKeeps
<1>11. CASE SelectProduct
  BY <1>11, SelectProductKeeps
<1>12. CASE Assemble
  BY <1>12, AssembleKeeps
<1>13. CASE Discard
  BY <1>13, DiscardKeeps
<1>14. CASE UNCHANGED vars
  <2>1. UNCHANGED <<phase, todo, tuning, norms, fused, result>>
    BY <1>14 DEF vars, adviceVars, tuningVars
  <2>2. WinnerInv'
    BY <2>1, KernelsFrame DEF TuneInv, WinnerInv
  <2>3. ScheduleInv'
    BY <2>1, ScheduleFrame DEF TuneInv, ScheduleInv
  <2>. QED
    BY <2>1, <2>2, <2>3, FastestFrame DEF TuneInv
<1>. QED
  BY <1>1, <1>2, <1>3, <1>4, <1>5, <1>6, <1>7, <1>8, <1>9, <1>10, <1>11, <1>12, <1>13, <1>14
     DEF Next

LEMMA TuneInvariance == Spec => [](AdviceInv /\ TuneInv)
<1>1. TInit => AdviceInv /\ TuneInv
  BY AdviceInvInit, TuneInvInit DEF TInit
<1>2. AdviceInv /\ TuneInv /\ [Next]_vars => (AdviceInv /\ TuneInv)'
  BY AdviceInvNext, TuneInvNext
<1>. QED
  BY <1>1, <1>2, PTL DEF Spec

\* A tuner returns the fastest of the kernels that it measured as faster than
\* what it falls back on in both rounds, and falls back only where it may.
THEOREM ChoosesFastest == Spec => []FastestAdmittedIsChosen
<1>1. TuneInv => FastestAdmittedIsChosen
  BY DEF TuneInv
<1>. QED
  BY <1>1, TuneInvariance, PTL

\* An executable is assembled when no task is left, so that every RMSNorm of it
\* has had the execution that compares it with the reference.
THEOREM NormsRanRight == Spec => []ChosenNormsRanRight
<1>1. TuneInv => ChosenNormsRanRight
  <2> SUFFICES ASSUME TuneInv, phase = "compiled", NEW r \in DOMAIN norms, NEW k \in DOMAIN norms[r]
               PROVE  norms[r][k].right
    BY DEF ChosenNormsRanRight
  <2>1. todo = <<>>
    BY DEF TuneInv, ScheduleInv
  <2>2. ~Waiting(r, k)
    BY <2>1 DEF Waiting
  <2>. QED
    BY <2>2 DEF TuneInv, ScheduleInv
<1>. QED
  BY <1>1, TuneInvariance, PTL

\* No RMSNorm is tuned after a fusion: in the executable a fused kernel stands
\* for the very kernels that it was faster than.
THEOREM FusionsReplaceWhatTheyBeat == Spec => []FusionReplacesWhatItBeat
<1>1. TuneInv => FusionReplacesWhatItBeat
  BY DEF TuneInv, ScheduleInv, FusionReplacesWhatItBeat
<1>. QED
  BY <1>1, TuneInvariance, PTL
=============================================================================
