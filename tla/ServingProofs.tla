---------------------------- MODULE ServingProofs ----------------------------
(***************************************************************************)
(* The serving loop delivers to each request the tokens it would get alone *)
(* and fails only with the device, for every number of requests and        *)
(* layers, every page size, pool, capacity and chunk size.                 *)
(***************************************************************************)
EXTENDS Serving, PagedKVProofs, FiniteSetTheorems, WellFoundedInduction

----------------------------------------------------------------------------
(* Induction, as facts about sets: the library's induction theorems take a *)
(* predicate as a parameter, but the least element of a set of numbers     *)
(* serves as well.                                                         *)

LEMMA LeastNumber ==
  ASSUME NEW T, T \subseteq Nat, T # {}
  PROVE  \E x \in T : \A y \in T : x <= y
<1> DEFINE L == OpToRel(<, Nat)
<1>1. IsWellFoundedOn(L, Nat)
  BY NatLessThanWellFounded
<1>2. \A x, y \in Nat : x < y => <<x, y>> \in L
  BY DEF OpToRel
<1> HIDE DEF L
<1>3. PICK x \in T : \A y \in T : ~(<<y, x>> \in L)
  BY <1>1, WFMin
<1>4. \A y \in T : ~(y < x)
  BY <1>2, <1>3
<1> QED BY <1>4

\* A set of numbers with 0 and the successor of each of its members is Nat.
LEMMA Induction ==
  ASSUME NEW S \in SUBSET Nat, 0 \in S, \A n \in S : n + 1 \in S
  PROVE  S = Nat
<1> SUFFICES ASSUME S # Nat
             PROVE  FALSE
  OBVIOUS
<1>1. PICK x \in Nat \ S : \A y \in Nat \ S : x <= y
  <2>1. Nat \ S # {}
    OBVIOUS
  <2> QED BY <2>1, LeastNumber
<1>2. x # 0 /\ x - 1 \in Nat
  OBVIOUS
<1>3. x - 1 \in S
  BY <1>1, <1>2
<1> QED BY <1>2, <1>3

----------------------------------------------------------------------------
(* Sums over finite sets.  SumFunctionOnSet is defined by recursion over   *)
(* the subsets; here it gets the equations one calculates with.            *)

Chosen(s) == CHOOSE x \in s : TRUE

SumStep(f, g, s) ==
  IF s = {} THEN 0 ELSE f[Chosen(s)] + g[s \ {Chosen(s)}]

\* g satisfies the recursion on the subsets of S.
SumsUp(f, g, S) == \A s \in SUBSET S : g[s] = SumStep(f, g, s)

\* The subsets of S of at most k elements.
Small(S, k) == {s \in SUBSET S : Cardinality(s) <= k}

LEMMA SmallerSubset ==
  ASSUME NEW S, IsFiniteSet(S), NEW s \in SUBSET S, s # {}
  PROVE  /\ Chosen(s) \in s
         /\ IsFiniteSet(s) /\ s \ {Chosen(s)} \in SUBSET S
         /\ Cardinality(s) \in Nat \ {0}
         /\ Cardinality(s \ {Chosen(s)}) = Cardinality(s) - 1
<1>1. Chosen(s) \in s
  BY DEF Chosen
<1>2. IsFiniteSet(s)
  BY FS_Subset
<1>3. Cardinality(s) \in Nat /\ Cardinality(s) # 0
  BY <1>2, FS_CardinalityType, FS_EmptySet
<1>4. Cardinality(s \ {Chosen(s)}) = Cardinality(s) - 1
  BY <1>1, <1>2, FS_RemoveElement
<1> QED BY <1>1, <1>2, <1>3, <1>4

\* There is a function that satisfies the recursion on all the subsets.
LEMMA SumExists ==
  ASSUME NEW f, NEW S, IsFiniteSet(S), \A x \in S : f[x] \in Int
  PROVE  \E g \in [SUBSET S -> Int] : \A s \in SUBSET S : g[s] = SumStep(f, g, s)
<1> DEFINE Fits(g, k) == /\ g \in [Small(S, k) -> Int]
                         /\ \A s \in Small(S, k) : g[s] = SumStep(f, g, s)
           I == {k \in Nat : \E g : Fits(g, k)}
<1>1. 0 \in I
  <2> DEFINE g == [s \in Small(S, 0) |-> 0]
  <2>1. ASSUME NEW s \in Small(S, 0)  PROVE s = {}
    <3>1. IsFiniteSet(s) /\ Cardinality(s) \in Nat /\ Cardinality(s) <= 0
      BY FS_Subset, FS_CardinalityType DEF Small
    <3> QED BY <3>1, FS_EmptySet
  <2>2. Fits(g, 0)
    BY <2>1 DEF SumStep
  <2> QED BY <2>2
<1>2. ASSUME NEW k \in I  PROVE k + 1 \in I
  <2>1. PICK g : Fits(g, k)
    OBVIOUS
  <2> DEFINE h == [s \in Small(S, k + 1) |-> SumStep(f, g, s)]
  <2>2. ASSUME NEW s \in Small(S, k + 1), s # {}
        PROVE  s \ {Chosen(s)} \in Small(S, k) /\ Chosen(s) \in S
    <3>1. s \in SUBSET S /\ Cardinality(s) <= k + 1
      BY DEF Small
    <3>2. /\ Chosen(s) \in s /\ s \ {Chosen(s)} \in SUBSET S
          /\ Cardinality(s) \in Nat \ {0}
          /\ Cardinality(s \ {Chosen(s)}) = Cardinality(s) - 1
      BY <2>2, <3>1, SmallerSubset
    <3>3. Cardinality(s \ {Chosen(s)}) <= k
      BY <3>1, <3>2
    <3> QED BY <3>1, <3>2, <3>3 DEF Small
  <2>3. Small(S, k) \subseteq Small(S, k + 1)
    <3> SUFFICES ASSUME NEW s \in Small(S, k)  PROVE s \in Small(S, k + 1)
      OBVIOUS
    <3>1. Cardinality(s) \in Nat /\ s \in SUBSET S /\ Cardinality(s) <= k
      BY FS_Subset, FS_CardinalityType DEF Small
    <3> QED BY <3>1 DEF Small
  <2>4. \A s \in Small(S, k) : h[s] = g[s]
    BY <2>1, <2>3
  <2>5. ASSUME NEW s \in Small(S, k + 1)
        PROVE  SumStep(f, g, s) \in Int /\ SumStep(f, h, s) = SumStep(f, g, s)
    <3>1. CASE s = {}
      BY <3>1 DEF SumStep
    <3>2. CASE s # {}
      <4>1. s \ {Chosen(s)} \in Small(S, k) /\ Chosen(s) \in S
        BY <2>2, <3>2
      <4>2. g[s \ {Chosen(s)}] \in Int /\ h[s \ {Chosen(s)}] = g[s \ {Chosen(s)}]
        BY <2>1, <2>4, <4>1
      <4> QED BY <3>2, <4>1, <4>2 DEF SumStep
    <3> QED BY <3>1, <3>2
  <2>6. Fits(h, k + 1)
    BY <2>5
  <2> HIDE DEF h
  <2> QED BY <2>6
<1>3. I = Nat
  <2> HIDE DEF I
  <2> SUFFICES I \subseteq Nat
    BY <1>1, <1>2, Induction
  <2> QED BY DEF I
<1>4. Cardinality(S) \in Nat
  BY FS_CardinalityType
<1>5. Small(S, Cardinality(S)) = SUBSET S
  BY FS_Subset DEF Small
<1>6. PICK g : Fits(g, Cardinality(S))
  BY <1>3, <1>4
<1> QED BY <1>5, <1>6

\* Two functions that satisfy it agree where both are defined.
LEMMA SumUnique ==
  ASSUME NEW f, NEW S, IsFiniteSet(S), NEW T \in SUBSET S, NEW g, NEW h,
         SumsUp(f, g, S), SumsUp(f, h, T)
  PROVE  g[T] = h[T]
<1> DEFINE I == {k \in Nat : \A s \in SUBSET T : Cardinality(s) <= k => g[s] = h[s]}
<1>1. IsFiniteSet(T) /\ \A s \in SUBSET T : Cardinality(s) \in Nat
  BY FS_Subset, FS_CardinalityType
<1>2. 0 \in I
  <2> SUFFICES ASSUME NEW s \in SUBSET T, Cardinality(s) <= 0  PROVE g[s] = h[s]
    OBVIOUS
  <2>1. s = {}
    BY <1>1, FS_Subset, FS_EmptySet
  <2> QED BY <2>1 DEF SumsUp, SumStep
<1>3. ASSUME NEW k \in I  PROVE k + 1 \in I
  <2> SUFFICES ASSUME NEW s \in SUBSET T, Cardinality(s) <= k + 1
               PROVE  g[s] = h[s]
    OBVIOUS
  <2>1. CASE s = {}
    BY <2>1 DEF SumsUp, SumStep
  <2>2. CASE s # {}
    <3>1. /\ s \ {Chosen(s)} \in SUBSET T
          /\ Cardinality(s) \in Nat \ {0}
          /\ Cardinality(s \ {Chosen(s)}) = Cardinality(s) - 1
      BY <1>1, <2>2, SmallerSubset
    <3>2. g[s \ {Chosen(s)}] = h[s \ {Chosen(s)}]
      BY <3>1
    <3>3. s \in SUBSET S /\ g[s] = SumStep(f, g, s) /\ h[s] = SumStep(f, h, s)
      BY DEF SumsUp
    <3> QED BY <2>2, <3>2, <3>3 DEF SumStep
  <2> QED BY <2>1, <2>2
<1>4. I = Nat
  <2> HIDE DEF I
  <2> SUFFICES I \subseteq Nat
    BY <1>2, <1>3, Induction
  <2> QED BY DEF I
<1> QED BY <1>1, <1>4

\* The sums of the subsets satisfy the recursion.
LEMMA SumFunctionExists ==
  ASSUME NEW f, NEW S, IsFiniteSet(S), \A x \in S : f[x] \in Int
  PROVE  \E g \in [SUBSET S -> Int] :
           \A s \in SUBSET S : /\ g[s] = SumFunctionOnSet(f, s)
                               /\ g[s] = SumStep(f, g, s)
<1>1. ASSUME NEW s \in SUBSET S
      PROVE  \E h : /\ h[s] = SumFunctionOnSet(f, s)
                    /\ \A t \in SUBSET s : h[t] = SumStep(f, h, t)
  <2> DEFINE h == CHOOSE k : k = [t \in SUBSET s |-> SumStep(f, k, t)]
  <2>1. h[s] = SumFunctionOnSet(f, s)
    BY DEF SumStep, Chosen, SumFunctionOnSet, FoldFunctionOnSet, MapThenFoldSet
  <2>2. PICK k \in [SUBSET s -> Int] : \A t \in SUBSET s : k[t] = SumStep(f, k, t)
    BY FS_Subset, SumExists
  <2>3. k = [t \in SUBSET s |-> SumStep(f, k, t)]
    BY <2>2
  <2>4. h = [t \in SUBSET s |-> SumStep(f, h, t)]
    BY <2>3
  <2> HIDE DEF h
  <2> QED BY <2>1, <2>4
<1>2. PICK g \in [SUBSET S -> Int] : \A s \in SUBSET S : g[s] = SumStep(f, g, s)
  BY SumExists
<1>3. ASSUME NEW s \in SUBSET S  PROVE g[s] = SumFunctionOnSet(f, s)
  <2>1. PICK h : /\ h[s] = SumFunctionOnSet(f, s)
                 /\ \A t \in SUBSET s : h[t] = SumStep(f, h, t)
    BY <1>1
  <2>2. SumsUp(f, g, S) /\ SumsUp(f, h, s)
    BY <1>2, <2>1 DEF SumsUp
  <2>3. g[s] = h[s]
    BY <2>2, SumUnique
  <2> QED BY <2>1, <2>3
<1> QED BY <1>2, <1>3

LEMMA SumType ==
  ASSUME NEW f, NEW S, IsFiniteSet(S), \A x \in S : f[x] \in Int
  PROVE  SumFunctionOnSet(f, S) \in Int
<1>1. PICK g \in [SUBSET S -> Int] :
        \A s \in SUBSET S : /\ g[s] = SumFunctionOnSet(f, s)
                            /\ g[s] = SumStep(f, g, s)
  BY SumFunctionExists
<1> QED BY <1>1

LEMMA SumOfNone ==
  ASSUME NEW f
  PROVE  SumFunctionOnSet(f, {}) = 0
<1>1. PICK g \in [SUBSET {} -> Int] :
        \A s \in SUBSET {} : /\ g[s] = SumFunctionOnSet(f, s)
                             /\ g[s] = SumStep(f, g, s)
  BY FS_EmptySet, SumFunctionExists
<1> QED BY <1>1 DEF SumStep

\* Any element may be taken out first.
LEMMA SumTakeOut ==
  ASSUME NEW f, NEW S, IsFiniteSet(S), \A x \in S : f[x] \in Int, NEW y \in S
  PROVE  SumFunctionOnSet(f, S) = f[y] + SumFunctionOnSet(f, S \ {y})
<1> DEFINE Good(s) == \A x \in s : SumFunctionOnSet(f, s)
                                     = f[x] + SumFunctionOnSet(f, s \ {x})
           I == {k \in Nat : \A s \in SUBSET S : Cardinality(s) <= k => Good(s)}
<1>1. PICK g \in [SUBSET S -> Int] :
        \A s \in SUBSET S : /\ g[s] = SumFunctionOnSet(f, s)
                            /\ g[s] = SumStep(f, g, s)
  BY SumFunctionExists
<1>2. \A s \in SUBSET S : IsFiniteSet(s) /\ Cardinality(s) \in Nat
  BY FS_Subset, FS_CardinalityType
<1>3. 0 \in I
  <2> SUFFICES ASSUME NEW s \in SUBSET S, Cardinality(s) <= 0  PROVE Good(s)
    OBVIOUS
  <2>1. s = {}
    BY <1>2, FS_EmptySet
  <2> QED BY <2>1
<1>4. ASSUME NEW k \in I  PROVE k + 1 \in I
  <2> SUFFICES ASSUME NEW s \in SUBSET S, Cardinality(s) <= k + 1, NEW x \in s
               PROVE  g[s] = f[x] + g[s \ {x}]
    BY <1>1
  <2> DEFINE c == Chosen(s)
  <2>1. /\ c \in s /\ IsFiniteSet(s)
        /\ Cardinality(s) \in Nat \ {0}
        /\ Cardinality(s \ {c}) = Cardinality(s) - 1
    BY SmallerSubset
  <2>2. g[s] = f[c] + g[s \ {c}]
    BY <1>1 DEF SumStep
  <2> HIDE DEF c
  <2>3. CASE x = c
    BY <2>2, <2>3
  <2>4. CASE x # c
    <3>1. Cardinality(s \ {x}) = Cardinality(s) - 1
      BY <2>1, FS_RemoveElement
    <3>2. Good(s \ {c}) /\ Good(s \ {x})
      BY <2>1, <3>1
    <3>3. (s \ {c}) \ {x} = (s \ {x}) \ {c}
      OBVIOUS
    <3>4. /\ s \ {c} \in SUBSET S /\ s \ {x} \in SUBSET S
          /\ (s \ {c}) \ {x} \in SUBSET S
          /\ x \in s \ {c} /\ c \in s \ {x}
      BY <2>1, <2>4
    <3>5. /\ g[s \ {c}] = f[x] + g[(s \ {c}) \ {x}]
          /\ g[s \ {x}] = f[c] + g[(s \ {x}) \ {c}]
      BY ZenonT(60), <1>1, <3>2, <3>4
    <3>6. f[x] \in Int /\ f[c] \in Int /\ g[(s \ {c}) \ {x}] \in Int
      BY <1>1, <2>1
    <3>7. g[(s \ {c}) \ {x}] = g[(s \ {x}) \ {c}]
      BY <3>3
    <3> QED BY <2>2, <3>5, <3>6, <3>7
  <2> QED BY <2>3, <2>4
<1>5. I = Nat
  <2> HIDE DEF I
  <2> SUFFICES I \subseteq Nat
    BY <1>3, <1>4, Induction
  <2> QED BY DEF I
<1> QED BY <1>2, <1>5

\* Sums grow with their terms.
LEMMA SumMonotone ==
  ASSUME NEW f, NEW g, NEW S, IsFiniteSet(S),
         \A x \in S : f[x] \in Int /\ g[x] \in Int /\ f[x] <= g[x]
  PROVE  SumFunctionOnSet(f, S) <= SumFunctionOnSet(g, S)
<1> DEFINE Good(s) == SumFunctionOnSet(f, s) <= SumFunctionOnSet(g, s)
           I == {k \in Nat : \A s \in SUBSET S : Cardinality(s) <= k => Good(s)}
<1>1. \A s \in SUBSET S : IsFiniteSet(s) /\ Cardinality(s) \in Nat
  BY FS_Subset, FS_CardinalityType
<1>2. 0 \in I
  <2> SUFFICES ASSUME NEW s \in SUBSET S, Cardinality(s) <= 0  PROVE Good(s)
    OBVIOUS
  <2>1. s = {}
    BY <1>1, FS_EmptySet
  <2> QED BY <2>1, SumOfNone
<1>3. ASSUME NEW k \in I  PROVE k + 1 \in I
  <2> SUFFICES ASSUME NEW s \in SUBSET S, Cardinality(s) <= k + 1  PROVE Good(s)
    OBVIOUS
  <2>1. CASE s = {}
    BY <2>1, SumOfNone
  <2>2. CASE s # {}
    <3> DEFINE c == Chosen(s)
               t == s \ {c}
    <3>1. /\ c \in s /\ IsFiniteSet(s) /\ t \in SUBSET S
          /\ Cardinality(s) \in Nat \ {0} /\ Cardinality(t) = Cardinality(s) - 1
      BY <2>2, SmallerSubset
    <3> HIDE DEF c
    <3>2. /\ SumFunctionOnSet(f, s) = f[c] + SumFunctionOnSet(f, t)
          /\ SumFunctionOnSet(g, s) = g[c] + SumFunctionOnSet(g, t)
      BY <3>1, SumTakeOut
    <3> HIDE DEF t
    <3>3. /\ SumFunctionOnSet(f, t) \in Int /\ SumFunctionOnSet(g, t) \in Int
      BY <1>1, <3>1, SumType
    <3>4. Good(t)
      BY <3>1
    <3>5. f[c] \in Int /\ g[c] \in Int /\ f[c] <= g[c]
      BY <3>1
    <3> QED BY <3>2, <3>3, <3>4, <3>5
  <2> QED BY <2>1, <2>2
<1>4. I = Nat
  <2> HIDE DEF I
  <2> SUFFICES I \subseteq Nat
    BY <1>2, <1>3, Induction
  <2> QED BY DEF I
<1> QED BY <1>1, <1>4

\* Only the terms at the elements of the set count.
LEMMA SumOfEqual ==
  ASSUME NEW f, NEW g, NEW S, IsFiniteSet(S),
         \A x \in S : f[x] \in Int /\ g[x] = f[x]
  PROVE  SumFunctionOnSet(g, S) = SumFunctionOnSet(f, S)
<1>1. /\ SumFunctionOnSet(f, S) <= SumFunctionOnSet(g, S)
      /\ SumFunctionOnSet(g, S) <= SumFunctionOnSet(f, S)
  BY SumMonotone
<1>2. /\ SumFunctionOnSet(f, S) \in Int
      /\ SumFunctionOnSet(g, S) \in Int
  BY SumType
<1> QED BY <1>1, <1>2

\* When one term changes, the sum changes by as much.
LEMMA SumOfUpdated ==
  ASSUME NEW f, NEW g, NEW S, IsFiniteSet(S), NEW y \in S,
         \A x \in S : f[x] \in Int /\ g[x] \in Int,
         \A x \in S \ {y} : g[x] = f[x]
  PROVE  SumFunctionOnSet(g, S) = SumFunctionOnSet(f, S) + (g[y] - f[y])
<1>1. IsFiniteSet(S \ {y})
  BY FS_RemoveElement
<1>2. /\ SumFunctionOnSet(f, S) = f[y] + SumFunctionOnSet(f, S \ {y})
      /\ SumFunctionOnSet(g, S) = g[y] + SumFunctionOnSet(g, S \ {y})
  BY SumTakeOut
<1>3. SumFunctionOnSet(g, S \ {y}) = SumFunctionOnSet(f, S \ {y})
  BY <1>1, SumOfEqual
<1>4. SumFunctionOnSet(f, S \ {y}) \in Int
  BY <1>1, SumType
<1> QED BY <1>2, <1>3, <1>4

LEMMA SumOfZeros ==
  ASSUME NEW f, NEW S, IsFiniteSet(S), \A x \in S : f[x] = 0
  PROVE  SumFunctionOnSet(f, S) = 0
<1> DEFINE Good(s) == SumFunctionOnSet(f, s) = 0
           I == {k \in Nat : \A s \in SUBSET S : Cardinality(s) <= k => Good(s)}
<1>1. \A s \in SUBSET S : IsFiniteSet(s) /\ Cardinality(s) \in Nat
  BY FS_Subset, FS_CardinalityType
<1>2. 0 \in I
  <2> SUFFICES ASSUME NEW s \in SUBSET S, Cardinality(s) <= 0  PROVE Good(s)
    OBVIOUS
  <2>1. s = {}
    BY <1>1, FS_EmptySet
  <2> QED BY <2>1, SumOfNone
<1>3. ASSUME NEW k \in I  PROVE k + 1 \in I
  <2> SUFFICES ASSUME NEW s \in SUBSET S, Cardinality(s) <= k + 1  PROVE Good(s)
    OBVIOUS
  <2>1. CASE s = {}
    BY <2>1, SumOfNone
  <2>2. CASE s # {}
    <3> DEFINE c == Chosen(s)
               t == s \ {c}
    <3>1. /\ c \in s /\ IsFiniteSet(s) /\ t \in SUBSET S
          /\ Cardinality(s) \in Nat \ {0} /\ Cardinality(t) = Cardinality(s) - 1
      BY <2>2, SmallerSubset
    <3> HIDE DEF c
    <3>2. SumFunctionOnSet(f, s) = f[c] + SumFunctionOnSet(f, t)
      BY <3>1, SumTakeOut
    <3> HIDE DEF t
    <3>3. Good(t)
      BY <3>1
    <3> QED BY <3>1, <3>2, <3>3
  <2> QED BY <2>1, <2>2
<1>4. I = Nat
  <2> HIDE DEF I
  <2> SUFFICES I \subseteq Nat
    BY <1>2, <1>3, Induction
  <2> QED BY DEF I
<1> QED BY <1>1, <1>4

----------------------------------------------------------------------------
(* The inductive invariant.  First what concerns the requests one by one.  *)

Types ==
  /\ specs \in [Requests -> RequestSpecs]
  /\ pools \in [Layers -> PoolType]
  /\ kv \in [Requests -> [Layers -> StateType]]
  /\ cells \in [Layers -> [Slots -> Tokens \cup {NoRow}]]
  /\ state \in [Requests -> {"Waiting", "Decode", "Preempted", "Finished"}]
  /\ snapshot = [r \in Requests |-> snapshot[r]]
  /\ \A r \in Requests : snapshot[r].length \in 0 .. Capacity
  /\ generated \in [Requests -> Seq(Tokens)]
  /\ batch.active \subseteq Requests
  /\ tick \in 0 .. TickLimit /\ progress \in BOOLEAN
  /\ pc \in {"resume", "prefill", "chunk", "preempt", "stage", "decode",
            "commit", "audit", "passed", "failed"}
  /\ cursor \in 1 .. N + 1
  /\ metrics \in [preemptions : Nat, resumes : Nat, batch : 0 .. N]

\* The request has the pages of its next token already.
Ahead(r) ==
  /\ state[r] = "Decode"
  /\ \/ pc = "stage" /\ r < cursor
     \/ pc = "decode"
     \/ Pending(r)

Covered(r) == IF Ahead(r) THEN Length(r) + 1 ELSE Length(r)

\* How many rows of the request are stored.
StoredRows(r) == IF Pending(r) THEN Length(r) + 1 ELSE Length(r)

Prefilling(r) == pc = "chunk" /\ r = cursor

\* The layers hold the same length in as many pages.
LayersAgree(r) ==
  \A l \in Layers : /\ kv[r][l].length = Length(r)
                     /\ Len(kv[r][l].table) = PagesFor(Covered(r))

OwnRows(r) ==
  \A l \in Layers : \A q \in 0 .. StoredRows(r) - 1 :
    cells[l][SlotOf(kv[r][l].table, q)] = Token(r, q)

OwnTokens(r) ==
  \A i \in 1 .. Len(generated[r]) :
    generated[r][i] = Token(r, specs[r].prompt + i - 1)

OwnSnapshot(r) ==
  /\ snapshot[r].length = specs[r].prompt + Len(generated[r]) - 1
  /\ \A l \in Layers :
       snapshot[r].rows[l] = [q \in 0 .. snapshot[r].length - 1 |-> Token(r, q)]

\* How far each state of a request is.
Stands(r) ==
  LET n == Len(generated[r])
  IN  /\ state[r] = "Waiting" => n = 0 /\ (Length(r) = 0 \/ Prefilling(r))
      /\ Prefilling(r) => /\ state[r] = "Waiting"
                          /\ Length(r) \in 1 .. specs[r].prompt - 1
      /\ state[r] = "Decode" => /\ n \in 1 .. specs[r].decode
                                /\ Length(r) = specs[r].prompt + n - 1
      /\ state[r] = "Preempted" => n \in 1 .. specs[r].decode /\ Length(r) = 0
      /\ state[r] = "Finished" => n = specs[r].decode + 1 /\ Length(r) = 0

OwnSample(r) ==
  Pending(r) => state[r] = "Decode" /\ Sampled(r) = Token(r, Length(r) + 1)

RequestInv(r) ==
  LayersAgree(r) /\ OwnRows(r) /\ OwnTokens(r) /\ Stands(r) /\ OwnSample(r)

PoolsSound == \A l \in Layers : Sound(pools[l], Tables(l), Requests)

\* A call that has failed leaves its variables as they were.
IInv ==
  /\ Types
  /\ \A r \in Requests : state[r] = "Preempted" => OwnSnapshot(r)
  /\ pc # "failed" => PoolsSound /\ \A r \in Requests : RequestInv(r)

----------------------------------------------------------------------------
LEMMA Constants ==
  /\ N \in Nat \ {0} /\ LayerCount \in Nat \ {0} /\ ChunkSize \in Nat \ {0}
  /\ Capacity \in Nat \ {0} /\ TickLimit \in Nat /\ PoolPages \in Nat \ {0}
  /\ 1 \in Layers
  /\ IsFiniteSet(Requests) /\ Requests \subseteq Nat \ {0}
  /\ Garbage \in Tokens
  /\ \A r \in Requests, n \in 0 .. Capacity : Token(r, n) \in Tokens
  /\ \A a, b \in Requests, m, n \in Nat :
       Token(a, m) = Token(b, n) => a = b /\ m = n
<1>1. /\ N \in Nat \ {0} /\ LayerCount \in Nat \ {0} /\ ChunkSize \in Nat \ {0}
      /\ Capacity \in Nat \ {0} /\ TickLimit \in Nat /\ PoolPages \in Nat \ {0}
  BY ServingAssumption, PagedKVAssumption
<1>2. 1 \in Layers /\ Requests \subseteq Nat \ {0}
  BY <1>1 DEF Layers, Requests
<1>3. IsFiniteSet(Requests)
  BY <1>1, FS_Interval DEF Requests
<1>5. \A r \in Requests, n \in 0 .. Capacity : Token(r, n) \in Tokens
  BY DEF Tokens
<1>6. Garbage \in Tokens
  BY DEF Tokens
<1>7. \A a, b \in Requests, m, n \in Nat :
        Token(a, m) = Token(b, n) => a = b /\ m = n
  BY DEF Token
<1> QED BY <1>1, <1>2, <1>3, <1>5, <1>6, <1>7

LEMMA Values ==
  ASSUME Types, NEW r \in Requests
  PROVE  /\ specs[r].prompt \in Nat /\ specs[r].prompt >= 2
         /\ specs[r].decode \in Nat /\ specs[r].arrival \in Nat
         /\ specs[r].prompt + specs[r].decode \in 0 .. Capacity
         /\ specs[r].prompt \in 0 .. Capacity
         /\ PagesFor(specs[r].prompt + specs[r].decode) <= PoolPages
         /\ Length(r) \in 0 .. Capacity /\ Length(r) \in Nat
         /\ Len(generated[r]) \in Nat
         /\ \A l \in Layers :
              /\ kv[r][l] \in StateType /\ Tables(l)[r] = kv[r][l].table
              /\ Tables(l) \in [Requests -> Seq(Pages)]
              /\ kv[r][l].table \in Seq(Pages) /\ kv[r][l].length \in 0 .. Capacity
<1>1. /\ specs[r] \in RequestSpecs
      /\ specs[r] \in [prompt : 2 .. Capacity - 1, decode : Nat, arrival : Nat]
  BY ServingAssumption DEF Types
<1>2. /\ specs[r].prompt \in 2 .. Capacity - 1
      /\ specs[r].decode \in Nat /\ specs[r].arrival \in Nat
      /\ specs[r].prompt + specs[r].decode <= Capacity
      /\ PagesFor(specs[r].prompt + specs[r].decode) <= PoolPages
  BY <1>1, ServingAssumption DEF Total
<1>3. ASSUME NEW l \in Layers
      PROVE  /\ kv[r][l] \in StateType /\ Tables(l)[r] = kv[r][l].table
             /\ Tables(l) \in [Requests -> Seq(Pages)]
             /\ kv[r][l].table \in Seq(Pages) /\ kv[r][l].length \in 0 .. Capacity
  BY DEF Types, StateType, Tables
<1>4. Len(generated[r]) \in Nat
  BY DEF Types
<1> QED BY SMTT(40), <1>2, <1>3, <1>4, Constants DEF Length

\* A request that the step leaves alone keeps its part of the invariant.
LEMMA Undisturbed ==
  ASSUME NEW r \in Requests, RequestInv(r),
         /\ specs'[r] = specs[r] /\ state'[r] = state[r]
         /\ kv'[r] = kv[r] /\ generated'[r] = generated[r],
         \A l \in Layers : \A q \in 0 .. StoredRows(r) - 1 :
           cells'[l][SlotOf(kv[r][l].table, q)] = cells[l][SlotOf(kv[r][l].table, q)],
         Ahead(r)' <=> Ahead(r),
         Pending(r)' <=> Pending(r), Pending(r) => batch' = batch,
         ~Prefilling(r), ~Prefilling(r)'
  PROVE  RequestInv(r)'
<1>1. Length(r)' = Length(r) /\ (Pending(r) => Sampled(r)' = Sampled(r))
  BY DEF Length, Sampled
<1>2. Covered(r)' = Covered(r)
  BY <1>1 DEF Covered
<1>3. StoredRows(r)' = StoredRows(r)
  BY <1>1 DEF StoredRows
<1>4. LayersAgree(r)'
  BY <1>1, <1>2 DEF RequestInv, LayersAgree
<1>5. OwnRows(r)'
  BY <1>3 DEF RequestInv, OwnRows
<1>6. OwnTokens(r)'
  BY DEF RequestInv, OwnTokens
<1>7. Stands(r)'
  BY <1>1 DEF RequestInv, Stands
<1>8. OwnSample(r)'
  BY <1>1 DEF RequestInv, OwnSample
<1> QED BY <1>4, <1>5, <1>6, <1>7, <1>8 DEF RequestInv

\* What a request's calls on all its layers return is sound.
AllSound(r, o) ==
  \A l \in Layers :
    /\ Sound(o[l].pool, [Tables(l) EXCEPT ![r] = o[l].state.table], Requests)
    /\ o[l].state \in StateType

\* It may become the state of the request.
LEMMA BecomeKeeps ==
  ASSUME Types, PoolsSound, NEW r \in Requests, NEW o, Become(r, o), AllSound(r, o)
  PROVE  /\ pools' \in [Layers -> PoolType]
         /\ kv' \in [Requests -> [Layers -> StateType]]
         /\ PoolsSound'
         /\ \A l \in Layers :
              /\ pools'[l] = o[l].pool /\ kv'[r][l] = o[l].state
              /\ Tables(l)' = [Tables(l) EXCEPT ![r] = o[l].state.table]
         /\ \A b \in Requests \ {r} : kv'[b] = kv[b]
<1>1. /\ pools' = [l \in Layers |-> o[l].pool]
      /\ kv' = [kv EXCEPT ![r] = [l \in Layers |-> o[l].state]]
      /\ kv \in [Requests -> [Layers -> StateType]]
  BY DEF Become, Types
<1>2. kv' \in [Requests -> [Layers -> StateType]]
  <2>1. [l \in Layers |-> o[l].state] \in [Layers -> StateType]
    BY DEF AllSound
  <2> QED BY <1>1, <2>1
<1>3. pools' \in [Layers -> PoolType]
  BY <1>1 DEF Sound, AllSound
<1>4. ASSUME NEW l \in Layers
      PROVE  /\ pools'[l] = o[l].pool /\ kv'[r][l] = o[l].state
             /\ Tables(l)' = [Tables(l) EXCEPT ![r] = o[l].state.table]
  BY <1>1 DEF Tables
<1>5. PoolsSound'
  BY <1>4 DEF PoolsSound, AllSound
<1>6. \A b \in Requests \ {r} : kv'[b] = kv[b]
  BY <1>1
<1> QED BY <1>2, <1>3, <1>4, <1>5, <1>6

\* A stage of the request for n positions that succeeds on every layer.
LEMMA StagedOnAll ==
  ASSUME Types, PoolsSound, NEW r \in Requests, LayersAgree(r), ~Ahead(r),
         NEW n \in Nat, n > Length(r), Succeeds(Staged(r, n)),
         NEW l \in Layers, NEW out, out = Staged(r, n)[l]
  PROVE  /\ Sound(out.pool, [Tables(l) EXCEPT ![r] = out.state.table], Requests)
         /\ out.state \in StateType
         /\ out.state.length = Length(r)
         /\ n <= Capacity /\ Len(out.state.table) = PagesFor(n)
         /\ out.state.devTable = out.state.table
         /\ \A q \in 0 .. Length(r) - 1 :
              SlotOf(out.state.table, q) = SlotOf(kv[r][l].table, q)
<1> DEFINE T == Tables(l)
           st == kv[r][l]
<1>1. out = StageLength(pools[l], st, n, {})
  BY DEF Staged, Outcomes
<1>2. out.ok
  BY DEF Succeeds
<1>3. /\ Sound(pools[l], T, Requests) /\ st \in StateType /\ st.table = T[r]
      /\ Length(r) \in Nat /\ st.length = Length(r)
      /\ Len(T[r]) = PagesFor(st.length)
      /\ st.table \in Seq(Pages)
  BY Values DEF PoolsSound, LayersAgree, Covered
<1>4. n > st.length
  BY <1>3
<1> HIDE DEF T, st
<1>5. /\ Sound(out.pool, [T EXCEPT ![r] = out.state.table], Requests)
      /\ out.state \in StateType
      /\ out.state.length = st.length
      /\ out.ok => /\ n <= Capacity
                   /\ Len(out.state.table) = PagesFor(n)
                   /\ out.state.devTable = out.state.table
                   /\ out.state.devLength = n
      /\ \A i \in 1 .. Len(T[r]) : out.state.table[i] = T[r][i]
  BY <1>1, <1>3, <1>4, StageSound
<1>6. ASSUME NEW q \in 0 .. Length(r) - 1
      PROVE  SlotOf(out.state.table, q) = SlotOf(st.table, q)
  <2>1. q \div PageSize + 1 \in 1 .. Len(st.table)
    <3>1. Len(st.table) >= PagesFor(Length(r))
      BY <1>3
    <3> QED BY <1>3, <3>1, CoveredIsMapped
  <2> QED BY <1>3, <1>5, <2>1 DEF SlotOf
<1> QED BY <1>2, <1>3, <1>5, <1>6 DEF T, st

\* After a request's own rows were stored at its first n positions, the next
\* token is its own.
LEMMA NextTokenIsOwn ==
  ASSUME NEW r \in Requests, NEW stored, NEW tables, NEW n \in Nat \ {0},
         \A l \in Layers : \A q \in 0 .. n - 1 :
           Mapped(tables[l], q) /\ stored[l][SlotOf(tables[l], q)] = Token(r, q)
  PROVE  NextToken(stored, tables, n) = Token(r, n)
<1> DEFINE owners ==
             {b \in Requests : \A l \in Layers, q \in 0 .. n - 1 :
                Mapped(tables[l], q) /\ stored[l][SlotOf(tables[l], q)] = Token(b, q)}
<1>1. r \in owners
  OBVIOUS
<1>2. ASSUME NEW b \in owners  PROVE b = r
  <2>1. 1 \in Layers /\ 0 \in 0 .. n - 1 /\ b \in Requests
    BY Constants
  <2>2. stored[1][SlotOf(tables[1], 0)] = Token(b, 0)
    BY <2>1
  <2>3. stored[1][SlotOf(tables[1], 0)] = Token(r, 0)
    BY <2>1
  <2> QED BY <2>1, <2>2, <2>3, Constants
<1>3. owners = {r}
  BY <1>1, <1>2
<1>4. NextToken(stored, tables, n)
        = IF owners = {} THEN Garbage ELSE Token(Min(owners), n)
  BY DEF NextToken
<1> HIDE DEF owners
<1>5. Min(owners) = r
  <2>1. r \in Nat
    BY Constants
  <2> QED BY <1>3, <2>1 DEF Min
<1> QED BY <1>3, <1>4, <1>5

----------------------------------------------------------------------------
(* The initial states, and the steps that go to another pass or tick.      *)

LEMMA InitIInv ==
  ASSUME Init
  PROVE  IInv
<1>1. /\ \A R : Sound(NewPool, [r \in R |-> <<>>], R)
      /\ NewPool \in PoolType /\ NewState \in StateType
  BY NewPoolSound DEF Sound
<1>2. \A r \in Requests : /\ kv[r] = [l \in Layers |-> NewState]
                           /\ generated[r] = <<>>
                           /\ state[r] = "Waiting" /\ Length(r) = 0
  BY Constants DEF Init, Length, NewState
<1>3. Types
  <2>1. /\ 0 \in 0 .. TickLimit /\ 0 \in 0 .. N /\ 1 \in 1 .. N + 1
        /\ 0 \in 0 .. Capacity
    BY Constants
  <2>2. snapshot = [r \in Requests |-> snapshot[r]] /\ \A r \in Requests : snapshot[r].length \in 0 .. Capacity
    BY <2>1 DEF Init, NoSnapshot
  <2>3. /\ specs \in [Requests -> RequestSpecs]
        /\ pools \in [Layers -> PoolType]
        /\ kv \in [Requests -> [Layers -> StateType]]
    BY <1>1 DEF Init
  <2>4. cells \in [Layers -> [Slots -> Tokens \cup {NoRow}]]
    BY DEF Init
  <2>5. /\ state \in [Requests -> {"Waiting", "Decode", "Preempted", "Finished"}]
        /\ generated \in [Requests -> Seq(Tokens)]
        /\ batch.active \subseteq Requests
    BY DEF Init, NoBatch
  <2>6. metrics \in [preemptions : Nat, resumes : Nat, batch : 0 .. N]
    BY <2>1 DEF Init
  <2>7. tick = 0 /\ progress = FALSE /\ pc = "resume" /\ cursor = 1
    BY DEF Init
  <2> QED BY <2>1, <2>2, <2>3, <2>4, <2>5, <2>6, <2>7 DEF Types
<1>4. PoolsSound
  <2> SUFFICES ASSUME NEW l \in Layers  PROVE Sound(pools[l], Tables(l), Requests)
    BY DEF PoolsSound
  <2>1. Tables(l) = [r \in Requests |-> <<>>] /\ pools[l] = NewPool
    BY <1>2 DEF Tables, NewState, Init
  <2> QED BY <1>1, <2>1
<1>5. ASSUME NEW r \in Requests  PROVE RequestInv(r)
  <2>1. /\ pc = "resume" /\ ~Ahead(r) /\ ~Prefilling(r) /\ ~Pending(r)
    BY <1>2 DEF Init, Ahead, Prefilling, Pending
  <2>2. LayersAgree(r)
    BY <1>2, <2>1, PagesForIsMonotone DEF LayersAgree, Covered, NewState
  <2>3. StoredRows(r) = 0
    BY <1>2, <2>1 DEF StoredRows
  <2>4. OwnRows(r) /\ OwnTokens(r) /\ Stands(r) /\ OwnSample(r)
    BY <1>2, <2>1, <2>3 DEF OwnRows, OwnTokens, Stands, OwnSample
  <2> QED BY <2>2, <2>4 DEF RequestInv
<1>6. \A r \in Requests : state[r] # "Preempted"
  BY <1>2
<1> QED BY <1>3, <1>4, <1>5, <1>6 DEF IInv

\* A step that moves no data, between passes in which the requests have the
\* same pages.
LEMMA MovesOn ==
  ASSUME IInv, pc # "failed",
         UNCHANGED <<specs, cache, state, snapshot, generated, metrics>>,
         batch' = batch \/ batch' = NoBatch,
         tick' \in 0 .. TickLimit, progress' \in BOOLEAN, cursor' \in 1 .. N + 1,
         pc' \in {"resume", "prefill", "preempt", "stage", "decode", "audit",
                 "passed", "failed"},
         pc' # "failed" => \A r \in Requests : /\ Ahead(r)' <=> Ahead(r)
                                               /\ ~Pending(r) /\ ~Prefilling(r)
  PROVE  IInv'
<1>1. Types'
  BY DEF IInv, Types, cache, NoBatch
<1>2. \A r \in Requests : state'[r] = "Preempted" => OwnSnapshot(r)'
  BY DEF IInv, OwnSnapshot
<1>3. ASSUME pc' # "failed"  PROVE PoolsSound'
  BY DEF IInv, PoolsSound, Tables, cache
<1>4. ASSUME pc' # "failed", NEW r \in Requests  PROVE RequestInv(r)'
  <2>1. RequestInv(r)
    BY DEF IInv
  <2>2. /\ kv' = kv /\ cells' = cells
        /\ ~Prefilling(r)' /\ ~Prefilling(r) /\ ~Pending(r) /\ ~Pending(r)'
        /\ Ahead(r)' <=> Ahead(r)
    BY <1>4 DEF Prefilling, Pending, cache
  <2> QED BY <2>1, <2>2, Undisturbed
<1> QED BY <1>1, <1>2, <1>3, <1>4 DEF IInv

\* Outside the commit pass no row is pending, and only the stage, decode and
\* commit passes hold pages ahead.
LEMMA OutsideTheBatch ==
  ASSUME IInv, pc # "failed", NEW r \in Requests
  PROVE  /\ pc # "commit" => ~Pending(r)
         /\ pc \notin {"stage", "decode", "commit"} => ~Ahead(r)
         /\ pc # "chunk" => ~Prefilling(r)
         /\ RequestInv(r)
BY DEF IInv, Ahead, Prefilling, Pending

LEMMA ThrowKeeps ==
  ASSUME IInv, pc # "failed", NEW why, Throw(why)
  PROVE  IInv'
<1>1. tick \in 0 .. TickLimit /\ progress \in BOOLEAN /\ cursor \in 1 .. N + 1
  BY DEF IInv, Types
<1> QED BY <1>1, MovesOn DEF Throw

LEMMA EndOfPassKeeps ==
  ASSUME IInv, EndResume \/ EndPrefill \/ EndPreempt \/ EndStage \/ EndCommit
  PROVE  IInv'
<1>1. /\ tick \in 0 .. TickLimit /\ progress \in BOOLEAN
      /\ cursor \in 1 .. N + 1 /\ 1 \in 1 .. N + 1
      /\ \A r \in Requests : r \in 1 .. N /\ state[r] \in {"Waiting", "Decode", "Preempted", "Finished"}
  BY Constants DEF IInv, Types, Requests
<1>2. CASE EndResume \/ EndPrefill
  <2>1. /\ pc \in {"resume", "prefill"} /\ pc' \in {"prefill", "preempt"}
        /\ cursor' = 1 /\ tick' = tick /\ progress' = progress
        /\ UNCHANGED <<specs, cache, state, snapshot, generated, batch, metrics>>
    BY <1>2 DEF EndResume, EndPrefill
  <2>2. ASSUME NEW r \in Requests
        PROVE  (Ahead(r)' <=> Ahead(r)) /\ ~Pending(r) /\ ~Prefilling(r)
    BY <2>1, OutsideTheBatch DEF Ahead, Pending
  <2> QED BY <1>1, <2>1, <2>2, MovesOn
<1>3. CASE EndPreempt
  <2>1. /\ pc = "preempt" /\ pc' \in {"audit", "stage"}
        /\ cursor' = 1 /\ tick' = tick /\ progress' = progress
        /\ UNCHANGED <<specs, cache, state, snapshot, generated, batch, metrics>>
    BY <1>3 DEF EndPreempt
  <2>2. ASSUME NEW r \in Requests
        PROVE  (Ahead(r)' <=> Ahead(r)) /\ ~Pending(r) /\ ~Prefilling(r)
    BY <1>1, <2>1, OutsideTheBatch DEF Ahead, Pending
  <2> QED BY <1>1, <2>1, <2>2, MovesOn
<1>4. CASE EndStage
  <2>1. /\ pc = "stage" /\ pc' = "decode"
        /\ cursor' = 1 /\ tick' = tick /\ progress' = progress
        /\ UNCHANGED <<specs, cache, state, snapshot, generated, batch, metrics>>
        /\ \A k \in cursor .. N : k \notin Active
    BY <1>4 DEF EndStage, Ends
  <2>2. ASSUME NEW r \in Requests
        PROVE  (Ahead(r)' <=> Ahead(r)) /\ ~Pending(r) /\ ~Prefilling(r)
    <3>1. ~Pending(r) /\ ~Prefilling(r)
      BY <2>1, OutsideTheBatch
    <3>2. r < cursor \/ r \in cursor .. N
      BY <1>1
    <3>3. state[r] = "Decode" => r < cursor
      BY <2>1, <3>2 DEF Active
    <3> QED BY <2>1, <3>1, <3>3 DEF Ahead, Pending
  <2> QED BY <1>1, <2>1, <2>2, MovesOn
<1>5. CASE EndCommit
  <2>1. /\ pc = "commit" /\ pc' = "audit"
        /\ cursor' = 1 /\ tick' = tick /\ progress' = progress
        /\ UNCHANGED <<specs, cache, state, snapshot, generated, metrics>>
        /\ batch' = NoBatch /\ \A k \in cursor .. N : ~Pending(k)
    BY <1>5 DEF EndCommit, Ends
  <2>2. ASSUME NEW r \in Requests
        PROVE  (Ahead(r)' <=> Ahead(r)) /\ ~Pending(r) /\ ~Prefilling(r)
    <3>1. ~Prefilling(r)
      BY <2>1, OutsideTheBatch
    <3>2. r < cursor \/ r \in cursor .. N
      BY <1>1
    <3>3. ~Pending(r) /\ ~Pending(r)'
      BY <1>1, <2>1, <3>2 DEF Pending
    <3> QED BY <2>1, <3>1, <3>3 DEF Ahead, Pending
  <2> QED BY <1>1, <2>1, <2>2, MovesOn
<1> QED BY <1>2, <1>3, <1>4, <1>5

LEMMA EndTickKeeps ==
  ASSUME IInv, EndTick
  PROVE  IInv'
<1>1. /\ tick \in 0 .. TickLimit /\ progress \in BOOLEAN
      /\ cursor \in 1 .. N + 1 /\ 1 \in 1 .. N + 1 /\ TickLimit \in Nat
  BY Constants DEF IInv, Types
<1>2. pc = "audit"
  BY DEF EndTick
<1>3. CASE \E why : Throw(why)
  BY <1>2, <1>3, ThrowKeeps
<1>4. CASE tick < TickLimit /\ NextTick
  <2>1. /\ pc' = "resume" /\ cursor' = 1 /\ tick' = tick + 1 /\ progress' = FALSE
        /\ UNCHANGED <<specs, cache, state, snapshot, generated, batch, metrics>>
    BY <1>4 DEF NextTick
  <2>2. ASSUME NEW r \in Requests
        PROVE  (Ahead(r)' <=> Ahead(r)) /\ ~Pending(r) /\ ~Prefilling(r)
    BY <1>2, <2>1, OutsideTheBatch DEF Ahead, Pending
  <2>3. tick' \in 0 .. TickLimit
    BY <1>1, <1>4, <2>1
  <2> QED BY <1>1, <1>2, <2>1, <2>2, <2>3, MovesOn
<1>5. CASE Pass
  <2>1. /\ pc' = "passed" /\ cursor' = cursor /\ tick' = tick /\ progress' = progress
        /\ UNCHANGED <<specs, cache, state, snapshot, generated, batch, metrics>>
    BY <1>5 DEF Pass
  <2>2. ASSUME NEW r \in Requests
        PROVE  (Ahead(r)' <=> Ahead(r)) /\ ~Pending(r) /\ ~Prefilling(r)
    BY <1>2, <2>1, OutsideTheBatch DEF Ahead, Pending
  <2> QED BY <1>1, <1>2, <2>1, <2>2, MovesOn
<1>6. (\E why : Throw(why)) \/ (tick < TickLimit /\ NextTick) \/ Pass
  <2>1. tick >= TickLimit \/ tick < TickLimit
    BY <1>1
  <2> QED BY <2>1 DEF EndTick
<1> QED BY <1>3, <1>4, <1>5, <1>6

----------------------------------------------------------------------------
(* The steps on one request.                                               *)

LEMMA StageKeeps ==
  ASSUME IInv, NEW r \in Requests, Stage(r)
  PROVE  IInv'
<1> DEFINE n == Length(r) + 1
           o == Staged(r, n)
<1>1. /\ pc = "stage" /\ cursor <= r /\ r \in Active
      /\ \A k \in cursor .. r - 1 : k \notin Active
      /\ Types /\ PoolsSound /\ \A b \in Requests : RequestInv(b)
  BY DEF Stage, Reaches, IInv
<1>2. CASE Throw("stage")
  BY <1>1, <1>2, ThrowKeeps
<1>3. CASE /\ Succeeds(o) /\ Become(r, o) /\ cursor' = r + 1
           /\ UNCHANGED <<specs, cells, state, snapshot, generated, batch,
                          tick, progress, pc, cause, metrics>>
  <2>1. /\ cursor \in Nat /\ r \in 1 .. N /\ N \in Nat /\ Length(r) \in Nat
        /\ n \in Nat /\ n > Length(r)
    BY SMTT(40), <1>1, Constants, Values DEF Types, Requests
  <2>2. state[r] = "Decode" /\ ~Ahead(r) /\ ~Prefilling(r) /\ ~Pending(r) /\ LayersAgree(r)
    BY <1>1, <2>1, OutsideTheBatch DEF Active, Ahead, RequestInv
  <2> HIDE DEF o, n
  <2>3. ASSUME NEW l \in Layers
        PROVE  /\ Sound(o[l].pool, [Tables(l) EXCEPT ![r] = o[l].state.table], Requests)
               /\ o[l].state \in StateType
               /\ o[l].state.length = Length(r)
               /\ Len(o[l].state.table) = PagesFor(n)
               /\ \A q \in 0 .. Length(r) - 1 :
                    SlotOf(o[l].state.table, q) = SlotOf(kv[r][l].table, q)
    BY <1>1, <1>3, <2>1, <2>2, StagedOnAll DEF o
  <2>4. /\ pools' \in [Layers -> PoolType]
        /\ kv' \in [Requests -> [Layers -> StateType]]
        /\ PoolsSound'
        /\ \A l \in Layers : kv'[r][l] = o[l].state
        /\ \A b \in Requests \ {r} : kv'[b] = kv[b]
    <3>1. AllSound(r, o)
      BY <2>3 DEF AllSound
    <3>2. Become(r, o)
      BY <1>3
    <3> QED BY <1>1, <3>1, <3>2, BecomeKeeps
  <2>5. Types'
    BY <1>1, <1>3, <2>1, <2>4 DEF Types
  <2>6. RequestInv(r)'
    <3>1. Length(r)' = Length(r)
      BY <2>3, <2>4, Constants DEF Length
    <3>2. Ahead(r)' /\ ~Prefilling(r)' /\ ~Pending(r)'
      BY <1>1, <1>3, <2>1, <2>2 DEF Ahead, Prefilling, Pending
    <3>3. LayersAgree(r)'
      BY <2>3, <2>4, <3>1, <3>2 DEF LayersAgree, Covered, n
    <3>4. OwnRows(r)'
      <4>1. StoredRows(r)' = Length(r) /\ StoredRows(r) = Length(r)
        BY <2>2, <3>1, <3>2 DEF StoredRows
      <4>2. \A l \in Layers : \A q \in 0 .. Length(r) - 1 :
              cells[l][SlotOf(kv[r][l].table, q)] = Token(r, q)
        BY <1>1, <4>1 DEF RequestInv, OwnRows
      <4>3. \A l \in Layers : \A q \in 0 .. Length(r) - 1 :
              cells'[l][SlotOf(kv'[r][l].table, q)] = Token(r, q)
        <5> SUFFICES ASSUME NEW l \in Layers, NEW q \in 0 .. Length(r) - 1
                     PROVE  cells'[l][SlotOf(kv'[r][l].table, q)] = Token(r, q)
          OBVIOUS
        <5>1. kv'[r][l] = o[l].state /\ cells' = cells
          BY <1>3, <2>4
        <5>2. SlotOf(o[l].state.table, q) = SlotOf(kv[r][l].table, q)
          BY <2>3
        <5> QED BY <4>2, <5>1, <5>2
      <4> QED BY <4>1, <4>3 DEF OwnRows
    <3>5. OwnTokens(r)' /\ Stands(r)' /\ OwnSample(r)'
      BY <1>1, <1>3, <2>2, <3>1, <3>2 DEF RequestInv, OwnTokens, Stands, OwnSample
    <3> QED BY <3>3, <3>4, <3>5 DEF RequestInv
  <2>7. ASSUME NEW b \in Requests \ {r}  PROVE RequestInv(b)'
    <3>1. b \in Nat /\ r \in Nat /\ b # r
      BY Constants
    <3>2. b \in Active => (b < r + 1 <=> b < cursor)
      BY <1>1, <2>1, <3>1
    <3>3. Ahead(b)' <=> Ahead(b)
      BY <1>1, <1>3, <3>2 DEF Ahead, Active, Pending
    <3>4. ~Prefilling(b) /\ ~Prefilling(b)' /\ ~Pending(b) /\ ~Pending(b)'
      BY <1>1, <1>3 DEF Prefilling, Pending
    <3> QED BY <1>1, <1>3, <2>4, <3>3, <3>4, Undisturbed
  <2>8. \A b \in Requests : state'[b] = "Preempted" => OwnSnapshot(b)'
    BY <1>3 DEF IInv, OwnSnapshot
  <2> QED BY <2>4, <2>5, <2>6, <2>7, <2>8 DEF IInv
<1> QED BY <1>2, <1>3 DEF Stage

\* A finite family of numbers has a greatest one.
LEMMA GreatestNumber ==
  ASSUME NEW n \in Nat \ {0}, NEW a, \A i \in 1 .. n : a[i] \in Int
  PROVE  \E k \in 1 .. n : \A j \in 1 .. n : a[j] <= a[k]
<1> DEFINE I == {m \in Nat : m + 1 <= n =>
                   \E k \in 1 .. m + 1 : \A j \in 1 .. m + 1 : a[j] <= a[k]}
<1>1. 0 \in I
  OBVIOUS
<1>2. ASSUME NEW m \in I  PROVE m + 1 \in I
  <2> SUFFICES ASSUME m + 2 <= n
               PROVE  \E k \in 1 .. m + 2 : \A j \in 1 .. m + 2 : a[j] <= a[k]
    OBVIOUS
  <2>1. PICK k \in 1 .. m + 1 : \A j \in 1 .. m + 1 : a[j] <= a[k]
    OBVIOUS
  <2>2. a[k] \in Int /\ a[m + 2] \in Int /\ \A j \in 1 .. m + 1 : a[j] \in Int
    OBVIOUS
  <2>3. CASE a[m + 2] <= a[k]
    BY <2>1, <2>3
  <2>4. CASE a[k] <= a[m + 2]
    <3>1. \A j \in 1 .. m + 1 : a[j] <= a[m + 2]
      BY <2>1, <2>2, <2>4
    <3>2. \A j \in 1 .. m + 2 : a[j] <= a[m + 2]
      BY <2>2, <3>1
    <3> QED BY <3>2
  <2> QED BY <2>2, <2>3, <2>4
<1>3. I = Nat
  <2> HIDE DEF I
  <2> SUFFICES I \subseteq Nat
    BY <1>1, <1>2, Induction
  <2> QED BY DEF I
<1> HIDE DEF I
<1>4. n - 1 \in I
  BY <1>3
<1>5. (n - 1) + 1 <= n /\ (n - 1) + 1 = n
  OBVIOUS
<1> QED BY <1>4, <1>5 DEF I

LEMMA VictimIsActive ==
  ASSUME Types, Active # {}
  PROVE  SelectPreemptionVictim \in Active
<1> DEFINE a == [r \in Requests |-> IF r \in Active THEN HeldPages(r) ELSE -1]
           V == {r \in Active : \A k \in Active : HeldPages(k) <= HeldPages(r)}
<1>1. /\ N \in Nat \ {0} /\ Requests = 1 .. N /\ Active \subseteq Requests
      /\ \A r \in Requests : HeldPages(r) \in Nat
  <2>1. ASSUME NEW r \in Requests  PROVE HeldPages(r) \in Nat
    BY Constants, Values DEF HeldPages
  <2> QED BY <2>1, Constants DEF Requests, Active
<1>2. \A i \in 1 .. N : a[i] \in Int
  BY <1>1
<1>3. PICK k \in 1 .. N : \A j \in 1 .. N : a[j] <= a[k]
  <2> HIDE DEF a
  <2> QED BY <1>1, <1>2, GreatestNumber
<1>4. k \in V
  <2>1. PICK i \in Active : TRUE
    OBVIOUS
  <2>2. \A j \in Active : j \in 1 .. N /\ a[j] = HeldPages(j)
    BY <1>1
  <2>3. k \in Active
    <3>1. a[i] <= a[k] /\ a[i] \in Nat
      BY <1>1, <1>3, <2>1, <2>2
    <3>2. k \notin Active => a[k] = -1
      BY <1>1
    <3> HIDE DEF a
    <3> QED BY <3>1, <3>2
  <2> HIDE DEF a
  <2>4. \A j \in Active : HeldPages(j) <= HeldPages(k)
    BY <1>3, <2>2, <2>3
  <2> QED BY <2>3, <2>4
<1>5. V \subseteq Nat /\ V \subseteq Active
  <2>1. Active \subseteq Nat
    BY <1>1
  <2> QED BY <2>1
<1> HIDE DEF V, a
<1>6. PICK x \in V : \A y \in V : x <= y
  BY <1>4, <1>5, LeastNumber
<1>7. Min(V) \in V
  BY <1>6 DEF Min
<1> QED BY <1>5, <1>7 DEF SelectPreemptionVictim, V

\* A request that gives back the pages of a layer.
LEMMA ResetEmpties ==
  ASSUME NEW P, NEW T, NEW R, NEW r, NEW st, Holder(P, T, R, r, st),
         NEW x, x = Reset(P, st, {})
  PROVE  /\ Sound(x.pool, [T EXCEPT ![r] = x.state.table], R)
         /\ x.state \in StateType /\ x.state = NewState
<1>1. GaveBack(P, x, Len(T[r]))
  BY ResetCounts
<1>2. x.ok /\ x.state = NewState
  BY <1>1 DEF GaveBack
<1>3. Sound(P, T, R) /\ r \in R /\ st \in StateType /\ st.table = T[r]
  BY DEF Holder
<1>4. Sound(x.pool, [T EXCEPT ![r] = x.state.table], R) /\ x.state \in StateType
  BY <1>3, ResetSound
<1> QED BY <1>2, <1>4

\* The victim's rows are on the host before its pages are given back.
LEMMA PreemptKeeps ==
  ASSUME IInv, Preempt, NEW r, r = SelectPreemptionVictim
  PROVE  IInv'
<1> DEFINE o == Released(r)
           n == Length(r)
<1>1. /\ pc = "preempt" /\ Active # {}
      /\ Types /\ PoolsSound /\ \A b \in Requests : RequestInv(b)
      /\ Become(r, o)
      /\ snapshot' = [snapshot EXCEPT ![r] =
                        [length |-> n,
                         rows   |-> [l \in Layers |->
                                       ReadPrefix(cells[l], kv[r][l].table, n)]]]
      /\ state' = [state EXCEPT ![r] = "Preempted"]
      /\ metrics' = [metrics EXCEPT !.preemptions = @ + 1]
      /\ progress' = TRUE
      /\ UNCHANGED <<specs, cells, generated, batch, tick, pc, cursor, cause>>
  BY DEF Preempt, IInv
<1>2. r \in Requests /\ state[r] = "Decode"
  BY <1>1, VictimIsActive DEF Active
<1>3. /\ ~Ahead(r) /\ ~Prefilling(r) /\ ~Pending(r) /\ RequestInv(r)
      /\ Covered(r) = n /\ StoredRows(r) = n
      /\ n \in 0 .. Capacity
      /\ \A l \in Layers : kv[r][l] \in StateType /\ Tables(l)[r] = kv[r][l].table
  BY <1>1, <1>2, OutsideTheBatch, Values DEF Covered, StoredRows
<1> HIDE DEF o, n
<1>4. ASSUME NEW l \in Layers
      PROVE  /\ Sound(o[l].pool, [Tables(l) EXCEPT ![r] = o[l].state.table], Requests)
             /\ o[l].state \in StateType
             /\ o[l].state = NewState
  <2>1. o[l] = Reset(pools[l], kv[r][l], {}) /\ Sound(pools[l], Tables(l), Requests)
    BY <1>1 DEF o, Released, Outcomes, PoolsSound
  <2>2. Holder(pools[l], Tables(l), Requests, r, kv[r][l])
    BY <1>2, <1>3, <2>1 DEF Holder
  <2> HIDE DEF Tables
  <2> QED BY <2>1, <2>2, ResetEmpties
<1>5. /\ pools' \in [Layers -> PoolType]
      /\ kv' \in [Requests -> [Layers -> StateType]]
      /\ PoolsSound'
      /\ \A l \in Layers : kv'[r][l] = NewState
      /\ \A b \in Requests \ {r} : kv'[b] = kv[b]
  <2>1. AllSound(r, o)
    BY <1>4 DEF AllSound
  <2>2. Types /\ PoolsSound /\ r \in Requests /\ Become(r, o)
    BY <1>1, <1>2
  <2>3. /\ pools' \in [Layers -> PoolType]
        /\ kv' \in [Requests -> [Layers -> StateType]]
        /\ PoolsSound'
        /\ \A l \in Layers : kv'[r][l] = o[l].state
        /\ \A b \in Requests \ {r} : kv'[b] = kv[b]
    BY <2>1, <2>2, BecomeKeeps
  <2> QED BY <1>4, <2>3
<1>6. Types'
  <2>1. /\ state' \in [Requests -> {"Waiting", "Decode", "Preempted", "Finished"}]
        /\ metrics' \in [preemptions : Nat, resumes : Nat, batch : 0 .. N]
    <3>1. /\ state \in [Requests -> {"Waiting", "Decode", "Preempted", "Finished"}]
          /\ metrics \in [preemptions : Nat, resumes : Nat, batch : 0 .. N]
      BY <1>1 DEF Types
    <3>2. state' \in [Requests -> {"Waiting", "Decode", "Preempted", "Finished"}]
      BY <1>1, <3>1
    <3>3. metrics' \in [preemptions : Nat, resumes : Nat, batch : 0 .. N]
      BY <1>1, <3>1
    <3> QED BY <3>2, <3>3
  <2>2. /\ snapshot' = [b \in Requests |-> snapshot'[b]]
        /\ \A b \in Requests : snapshot'[b].length \in 0 .. Capacity
    BY <1>1, <1>2, <1>3 DEF Types
  <2> QED BY <1>1, <1>5, <2>1, <2>2 DEF Types
<1>7. RequestInv(r)'
  <2>1. Length(r)' = 0 /\ state'[r] = "Preempted"
    BY <1>1, <1>2, <1>5, Constants DEF Length, NewState, Types
  <2>2. ~Ahead(r)' /\ ~Prefilling(r)' /\ ~Pending(r)'
    BY <1>1, <1>3, <2>1 DEF Ahead, Prefilling, Pending
  <2>3. Covered(r)' = 0 /\ StoredRows(r)' = 0
    BY <2>1, <2>2 DEF Covered, StoredRows
  <2>4. LayersAgree(r)'
    BY <1>5, <2>1, <2>3, PagesForIsMonotone DEF LayersAgree, NewState
  <2>5. OwnRows(r)'
    BY <2>3 DEF OwnRows
  <2>6. OwnTokens(r)' /\ OwnSample(r)'
    BY <1>1, <1>3, <2>2 DEF RequestInv, OwnTokens, OwnSample
  <2>7. Stands(r)'
    BY <1>1, <1>2, <1>3, <2>1, <2>2 DEF RequestInv, Stands
  <2> QED BY <2>4, <2>5, <2>6, <2>7 DEF RequestInv
<1>8. ASSUME NEW b \in Requests \ {r}  PROVE RequestInv(b)'
  <2>1. state'[b] = state[b] /\ kv'[b] = kv[b] /\ RequestInv(b)
    BY <1>1, <1>5 DEF Types
  <2>2. /\ ~Pending(b) /\ ~Pending(b)' /\ ~Prefilling(b) /\ ~Prefilling(b)'
        /\ ~Ahead(b) /\ ~Ahead(b)'
    BY <1>1 DEF Prefilling, Ahead, Pending
  <2> QED BY <1>1, <2>1, <2>2, Undisturbed
<1>9. OwnSnapshot(r)'
  <2>1. snapshot'[r] = [length |-> n,
                        rows   |-> [l \in Layers |->
                                      ReadPrefix(cells[l], kv[r][l].table, n)]]
    BY <1>1, <1>2 DEF Types
  <2>2. n = specs[r].prompt + Len(generated[r]) - 1
    BY <1>2, <1>3 DEF RequestInv, Stands, n
  <2>3. ASSUME NEW l \in Layers
        PROVE  ReadPrefix(cells[l], kv[r][l].table, n) = [q \in 0 .. n - 1 |-> Token(r, q)]
    BY <1>3 DEF RequestInv, OwnRows, ReadPrefix
  <2> QED BY <1>1, <2>1, <2>2, <2>3 DEF OwnSnapshot
<1>10. ASSUME NEW b \in Requests, state'[b] = "Preempted"  PROVE OwnSnapshot(b)'
  <2>1. CASE b = r
    BY <1>9, <2>1
  <2>2. CASE b # r
    BY <1>1, <1>10, <2>2 DEF IInv, OwnSnapshot, Types
  <2> QED BY <2>1, <2>2
<1> QED BY <1>5, <1>6, <1>7, <1>8, <1>10 DEF IInv

\* One row of the batch: its sampled token is the next one of the request.
LEMMA CommitKeeps ==
  ASSUME IInv, NEW r \in Requests, Commit(r)
  PROVE  IInv'
<1> DEFINE committed == [l \in Layers |-> CommitLength(kv[r][l], Length(r) + 1)]
           output    == Append(generated[r], Sampled(r))
           done      == Len(output) = specs[r].decode + 1
           emptied   == [l \in Layers |-> Reset(pools[l], committed[l], {})]
           k         == Len(generated[r])
<1>1. /\ pc = "commit" /\ cursor <= r /\ Pending(r)
      /\ \A b \in cursor .. r - 1 : ~Pending(b)
      /\ Types /\ PoolsSound /\ \A b \in Requests : RequestInv(b)
      /\ IF done THEN Become(r, emptied)
         ELSE pools' = pools /\ kv' = [kv EXCEPT ![r] = committed]
      /\ generated' = [generated EXCEPT ![r] = output]
      /\ state' = [state EXCEPT ![r] = IF done THEN "Finished" ELSE @]
      /\ progress' = TRUE
      /\ cursor' = r + 1
      /\ UNCHANGED <<specs, cells, snapshot, batch, tick, pc, cause, metrics>>
  BY DEF Commit, Reaches, IInv
<1>2. /\ cursor \in Nat /\ r \in 1 .. N /\ N \in Nat /\ Length(r) \in Nat
      /\ specs[r].prompt \in Nat /\ specs[r].decode \in Nat /\ k \in Nat
      /\ specs[r].prompt + specs[r].decode \in 0 .. Capacity
      /\ Capacity \in Nat
      /\ \A b \in Requests : b \in 1 .. N
  <2>1. cursor \in 1 .. N + 1 /\ \A b \in Requests : b \in 1 .. N
    BY <1>1 DEF Types, Requests
  <2>2. N \in Nat /\ Capacity \in Nat
    BY Constants
  <2>3. Types
    BY <1>1
  <2>4. /\ Length(r) \in Nat /\ specs[r].prompt \in Nat /\ specs[r].decode \in Nat /\ k \in Nat
        /\ specs[r].prompt + specs[r].decode \in 0 .. Capacity
    BY <2>3, Values
  <2> QED BY <2>1, <2>2, <2>4
<1>3. /\ state[r] = "Decode" /\ Sampled(r) = Token(r, Length(r) + 1)
      /\ Ahead(r) /\ ~Prefilling(r)
      /\ k \in 1 .. specs[r].decode /\ Length(r) = specs[r].prompt + k - 1
      /\ Covered(r) = Length(r) + 1 /\ StoredRows(r) = Length(r) + 1
      /\ OwnTokens(r) /\ LayersAgree(r) /\ OwnRows(r)
  BY <1>1 DEF RequestInv, OwnSample, Stands, Ahead, Prefilling, Covered, StoredRows
<1>4. Length(r) + 1 \in 0 .. Capacity
  BY SMTT(40), <1>2, <1>3
<1>5. /\ generated[r] \in Seq(Tokens) /\ Sampled(r) \in Tokens
      /\ output \in Seq(Tokens) /\ Len(output) = k + 1
      /\ \A i \in 1 .. k : output[i] = generated[r][i]
      /\ output[k + 1] = Token(r, Length(r) + 1)
  <2>1. generated[r] \in Seq(Tokens) /\ Sampled(r) \in Tokens
    BY <1>1, <1>3, <1>4, Constants DEF Types
  <2> QED BY <1>3, <2>1
<1>6. done <=> k = specs[r].decode
  BY SMTT(40), <1>2, <1>5
<1>7. ASSUME NEW l \in Layers
      PROVE  /\ committed[l] \in StateType /\ committed[l].length = Length(r) + 1
             /\ committed[l].table = kv[r][l].table
  <2>1. kv[r][l] \in StateType
    BY <1>1, Values
  <2> QED BY <1>4, <2>1 DEF CommitLength, StateType
<1> HIDE DEF committed, done
\* What the layers hold of the request afterwards.
<1> DEFINE left == IF done THEN 0 ELSE Length(r) + 1
<1>8. /\ pools' \in [Layers -> PoolType]
      /\ kv' \in [Requests -> [Layers -> StateType]]
      /\ PoolsSound'
      /\ \A b \in Requests \ {r} : kv'[b] = kv[b]
      /\ \A l \in Layers : /\ kv'[r][l].length = left
                           /\ Len(kv'[r][l].table) = PagesFor(left)
                           /\ left # 0 => kv'[r][l].table = kv[r][l].table
  <2>1. CASE done
    <3>1. ASSUME NEW l \in Layers
          PROVE  /\ Sound(emptied[l].pool, [Tables(l) EXCEPT ![r] = emptied[l].state.table], Requests)
                 /\ emptied[l].state \in StateType
                 /\ emptied[l].state = NewState
      <4>1. Holder(pools[l], Tables(l), Requests, r, committed[l])
        BY <1>1, <1>7, Values DEF Holder, PoolsSound
      <4> HIDE DEF Tables
      <4>2. emptied[l] = Reset(pools[l], committed[l], {})
        OBVIOUS
      <4> HIDE DEF emptied
      <4> QED BY <4>1, <4>2, ResetEmpties
    <3> HIDE DEF emptied
    <3>2. AllSound(r, emptied)
      BY <3>1 DEF AllSound
    <3>3. Types /\ PoolsSound /\ r \in Requests /\ Become(r, emptied)
      BY <1>1, <2>1
    <3>4. /\ pools' \in [Layers -> PoolType]
          /\ kv' \in [Requests -> [Layers -> StateType]]
          /\ PoolsSound'
          /\ \A l \in Layers : kv'[r][l] = emptied[l].state
          /\ \A b \in Requests \ {r} : kv'[b] = kv[b]
      BY <3>2, <3>3, BecomeKeeps
    <3>5. \A l \in Layers : kv'[r][l] = NewState
      BY <3>1, <3>4
    <3>7. NewState.length = 0 /\ NewState.table = <<>>
      BY DEF NewState
    <3>6. left = 0
      BY <2>1
    <3> HIDE DEF left
    <3> QED BY <3>4, <3>5, <3>6, <3>7, PagesForIsMonotone
  <2>2. CASE ~done
    <3>1. /\ pools' = pools /\ kv' = [kv EXCEPT ![r] = committed]
          /\ kv \in [Requests -> [Layers -> StateType]]
          /\ pools \in [Layers -> PoolType]
          /\ committed \in [Layers -> StateType]
      BY <1>1, <1>7, <2>2 DEF Types, committed
    <3>2. /\ \A l \in Layers : kv'[r][l] = committed[l]
          /\ \A b \in Requests \ {r} : kv'[b] = kv[b]
          /\ kv' \in [Requests -> [Layers -> StateType]]
      BY <3>1
    <3>3. ASSUME NEW l \in Layers  PROVE Tables(l)' = Tables(l)
      BY <1>7, <3>2 DEF Tables
    <3>4. PoolsSound'
      BY <1>1, <3>1, <3>3 DEF PoolsSound
    <3>5. left = Length(r) + 1
      BY <2>2
    <3> HIDE DEF left
    <3> QED BY <1>3, <1>7, <3>1, <3>2, <3>4, <3>5 DEF LayersAgree
  <2> QED BY <2>1, <2>2
<1> HIDE DEF left, output
<1>9. Types'
  <2>1. state' \in [Requests -> {"Waiting", "Decode", "Preempted", "Finished"}]
    <3>1. state \in [Requests -> {"Waiting", "Decode", "Preempted", "Finished"}]
      BY <1>1 DEF Types
    <3> QED BY <1>1, <3>1
  <2>2. generated' \in [Requests -> Seq(Tokens)]
    BY <1>1, <1>5 DEF Types
  <2>3. batch'.active \subseteq Requests
    BY <1>1 DEF Types
  <2>4. cursor' \in 1 .. N + 1
    BY <1>1, <1>2
  <2> QED BY <1>1, <1>8, <2>1, <2>2, <2>3, <2>4 DEF Types
<1>10. RequestInv(r)'
  <2>1. /\ Length(r)' = left /\ generated'[r] = output
        /\ state'[r] = IF done THEN "Finished" ELSE "Decode"
    BY <1>1, <1>3, <1>8, Constants DEF Length, Types
  <2>2. ~Ahead(r)' /\ ~Prefilling(r)' /\ ~Pending(r)'
    BY <1>1, <1>2, <2>1 DEF Ahead, Prefilling, Pending
  <2>3. Covered(r)' = left /\ StoredRows(r)' = left
    BY <2>1, <2>2 DEF Covered, StoredRows
  <2>4. LayersAgree(r)'
    BY <1>8, <2>1, <2>3 DEF LayersAgree
  <2>5. OwnRows(r)'
    <3>1. CASE done
      BY <2>3, <3>1 DEF OwnRows, left
    <3>2. CASE ~done
      <4>1. left = Length(r) + 1 /\ left # 0
        BY <1>2, <3>2 DEF left
      <4> QED BY <1>1, <1>3, <1>8, <2>3, <4>1 DEF OwnRows
    <3> QED BY <3>1, <3>2
  <2>6. OwnTokens(r)'
    <3> SUFFICES ASSUME NEW i \in 1 .. k + 1
                 PROVE  output[i] = Token(r, specs[r].prompt + i - 1)
      BY <1>1, <1>5, <2>1 DEF OwnTokens
    <3>1. CASE i \in 1 .. k
      BY <1>3, <1>5, <3>1 DEF OwnTokens
    <3>2. CASE i = k + 1
      <4>1. Length(r) + 1 = specs[r].prompt + i - 1
        BY <1>2, <1>3, <3>2
      <4> QED BY <1>5, <3>2, <4>1
    <3> QED BY <1>2, <3>1, <3>2
  <2>7. Stands(r)'
    <3>1. Len(generated'[r]) = k + 1
      BY <1>5, <2>1
    <3>2. CASE done
      BY <1>1, <1>2, <1>6, <2>1, <2>2, <3>1, <3>2 DEF Stands, left
    <3>3. CASE ~done
      <4>1. k + 1 \in 1 .. specs[r].decode
        BY <1>2, <1>3, <1>6, <3>3
      <4>2. Length(r)' = specs[r].prompt + (k + 1) - 1
        BY <1>2, <1>3, <2>1, <3>3 DEF left
      <4> QED BY <1>1, <2>1, <2>2, <3>1, <3>3, <4>1, <4>2 DEF Stands
    <3> QED BY <3>2, <3>3
  <2>8. OwnSample(r)'
    BY <2>2 DEF OwnSample
  <2> QED BY <2>4, <2>5, <2>6, <2>7, <2>8 DEF RequestInv
<1>11. ASSUME NEW b \in Requests \ {r}  PROVE RequestInv(b)'
  <2>1. /\ state'[b] = state[b] /\ kv'[b] = kv[b] /\ RequestInv(b)
        /\ generated'[b] = generated[b]
    BY <1>1, <1>8 DEF Types
  <2>2. Pending(b)' <=> Pending(b)
    <3>1. Pending(b) => cursor <= b /\ ~(b \in cursor .. r - 1)
      BY <1>1 DEF Pending
    <3>2. b \in Nat /\ b # r /\ r \in Nat
      BY <1>2
    <3>3. Pending(b) => r + 1 <= b
      BY <1>2, <3>1, <3>2
    <3>4. r + 1 <= b => cursor <= b
      BY <1>1, <1>2, <3>2
    <3> QED BY <1>1, <3>3, <3>4 DEF Pending
  <2>3. ~Prefilling(b) /\ ~Prefilling(b)' /\ (Ahead(b)' <=> Ahead(b))
    BY <1>1, <2>1, <2>2 DEF Prefilling, Ahead
  <2> QED BY <1>1, <2>1, <2>2, <2>3, Undisturbed
<1>12. ASSUME NEW b \in Requests, state'[b] = "Preempted"  PROVE OwnSnapshot(b)'
  <2>1. b # r
    BY <1>1, <1>3, <1>12 DEF Types
  <2>2. state[b] = "Preempted" /\ generated'[b] = generated[b]
    BY <1>1, <1>12, <2>1 DEF Types
  <2> QED BY <1>1, <2>2 DEF IInv, OwnSnapshot
<1> QED BY <1>8, <1>9, <1>10, <1>11, <1>12 DEF IInv

\* The rows of the batch and its requests are paired one to one.
LEMMA RowsPair ==
  ASSUME NEW active \in SUBSET Requests
  PROVE  /\ \A r \in active : /\ Row(active, r) \in Rows(active)
                              /\ RequestAt(active, Row(active, r)) = r
         /\ \A row \in Rows(active) : /\ RequestAt(active, row) \in active
                                      /\ Row(active, RequestAt(active, row)) = row
<1> DEFINE upTo(r) == {k \in active : k <= r}
           f == [r \in active |-> Row(active, r)]
<1>1. /\ IsFiniteSet(active) /\ Cardinality(active) \in Nat
      /\ \A r \in active : r \in Nat
  <2>1. IsFiniteSet(active)
    BY Constants, FS_Subset
  <2> QED BY <2>1, Constants, FS_CardinalityType
<1>2. ASSUME NEW r \in active
      PROVE  /\ IsFiniteSet(upTo(r)) /\ Row(active, r) = Cardinality(upTo(r))
             /\ Row(active, r) \in Rows(active)
  <2>1. /\ IsFiniteSet(upTo(r)) /\ Cardinality(upTo(r)) <= Cardinality(active)
    <3>1. upTo(r) \in SUBSET active
      OBVIOUS
    <3> QED BY <1>1, <3>1, FS_Subset
  <2>2. Cardinality(upTo(r)) \in Nat /\ Cardinality(upTo(r)) # 0
    <3>1. r \in upTo(r)
      BY <1>1
    <3> QED BY <2>1, <3>1, FS_CardinalityType, FS_EmptySet
  <2>3. Row(active, r) = Cardinality(upTo(r))
    BY DEF Row
  <2> HIDE DEF upTo
  <2> QED BY <1>1, <2>1, <2>2, <2>3 DEF Rows
<1>3. ASSUME NEW a \in active, NEW b \in active, a < b
      PROVE  Row(active, a) # Row(active, b)
  <2>1. upTo(a) \in SUBSET upTo(b)
    BY <1>1, <1>3
  <2>2. b \in upTo(b) /\ b \notin upTo(a)
    BY <1>1, <1>3
  <2> HIDE DEF upTo
  <2> QED BY <1>2, <2>1, <2>2, FS_Subset
<1>4. \A a, b \in active : Row(active, a) = Row(active, b) => a = b
  BY <1>1, <1>3
<1>5. f \in Surjection(active, Rows(active))
  <2>1. f \in Injection(active, Rows(active))
    BY <1>2, <1>4 DEF Injection, IsInjective
  <2>2. /\ IsFiniteSet(Rows(active))
        /\ Cardinality(Rows(active)) = Cardinality(active)
    BY <1>1, FS_Interval DEF Rows
  <2> HIDE DEF f
  <2> QED BY <2>1, <2>2, FS_Injection
<1>6. \A row \in Rows(active) : \E r \in active : Row(active, r) = row
  BY <1>5 DEF Surjection
<1>7. \A row \in Rows(active) : /\ RequestAt(active, row) \in active
                                /\ Row(active, RequestAt(active, row)) = row
  BY <1>6 DEF RequestAt
<1> QED BY <1>2, <1>4, <1>7

\* Every active request stores its row at a slot of its own and then reads
\* its own rows only.
LEMMA DecodeBatchKeeps ==
  ASSUME IInv, DecodeBatch
  PROVE  IInv'
<1> DEFINE storesTo(l, slot, r) ==
             /\ Mapped(kv[r][l].table, (Length(r) + 1) - 1)
             /\ SlotOf(kv[r][l].table, (Length(r) + 1) - 1) = slot
           rowStores(l, slot, row) ==
             /\ Mapped(Packed[row].tables[l], Packed[row].valid - 1)
             /\ SlotOf(Packed[row].tables[l], Packed[row].valid - 1) = slot
           stored(l, slot) ==
             IF \E row \in Rows(Active) : rowStores(l, slot, row)
             THEN Packed[CHOOSE row \in Rows(Active) : rowStores(l, slot, row)].token
             ELSE cells[l][slot]
           tables(r) == [l \in Layers |-> kv[r][l].table]
           sampledAt(row) == NextToken(cells', Packed[row].tables, Packed[row].valid)
<1>1. /\ pc = "decode"
      /\ Types /\ PoolsSound /\ \A b \in Requests : RequestInv(b)
      /\ cells' = [l \in Layers |-> [slot \in Slots |-> stored(l, slot)]]
      /\ batch' = [active |-> Active,
                    next   |-> [row \in Rows(Active) |-> sampledAt(row)]]
      /\ metrics' = [metrics EXCEPT !.batch = MaxOf(@, Cardinality(Active))]
      /\ pc' = "commit"
      /\ cursor' = 1
      /\ UNCHANGED <<specs, pools, kv, state, snapshot, generated, tick,
                     progress, cause>>
  <2>1. pc = "decode"
    BY DEF DecodeBatch
  <2>2. cells' = [l \in Layers |-> [slot \in Slots |-> stored(l, slot)]]
    BY ZenonT(30) DEF DecodeBatch
  <2>3. batch' = [active |-> Active,
                  next   |-> [row \in Rows(Active) |-> sampledAt(row)]]
    BY ZenonT(30) DEF DecodeBatch
  <2>4. /\ metrics' = [metrics EXCEPT !.batch = MaxOf(@, Cardinality(Active))]
        /\ pc' = "commit"
        /\ cursor' = 1
        /\ UNCHANGED <<specs, pools, kv, state, snapshot, generated, tick,
                       progress, cause>>
    BY DEF DecodeBatch
  <2>5. Types /\ PoolsSound /\ \A b \in Requests : RequestInv(b)
    BY <2>1 DEF IInv
  <2> HIDE DEF stored, sampledAt
  <2> QED BY <2>1, <2>2, <2>3, <2>4, <2>5
\* The row of a request and the request of a row hold the same.
<1>11. ASSUME NEW row \in Rows(Active)
       PROVE  /\ RequestAt(Active, row) \in Active
              /\ Row(Active, RequestAt(Active, row)) = row
              /\ Packed[row].token = Last(RequestAt(Active, row))
              /\ Packed[row].valid = Length(RequestAt(Active, row)) + 1
              /\ Packed[row].tables = tables(RequestAt(Active, row))
  <2>1. Active \in SUBSET Requests
    BY DEF Active
  <2>2. Packed[row] = [token  |-> Last(RequestAt(Active, row)),
                       valid  |-> Length(RequestAt(Active, row)) + 1,
                       tables |-> tables(RequestAt(Active, row))]
    BY DEF Packed
  <2>3. /\ Packed[row].token = Last(RequestAt(Active, row))
        /\ Packed[row].valid = Length(RequestAt(Active, row)) + 1
        /\ Packed[row].tables = tables(RequestAt(Active, row))
    <3> HIDE DEF tables
    <3> QED BY <2>2
  <2>4. /\ RequestAt(Active, row) \in Active
        /\ Row(Active, RequestAt(Active, row)) = row
    BY <2>1, RowsPair
  <2> HIDE DEF tables
  <2> QED BY <2>3, <2>4
<1>12. ASSUME NEW r \in Active
       PROVE  Row(Active, r) \in Rows(Active) /\ RequestAt(Active, Row(Active, r)) = r
  <2>1. Active \in SUBSET Requests
    BY DEF Active
  <2> QED BY <2>1, RowsPair
<1>13. \A l \in Layers, slot \in Slots, row \in Rows(Active) :
         rowStores(l, slot, row) <=> storesTo(l, slot, RequestAt(Active, row))
  <2> SUFFICES ASSUME NEW l \in Layers, NEW slot \in Slots, NEW row \in Rows(Active)
               PROVE  rowStores(l, slot, row) <=> storesTo(l, slot, RequestAt(Active, row))
    OBVIOUS
  <2>1. /\ Packed[row].tables = tables(RequestAt(Active, row))
        /\ Packed[row].valid = Length(RequestAt(Active, row)) + 1
    <3> HIDE DEF tables
    <3> QED BY <1>11
  <2>2. tables(RequestAt(Active, row))[l] = kv[RequestAt(Active, row)][l].table
    OBVIOUS
  <2> HIDE DEF tables
  <2> QED BY <2>1, <2>2
<1>2. ASSUME NEW r \in Active
      PROVE  /\ r \in Requests /\ state[r] = "Decode" /\ Ahead(r)
             /\ Length(r) \in Nat /\ Length(r) + 1 \in 0 .. Capacity
             /\ Last(r) = Token(r, Length(r)) /\ Last(r) \in Tokens
             /\ \A l \in Layers :
                  /\ kv[r][l].table = Tables(l)[r]
                  /\ \A q \in 0 .. Length(r) :
                       /\ Mapped(kv[r][l].table, q)
                       /\ SlotOf(kv[r][l].table, q) \in Slots
                  /\ \A q \in 0 .. Length(r) - 1 :
                       cells[l][SlotOf(kv[r][l].table, q)] = Token(r, q)
  <2> DEFINE k == Len(generated[r])
  <2>1. r \in Requests /\ state[r] = "Decode" /\ RequestInv(r) /\ Ahead(r)
    BY <1>1 DEF Active, Ahead
  <2>2. /\ k \in 1 .. specs[r].decode /\ Length(r) = specs[r].prompt + k - 1
        /\ Length(r) \in Nat /\ specs[r].prompt \in Nat /\ specs[r].decode \in Nat
        /\ specs[r].prompt + specs[r].decode \in 0 .. Capacity /\ Capacity \in Nat
    BY <1>1, <2>1, Values, Constants DEF RequestInv, Stands
  <2>3. Length(r) + 1 \in 0 .. Capacity /\ Length(r) \in 0 .. Capacity
    BY SMTT(40), <2>2
  <2>4. Last(r) = Token(r, Length(r))
    BY SMTT(40), <2>1, <2>2 DEF Last, RequestInv, OwnTokens
  <2>5. ASSUME NEW l \in Layers
        PROVE  /\ kv[r][l].table = Tables(l)[r]
               /\ \A q \in 0 .. Length(r) :
                    /\ Mapped(kv[r][l].table, q)
                    /\ SlotOf(kv[r][l].table, q) \in Slots
               /\ \A q \in 0 .. Length(r) - 1 :
                    cells[l][SlotOf(kv[r][l].table, q)] = Token(r, q)
    <3>1. kv[r][l].table = Tables(l)[r] /\ kv[r][l].table \in Seq(Pages)
      BY <1>1, <2>1, Values
    <3>2. Len(kv[r][l].table) = PagesFor(Length(r) + 1)
      BY <2>1 DEF RequestInv, LayersAgree, Covered
    <3>3. StoredRows(r) = Length(r)
      BY <1>1 DEF StoredRows, Pending
    <3>4. \A q \in 0 .. Length(r) - 1 :
            cells[l][SlotOf(kv[r][l].table, q)] = Token(r, q)
      BY <2>1, <3>3 DEF RequestInv, OwnRows
    <3>5. ASSUME NEW q \in 0 .. Length(r)
          PROVE  Mapped(kv[r][l].table, q) /\ SlotOf(kv[r][l].table, q) \in Slots
      <4>1. /\ Length(r) + 1 \in Nat /\ q \in 0 .. (Length(r) + 1) - 1
            /\ PagesFor(Length(r) + 1) \in Nat
        <5>1. Length(r) + 1 \in Nat /\ q \in 0 .. (Length(r) + 1) - 1
          BY <2>2
        <5>2. PagesFor(Length(r) + 1) \in Nat
          BY <5>1, PagesForIsMonotone
        <5> QED BY <5>1, <5>2
      <4>2. Len(kv[r][l].table) >= PagesFor(Length(r) + 1)
        BY <3>2, <4>1
      <4> QED BY <3>1, <4>1, <4>2, CoveredIsMapped
    <3> QED BY <3>1, <3>4, <3>5
  <2> QED BY SMTT(40), <2>1, <2>2, <2>3, <2>4, <2>5, Constants
<1>3. ASSUME NEW l \in Layers, NEW r \in Active, NEW b \in Active,
             NEW q \in 0 .. Length(r), storesTo(l, SlotOf(kv[r][l].table, q), b)
      PROVE  b = r /\ q = Length(r)
  <2>1. /\ Mapped(kv[b][l].table, Length(b))
        /\ SlotOf(kv[b][l].table, Length(b)) = SlotOf(kv[r][l].table, q)
        /\ Length(b) \in Nat /\ q \in Nat
    <3>1. Length(b) + 1 - 1 = Length(b) /\ Length(b) \in Nat
      BY <1>2
    <3> QED BY <1>3, <3>1
  <2>2. Mapped(kv[r][l].table, q) /\ r \in Requests /\ b \in Requests
    BY <1>2
  <2>3. /\ kv[r][l].table = Tables(l)[r] /\ kv[b][l].table = Tables(l)[b]
        /\ Sound(pools[l], Tables(l), Requests)
    BY <1>1, <1>2 DEF PoolsSound
  <2> HIDE DEF Tables
  <2>4. b = r /\ Length(b) = q
    BY <2>1, <2>2, <2>3, SlotsDistinct
  <2> QED BY <2>4
<1>4. ASSUME NEW l \in Layers, NEW r \in Active, NEW q \in 0 .. Length(r)
      PROVE  cells'[l][SlotOf(kv[r][l].table, q)] = Token(r, q)
  <2> DEFINE slot == SlotOf(kv[r][l].table, q)
  <2>1. slot \in Slots
    BY <1>2
  <2>2. cells'[l][slot] = stored(l, slot)
    BY <1>1, <2>1
  <2>3. CASE q = Length(r)
    <3>1. storesTo(l, slot, r)
      <4>1. Length(r) + 1 - 1 = Length(r)
        BY <1>2
      <4> QED BY <1>2, <2>3, <4>1
    <3>2. /\ rowStores(l, slot, Row(Active, r))
          /\ \A row \in Rows(Active) : rowStores(l, slot, row) => row = Row(Active, r)
      <4>1. \A b \in Active : storesTo(l, slot, b) => b = r
        BY <1>3
      <4>2. storesTo(l, slot, RequestAt(Active, Row(Active, r)))
        BY <1>12, <3>1
      <4>3. ASSUME NEW row \in Rows(Active), rowStores(l, slot, row)
            PROVE  row = Row(Active, r)
        <5>1. RequestAt(Active, row) = r
          <6> HIDE DEF storesTo, rowStores, slot
          <6> QED BY <1>11, <1>13, <2>1, <4>1, <4>3
        <5> QED BY <1>11, <5>1
      <4> HIDE DEF storesTo, rowStores, slot
      <4> QED BY <1>12, <1>13, <2>1, <4>2, <4>3
    <3>3. stored(l, slot) = Packed[Row(Active, r)].token
      <4> HIDE DEF rowStores, slot
      <4> QED BY <1>12, <3>2
    <3>4. Packed[Row(Active, r)].token = Last(r)
      BY <1>11, <1>12
    <3> QED BY <1>2, <2>2, <2>3, <3>3, <3>4
  <2>4. CASE q # Length(r)
    <3>1. ~\E row \in Rows(Active) : rowStores(l, slot, row)
      <4>1. \A b \in Active : ~storesTo(l, slot, b)
        BY <1>3, <2>4
      <4> HIDE DEF storesTo, rowStores, slot
      <4> QED BY <1>11, <1>13, <2>1, <4>1
    <3>2. stored(l, slot) = cells[l][slot]
      <4> HIDE DEF rowStores, slot
      <4> QED BY <3>1
    <3>3. q \in 0 .. Length(r) - 1
      BY <1>2, <2>4
    <3> QED BY <1>2, <2>2, <3>2, <3>3
  <2> QED BY <2>3, <2>4
<1>5. ASSUME NEW r \in Active
      PROVE  Sampled(r)' = Token(r, Length(r) + 1)
  <2>1. Sampled(r)' = NextToken(cells', tables(r), Length(r) + 1)
    <3>1. Sampled(r)' = batch'.next[Row(batch'.active, r)]
      BY DEF Sampled, Row
    <3>2. Sampled(r)' = sampledAt(Row(Active, r))
      <4>1. batch'.active = Active /\ Row(Active, r) \in Rows(Active)
        BY <1>1, <1>12
      <4>2. batch'.next = [row \in Rows(Active) |-> sampledAt(row)]
        BY <1>1
      <4> HIDE DEF sampledAt
      <4> QED BY <3>1, <4>1, <4>2
    <3>3. /\ Packed[Row(Active, r)].tables = tables(r)
          /\ Packed[Row(Active, r)].valid = Length(r) + 1
      <4> HIDE DEF tables
      <4> QED BY <1>11, <1>12
    <3> HIDE DEF tables
    <3> QED BY <3>2, <3>3
  <2>2. Length(r) \in Nat /\ Length(r) + 1 \in Nat \ {0} /\ r \in Requests
        /\ Length(r) + 1 \in 0 .. Capacity
    BY <1>2
  <2>3. \A l \in Layers : \A q \in 0 .. (Length(r) + 1) - 1 :
           /\ Mapped(tables(r)[l], q)
           /\ cells'[l][SlotOf(tables(r)[l], q)] = Token(r, q)
    <3>1. (Length(r) + 1) - 1 = Length(r)
      BY <2>2
    <3> QED BY <1>2, <1>4, <3>1
  <2> HIDE DEF tables
  <2>4. NextToken(cells', tables(r), Length(r) + 1) = Token(r, Length(r) + 1)
    BY <2>2, <2>3, NextTokenIsOwn
  <2> QED BY <2>1, <2>4
<1>6. Types'
  <2>1. cells' \in [Layers -> [Slots -> Tokens \cup {NoRow}]]
    <3> SUFFICES ASSUME NEW l \in Layers, NEW slot \in Slots
                 PROVE  stored(l, slot) \in Tokens \cup {NoRow}
      BY <1>1
    <3>1. CASE \E row \in Rows(Active) : rowStores(l, slot, row)
      <4> DEFINE row == CHOOSE i \in Rows(Active) : rowStores(l, slot, i)
      <4>1. row \in Rows(Active)
        <5> HIDE DEF rowStores
        <5> QED BY <3>1
      <4>2. stored(l, slot) = Packed[row].token
        <5> HIDE DEF rowStores
        <5> QED BY <3>1
      <4> HIDE DEF row, stored, rowStores
      <4>3. RequestAt(Active, row) \in Active /\ Packed[row].token = Last(RequestAt(Active, row))
        BY <1>11, <4>1
      <4> QED BY <1>2, <4>2, <4>3
    <3>2. CASE ~\E row \in Rows(Active) : rowStores(l, slot, row)
      <4>1. cells[l][slot] \in Tokens \cup {NoRow}
        BY <1>1 DEF Types
      <4> HIDE DEF rowStores
      <4> QED BY <3>2, <4>1
    <3> QED BY <3>1, <3>2
  <2>2. batch'.active \subseteq Requests
    BY <1>1 DEF Active
  <2>3. metrics' \in [preemptions : Nat, resumes : Nat, batch : 0 .. N]
    <3>1. metrics \in [preemptions : Nat, resumes : Nat, batch : 0 .. N]
      BY <1>1 DEF Types
    <3>2. Cardinality(Active) \in 0 .. N
      <4>1. Active \subseteq Requests /\ IsFiniteSet(Requests)
        BY Constants DEF Active
      <4>2. Cardinality(Requests) = N
        BY Constants, FS_Interval DEF Requests
      <4>3. Cardinality(Active) <= Cardinality(Requests) /\ IsFiniteSet(Active)
        BY <4>1, FS_Subset
      <4>4. Cardinality(Active) \in Nat
        BY <4>3, FS_CardinalityType
      <4> QED BY <4>2, <4>3, <4>4, Constants
    <3>3. MaxOf(metrics.batch, Cardinality(Active)) \in 0 .. N
      BY <3>1, <3>2 DEF MaxOf
    <3> QED BY <1>1, <3>1, <3>3
  <2>4. 1 \in 1 .. N + 1
    BY Constants
  <2> QED BY <1>1, <2>1, <2>2, <2>3, <2>4 DEF Types
<1>7. PoolsSound'
  BY <1>1 DEF PoolsSound, Tables
<1>8. ASSUME NEW r \in Requests, r \in Active  PROVE RequestInv(r)'
  <2>1. Length(r)' = Length(r) /\ r \in Nat \ {0}
    BY <1>1, Constants DEF Length
  <2>2. Pending(r)' /\ Ahead(r)' /\ ~Prefilling(r)' /\ ~Prefilling(r) /\ RequestInv(r)
    BY <1>1, <1>2, <1>8, <2>1 DEF Pending, Ahead, Prefilling
  <2>3. Covered(r)' = Length(r) + 1 /\ Covered(r) = Length(r) + 1
        /\ StoredRows(r)' = Length(r) + 1
    BY <1>1, <1>2, <1>8, <2>1, <2>2 DEF Covered, StoredRows
  <2>4. LayersAgree(r)'
    BY <1>1, <2>1, <2>2, <2>3 DEF RequestInv, LayersAgree
  <2>5. OwnRows(r)'
    <3>1. (Length(r) + 1) - 1 = Length(r)
      BY <1>2, <1>8
    <3>2. kv' = kv /\ \A l \in Layers : \A q \in 0 .. Length(r) :
            cells'[l][SlotOf(kv[r][l].table, q)] = Token(r, q)
      BY <1>1, <1>4, <1>8
    <3> QED BY <2>3, <3>1, <3>2 DEF OwnRows
  <2>6. OwnTokens(r)' /\ Stands(r)'
    BY <1>1, <2>1, <2>2 DEF RequestInv, OwnTokens, Stands
  <2>7. OwnSample(r)'
    <3>1. Sampled(r)' = Token(r, Length(r) + 1) /\ state'[r] = "Decode"
      BY <1>1, <1>2, <1>5, <1>8
    <3> QED BY <2>1, <3>1 DEF OwnSample
  <2> QED BY <2>4, <2>5, <2>6, <2>7 DEF RequestInv
<1>9. ASSUME NEW r \in Requests, r \notin Active  PROVE RequestInv(r)'
  <2>1. /\ RequestInv(r) /\ ~Prefilling(r) /\ ~Prefilling(r)' /\ state[r] # "Decode"
        /\ ~Ahead(r) /\ ~Ahead(r)' /\ ~Pending(r) /\ ~Pending(r)'
        /\ Length(r)' = Length(r)
    BY <1>1, <1>9, OutsideTheBatch DEF Prefilling, Active, Ahead, Length, Pending
  <2>2. Length(r) = 0
    BY <1>1, <2>1 DEF RequestInv, Stands, Types
  <2>3. StoredRows(r) = 0 /\ StoredRows(r)' = 0
    BY <2>1, <2>2 DEF StoredRows
  <2>4. Covered(r)' = Covered(r)
    BY <2>1 DEF Covered
  <2>5. LayersAgree(r)'
    BY <1>1, <2>1, <2>4 DEF RequestInv, LayersAgree
  <2>6. OwnRows(r)' /\ OwnSample(r)'
    BY <2>1, <2>3 DEF OwnRows, OwnSample
  <2>7. OwnTokens(r)' /\ Stands(r)'
    BY <1>1, <2>1 DEF RequestInv, OwnTokens, Stands
  <2> QED BY <2>5, <2>6, <2>7 DEF RequestInv
<1>10. \A r \in Requests : state'[r] = "Preempted" => OwnSnapshot(r)'
  BY <1>1 DEF IInv, OwnSnapshot
<1> QED BY <1>6, <1>7, <1>8, <1>9, <1>10 DEF IInv

----------------------------------------------------------------------------
(* The steps that store rows of one request through a table just staged.   *)

LEMMA StoreType ==
  ASSUME NEW V, NEW c \in [Slots -> V], NEW table, NEW positions, NEW content,
         \A q \in positions : content[q] \in V
  PROVE  Store(c, table, positions, content) \in [Slots -> V]
<1> SUFFICES ASSUME NEW slot \in Slots
             PROVE  Store(c, table, positions, content)[slot] \in V
  BY DEF Store
<1> DEFINE here(q) == Mapped(table, q) /\ SlotOf(table, q) = slot
<1>1. Store(c, table, positions, content)[slot]
        = IF \E q \in positions : here(q)
          THEN content[CHOOSE q \in positions : here(q)] ELSE c[slot]
  BY DEF Store
<1> HIDE DEF here
<1>2. CASE \E q \in positions : here(q)
  <2>1. (CHOOSE q \in positions : here(q)) \in positions
    BY <1>2
  <2> QED BY <1>1, <1>2, <2>1
<1>3. CASE ~\E q \in positions : here(q)
  BY <1>1, <1>3
<1> QED BY <1>2, <1>3

\* The first n rows of a request, and a layer that holds them through a table.
RowsOf(r, n) == [q \in 0 .. n - 1 |-> Token(r, q)]

Holds(c, table, r, n) == \A q \in 0 .. n - 1 : c[SlotOf(table, q)] = Token(r, q)

\* After those from the m-th on were stored the layer holds them all.
LEMMA OwnRowsStored ==
  ASSUME NEW r \in Requests, NEW P, NEW T, Sound(P, T, Requests),
         NEW m \in Nat, NEW n \in Nat, Len(T[r]) >= PagesFor(n),
         NEW c, Holds(c, T[r], r, m),
         NEW new, new = Store(c, T[r], m .. n - 1, RowsOf(r, n))
  PROVE  /\ \A q \in 0 .. n - 1 : Mapped(T[r], q)
         /\ Holds(new, T[r], r, n)
<1> SUFFICES ASSUME NEW q \in 0 .. n - 1
             PROVE  Mapped(T[r], q) /\ new[SlotOf(T[r], q)] = Token(r, q)
  BY DEF Holds
<1>1. T[r] \in Seq(Pages) /\ q \in Nat
  BY DEF Sound
<1>2. Mapped(T[r], q)
  BY <1>1, CoveredIsMapped
<1> DEFINE positions == m .. n - 1
           content   == RowsOf(r, n)
<1>3. positions \in SUBSET Nat
  OBVIOUS
<1>4. new = Store(c, T[r], positions, content)
  OBVIOUS
<1>5. q \in positions \/ q \in 0 .. m - 1
  BY <1>1
<1>6. content[q] = Token(r, q)
  BY DEF RowsOf
<1> HIDE DEF positions, content
<1>7. SlotOf(T[r], q) \in Slots
  BY <1>1, CoveredIsMapped
<1>8. \A p \in positions : Mapped(T[r], p) /\ SlotOf(T[r], p) = SlotOf(T[r], q) => p = q
  BY <1>1, <1>2, <1>3, SlotsDistinct
<1>9. CASE q \in positions
  <2>1. (CHOOSE p \in positions : Mapped(T[r], p) /\ SlotOf(T[r], p) = SlotOf(T[r], q)) = q
    BY <1>2, <1>8, <1>9
  <2> QED BY <1>2, <1>4, <1>6, <1>7, <1>9, <2>1 DEF Store
<1>10. CASE q \notin positions
  <2>1. ~\E p \in positions : Mapped(T[r], p) /\ SlotOf(T[r], p) = SlotOf(T[r], q)
    BY <1>8, <1>10
  <2>2. new[SlotOf(T[r], q)] = c[SlotOf(T[r], q)]
    BY <1>4, <1>7, <2>1 DEF Store
  <2> QED BY <1>2, <1>5, <1>10, <2>2 DEF Holds
<1> QED BY <1>9, <1>10

\* The rows of the others are not touched.
SameRows(new, c, table, m) ==
  \A q \in 0 .. m - 1 : new[SlotOf(table, q)] = c[SlotOf(table, q)]

LEMMA OtherRowsStay ==
  ASSUME NEW r \in Requests, NEW P, NEW T, Sound(P, T, Requests),
         NEW b \in Requests \ {r}, NEW m \in Nat, Len(T[b]) >= PagesFor(m),
         NEW c, NEW positions \in SUBSET Nat, NEW content,
         NEW new, new = Store(c, T[r], positions, content)
  PROVE  SameRows(new, c, T[b], m)
<1> SUFFICES ASSUME NEW q \in 0 .. m - 1
             PROVE  new[SlotOf(T[b], q)] = c[SlotOf(T[b], q)]
  BY DEF SameRows
<1>1. T[b] \in Seq(Pages) /\ q \in Nat /\ b \in Requests /\ b # r
  BY DEF Sound
<1>2. Mapped(T[b], q) /\ SlotOf(T[b], q) \in Slots
  BY <1>1, CoveredIsMapped
<1>3. ~\E p \in positions : Mapped(T[r], p) /\ SlotOf(T[r], p) = SlotOf(T[b], q)
  BY <1>1, <1>2, SlotsDistinct
<1> QED BY <1>2, <1>3 DEF Store

LEMMA StageIsOutcome ==
  ASSUME NEW pool, NEW st, NEW n, NEW faults,
         NEW out, out = StageLength(pool, st, n, faults)
  PROVE  out = [pool |-> out.pool, state |-> out.state, ok |-> out.ok]
<1>1. ASSUME NEW a, NEW b, NEW c, out = Outcome(a, b, c)
      PROVE  out = [pool |-> out.pool, state |-> out.state, ok |-> out.ok]
  BY <1>1 DEF Outcome
<1>2. \E a, b, c : out = Outcome(a, b, c)
  <2> DEFINE grown  == ResizePageAllocation(pool, st.table, PagesFor(n))
             undone == ResizePageAllocation(grown.pool, grown.table, Len(st.table))
             seen   == IF "table" \in faults THEN st.devTable
                       ELSE IF "rewrite" \in faults THEN grown.table
                       ELSE undone.table
  <2>1. CASE n = 0 \/ n > Capacity
    BY <2>1 DEF StageLength
  <2>2. CASE ~(n = 0 \/ n > Capacity) /\ ~grown.ok
    BY <2>2 DEF StageLength
  <2>3. CASE ~(n = 0 \/ n > Capacity) /\ grown.ok /\ faults \cap {"table", "length"} # {}
    <3>1. out = Outcome(undone.pool,
                        [st EXCEPT !.table = undone.table, !.devTable = seen],
                        FALSE)
      BY <2>3 DEF StageLength
    <3> QED BY <3>1
  <2>4. CASE ~(n = 0 \/ n > Capacity) /\ grown.ok /\ ~(faults \cap {"table", "length"} # {})
    <3>1. out = Outcome(grown.pool,
                        [st EXCEPT !.table = grown.table,
                                   !.devTable = grown.table,
                                   !.devLength = n],
                        TRUE)
      BY <2>4 DEF StageLength
    <3> QED BY <3>1
  <2> QED BY <2>1, <2>2, <2>3, <2>4
<1> QED BY <1>1, <1>2

\* How far a chunk gets: not at all only when the prompt is complete.
LEMMA ChunkProgress ==
  ASSUME Types, NEW r \in Requests, Length(r) < specs[r].prompt
  PROVE  /\ ChunkLength(r) \in Nat \ {0}
         /\ Length(r) + ChunkLength(r) <= specs[r].prompt
         /\ Length(r) + ChunkLength(r) \in 1 .. specs[r].prompt
<1> DEFINE choices == {ChunkSize, specs[r].prompt - 1, specs[r].prompt - Length(r)}
<1>1. /\ ChunkSize \in Nat \ {0} /\ specs[r].prompt \in Nat /\ specs[r].prompt >= 2
      /\ Length(r) \in Nat
  BY Constants, Values
<1>2. choices \subseteq Nat \ {0} /\ choices # {}
  BY <1>1
<1>3. specs[r].prompt - Length(r) \in choices
  OBVIOUS
<1>4. ChunkLength(r) = Min(choices)
  BY DEF ChunkLength
<1> HIDE DEF choices
<1>5. choices \subseteq Nat
  BY <1>2
<1>6. PICK x \in choices : \A y \in choices : x <= y
  BY <1>2, <1>5, LeastNumber
<1>7. Min(choices) \in choices /\ \A y \in choices : Min(choices) <= y
  BY <1>6 DEF Min
<1> DEFINE c == ChunkLength(r)
<1>8. c \in Nat \ {0} /\ c <= specs[r].prompt - Length(r)
  BY <1>2, <1>3, <1>4, <1>7
<1> HIDE DEF c
<1>9. Length(r) + c <= specs[r].prompt /\ Length(r) + c \in 1 .. specs[r].prompt
  BY <1>1, <1>8
<1> QED BY <1>8, <1>9 DEF c

\* A chunk of the prompt: staged, stored, attended to and committed.
LEMMA PrefillChunkKeeps ==
  ASSUME IInv, NEW r \in Requests, PrefillChunk(r)
  PROVE  IInv'
<1> DEFINE n       == Length(r) + ChunkLength(r)
           staged  == Staged(r, n)
           tables  == [l \in Layers |-> staged[l].state.devTable]
           rows    == RowsOf(r, n)
           ran     == [l \in Layers |-> [staged[l] EXCEPT !.state = CommitLength(@, n)]]
           last    == n = specs[r].prompt
           done    == last /\ specs[r].decode = 0
           emptied == [l \in Layers |-> Reset(ran[l].pool, ran[l].state, {})]
           o       == IF done THEN emptied ELSE ran
<1>1. /\ \/ pc = "prefill" /\ state[r] = "Waiting"
         \/ pc = "chunk" /\ cursor = r
      /\ Types /\ PoolsSound /\ \A b \in Requests : RequestInv(b)
  BY DEF PrefillChunk, Reaches, MayPrefill, IInv
<1>2. CASE Throw("prefill")
  BY <1>1, <1>2, ThrowKeeps
<1>3. CASE /\ Succeeds(staged)
           /\ Become(r, o)
           /\ cells' = [l \in Layers |->
                          Store(cells[l], tables[l], Length(r) .. n - 1, rows)]
           /\ generated' = [generated EXCEPT ![r] =
                              IF last THEN <<NextToken(cells', tables, n)>> ELSE @]
           /\ state' = [state EXCEPT ![r] = IF done THEN "Finished"
                                            ELSE IF last THEN "Decode" ELSE @]
           /\ progress' = (progress \/ last)
           /\ pc' = IF last THEN "prefill" ELSE "chunk"
           /\ cursor' = IF last THEN r + 1 ELSE r
           /\ UNCHANGED <<specs, snapshot, batch, tick, cause, metrics>>
  <2>1. /\ Length(r) \in Nat /\ specs[r].prompt \in Nat /\ specs[r].decode \in Nat
        /\ specs[r].prompt \in 0 .. Capacity /\ specs[r].prompt >= 2
        /\ Len(generated[r]) \in Nat /\ Capacity \in Nat
        /\ r \in 1 .. N /\ N \in Nat /\ progress \in BOOLEAN
    <3>1. r \in 1 .. N /\ progress \in BOOLEAN
      BY <1>1 DEF Types, Requests
    <3> QED BY <1>1, <3>1, Values, Constants
  <2>2. /\ state[r] = "Waiting" /\ RequestInv(r) /\ Length(r) < specs[r].prompt
        /\ generated[r] = <<>> /\ ~Ahead(r) /\ ~Pending(r)
        /\ Covered(r) = Length(r) /\ StoredRows(r) = Length(r)
    <3>1. RequestInv(r) /\ ~Pending(r) /\ ~Ahead(r)
      BY <1>1, OutsideTheBatch
    <3>2. state[r] = "Waiting" /\ Length(r) < specs[r].prompt
      BY <1>1, <2>1, <3>1, OutsideTheBatch DEF RequestInv, Stands, Prefilling
    <3>3. Len(generated[r]) = 0 /\ generated[r] \in Seq(Tokens)
      BY <1>1, <3>1, <3>2 DEF RequestInv, Stands, Types
    <3>4. generated[r] = <<>>
      BY <3>3
    <3> QED BY <3>1, <3>2, <3>4 DEF Covered, StoredRows
  <2>3. n \in Nat /\ n > Length(r) /\ n \in 1 .. specs[r].prompt /\ n - 1 \in Nat
    BY <1>1, <2>1, <2>2, ChunkProgress
  <2> HIDE DEF n
  <2>4. ASSUME NEW l \in Layers
        PROVE  /\ Sound(staged[l].pool, [Tables(l) EXCEPT ![r] = staged[l].state.table],
                        Requests)
               /\ staged[l].state \in StateType
               /\ Len(staged[l].state.table) = PagesFor(n)
               /\ tables[l] = staged[l].state.table
               /\ \A q \in 0 .. Length(r) - 1 :
                    SlotOf(staged[l].state.table, q) = SlotOf(kv[r][l].table, q)
    <3>1. LayersAgree(r) /\ staged[l] = Staged(r, n)[l]
      BY <2>2 DEF RequestInv
    <3>2. Succeeds(Staged(r, n))
      BY <1>3
    <3> DEFINE x == staged[l]
    <3>3. x = Staged(r, n)[l]
      OBVIOUS
    <3>4. tables[l] = x.state.devTable
      OBVIOUS
    <3> HIDE DEF x, staged, tables
    <3>5. /\ Sound(x.pool, [Tables(l) EXCEPT ![r] = x.state.table], Requests)
          /\ x.state \in StateType
          /\ Len(x.state.table) = PagesFor(n)
          /\ x.state.devTable = x.state.table
          /\ \A q \in 0 .. Length(r) - 1 :
               SlotOf(x.state.table, q) = SlotOf(kv[r][l].table, q)
      BY <1>1, <2>2, <2>3, <3>1, <3>2, <3>3, StagedOnAll
    <3> QED BY <3>4, <3>5 DEF x
  <2>5. ASSUME NEW l \in Layers
        PROVE  /\ ran[l].pool = staged[l].pool
               /\ ran[l].state \in StateType
               /\ ran[l].state.length = n
               /\ ran[l].state.table = staged[l].state.table
    <3> DEFINE x == staged[l]
    <3>1. x = [pool |-> x.pool, state |-> x.state, ok |-> x.ok]
      <4>1. x = StageLength(pools[l], kv[r][l], n, {})
        BY DEF Staged, Outcomes
      <4> HIDE DEF x
      <4> QED BY <4>1, StageIsOutcome
    <3>2. ran[l] = [x EXCEPT !.state = CommitLength(x.state, n)]
      OBVIOUS
    <3>3. n \in 0 .. Capacity
      BY <2>1, <2>3
    <3>6. x.state \in StateType
      BY <2>4
    <3> HIDE DEF x, ran
    <3>4. ran[l].pool = x.pool /\ ran[l].state = CommitLength(x.state, n)
      BY <3>1, <3>2
    <3>5. /\ CommitLength(x.state, n) \in StateType
          /\ CommitLength(x.state, n).length = n
          /\ CommitLength(x.state, n).table = x.state.table
      BY <3>3, <3>6 DEF CommitLength, StateType
    <3> QED BY <3>4, <3>5 DEF x
  <2> HIDE DEF staged, ran, done, last
  <2> DEFINE left == IF done THEN 0 ELSE n
  <2>6. /\ pools' \in [Layers -> PoolType]
        /\ kv' \in [Requests -> [Layers -> StateType]]
        /\ PoolsSound'
        /\ \A b \in Requests \ {r} : kv'[b] = kv[b]
        /\ \A l \in Layers : /\ kv'[r][l].length = left
                             /\ Len(kv'[r][l].table) = PagesFor(left)
                             /\ ~done => kv'[r][l].table = staged[l].state.table
    <3>1. ASSUME NEW l \in Layers
          PROVE  /\ Sound(o[l].pool, [Tables(l) EXCEPT ![r] = o[l].state.table], Requests)
                 /\ o[l].state \in StateType
                 /\ o[l].state.length = left
                 /\ Len(o[l].state.table) = PagesFor(left)
                 /\ ~done => o[l].state.table = staged[l].state.table
      <4>1. CASE done
        <5> DEFINE T == [Tables(l) EXCEPT ![r] = staged[l].state.table]
                   x == emptied[l]
        <5>1. Holder(ran[l].pool, T, Requests, r, ran[l].state)
          BY <1>1, <2>4, <2>5, Values DEF Holder
        <5>2. x = Reset(ran[l].pool, ran[l].state, {})
          OBVIOUS
        <5> HIDE DEF T, x
        <5>3. /\ Sound(x.pool, [T EXCEPT ![r] = x.state.table], Requests)
              /\ x.state \in StateType /\ x.state = NewState
          BY <5>1, <5>2, ResetEmpties
        <5>4. [T EXCEPT ![r] = x.state.table] = [Tables(l) EXCEPT ![r] = x.state.table]
          BY DEF T
        <5>5. o[l] = x
          BY <4>1 DEF x
        <5>6. NewState.length = 0 /\ NewState.table = <<>> /\ left = 0
          BY <4>1 DEF NewState
        <5> HIDE DEF o, left
        <5> QED BY <4>1, <5>3, <5>4, <5>5, <5>6, PagesForIsMonotone
      <4>2. CASE ~done
        <5>1. o[l] = ran[l] /\ left = n
          BY <4>2
        <5> HIDE DEF o, left
        <5> QED BY <2>4, <2>5, <5>1
      <4> QED BY <4>1, <4>2
    <3> HIDE DEF o, left
    <3>2. AllSound(r, o)
      BY <3>1 DEF AllSound
    <3>3. Types /\ PoolsSound /\ r \in Requests /\ Become(r, o)
      BY <1>1, <1>3
    <3>4. /\ pools' \in [Layers -> PoolType]
          /\ kv' \in [Requests -> [Layers -> StateType]]
          /\ PoolsSound'
          /\ \A l \in Layers : kv'[r][l] = o[l].state
          /\ \A b \in Requests \ {r} : kv'[b] = kv[b]
      BY <3>2, <3>3, BecomeKeeps
    <3> QED BY <3>1, <3>4
  <2>7. ASSUME NEW l \in Layers
        PROVE  /\ cells'[l] = Store(cells[l], staged[l].state.table, Length(r) .. n - 1, rows)
               /\ \A q \in 0 .. n - 1 : Mapped(staged[l].state.table, q)
               /\ Holds(cells'[l], staged[l].state.table, r, n)
               /\ \A b \in Requests \ {r} :
                    SameRows(cells'[l], cells[l], kv[b][l].table, StoredRows(b))
    <3> DEFINE t == staged[l].state.table
               T == [Tables(l) EXCEPT ![r] = t]
    <3>1. cells'[l] = Store(cells[l], t, Length(r) .. n - 1, rows)
      BY <1>3, <2>4
    <3>2. /\ Sound(staged[l].pool, T, Requests) /\ T[r] = t
          /\ \A b \in Requests \ {r} : T[b] = kv[b][l].table
      BY <2>4 DEF Tables
    <3>3. Holds(cells[l], t, r, Length(r))
      BY <2>2, <2>4 DEF RequestInv, OwnRows, Holds
    <3>4. Len(t) >= PagesFor(n)
      <4>1. PagesFor(n) \in Nat
        BY <2>3, PagesForIsMonotone
      <4>2. Len(t) = PagesFor(n)
        BY <2>4
      <4> QED BY <4>1, <4>2
    <3> HIDE DEF t, T
    <3>5. cells'[l] = Store(cells[l], T[r], Length(r) .. n - 1, RowsOf(r, n))
      BY <3>1, <3>2
    <3>6. (\A q \in 0 .. n - 1 : Mapped(t, q)) /\ Holds(cells'[l], t, r, n)
      BY <2>1, <2>3, <3>2, <3>3, <3>4, <3>5, OwnRowsStored
    <3>7. ASSUME NEW b \in Requests \ {r}
          PROVE  SameRows(cells'[l], cells[l], kv[b][l].table, StoredRows(b))
      <4>1. RequestInv(b) /\ ~Ahead(b) /\ ~Pending(b) /\ Length(b) \in Nat
        BY <1>1, OutsideTheBatch, Values
      <4>2. StoredRows(b) = Length(b) /\ Covered(b) = Length(b)
        BY <4>1 DEF StoredRows, Covered
      <4>3. Len(T[b]) >= PagesFor(Length(b))
        <5>1. Len(T[b]) = PagesFor(Length(b)) /\ PagesFor(Length(b)) \in Nat
          BY <3>2, <4>1, <4>2, PagesForIsMonotone DEF RequestInv, LayersAgree
        <5> QED BY <5>1
      <4> DEFINE positions == Length(r) .. n - 1
      <4>4. cells'[l] = Store(cells[l], T[r], positions, rows) /\ positions \in SUBSET Nat
        BY <2>1, <3>5
      <4> HIDE DEF positions, rows
      <4>5. SameRows(cells'[l], cells[l], T[b], Length(b))
        BY <3>2, <4>1, <4>3, <4>4, OtherRowsStay
      <4> QED BY <3>2, <4>2, <4>5
    <3> QED BY <3>1, <3>6, <3>7 DEF t
  <2>8. last => NextToken(cells', tables, n) = Token(r, specs[r].prompt)
    <3>1. \A l \in Layers : \A q \in 0 .. n - 1 :
            Mapped(tables[l], q) /\ cells'[l][SlotOf(tables[l], q)] = Token(r, q)
      BY <2>4, <2>7 DEF Holds
    <3>2. n \in Nat \ {0}
      BY <2>3
    <3> HIDE DEF tables
    <3>3. NextToken(cells', tables, n) = Token(r, n)
      BY <3>1, <3>2, NextTokenIsOwn
    <3> QED BY <3>3 DEF last
  <2> HIDE DEF left, tables
  <2>9. /\ state'[r] = (IF done THEN "Finished" ELSE IF last THEN "Decode" ELSE "Waiting")
        /\ generated'[r] = (IF last THEN <<Token(r, specs[r].prompt)>> ELSE <<>>)
        /\ \A b \in Requests \ {r} : state'[b] = state[b] /\ generated'[b] = generated[b]
        /\ done => last
    BY <1>1, <1>3, <2>2, <2>8 DEF Types, done
  <2>10. Types'
    <3>1. state' \in [Requests -> {"Waiting", "Decode", "Preempted", "Finished"}]
      <4>1. state \in [Requests -> {"Waiting", "Decode", "Preempted", "Finished"}]
        BY <1>1 DEF Types
      <4> QED BY <1>3, <4>1
    <3>2. generated' \in [Requests -> Seq(Tokens)]
      <4>1. generated \in [Requests -> Seq(Tokens)] /\ Token(r, specs[r].prompt) \in Tokens
        BY <1>1, <2>1, Constants DEF Types
      <4>2. generated'[r] \in Seq(Tokens)
        BY <2>9, <4>1
      <4>3. generated' = [generated EXCEPT ![r] = generated'[r]]
        BY <1>3, <4>1
      <4> QED BY <4>1, <4>2, <4>3
    <3>3. cells' \in [Layers -> [Slots -> Tokens \cup {NoRow}]]
      <4> SUFFICES ASSUME NEW l \in Layers
                   PROVE  cells'[l] \in [Slots -> Tokens \cup {NoRow}]
        BY <1>3
      <4>1. cells[l] \in [Slots -> Tokens \cup {NoRow}]
        BY <1>1 DEF Types
      <4>2. \A q \in Length(r) .. n - 1 : rows[q] \in Tokens \cup {NoRow}
        <5> SUFFICES ASSUME NEW q \in Length(r) .. n - 1
                     PROVE  rows[q] \in Tokens \cup {NoRow}
          OBVIOUS
        <5>1. q \in 0 .. n - 1 /\ q \in 0 .. Capacity
          BY <2>1, <2>3
        <5> QED BY <5>1, Constants DEF RowsOf
      <4> DEFINE positions == Length(r) .. n - 1
                 V == Tokens \cup {NoRow}
      <4>3. /\ cells'[l] = Store(cells[l], staged[l].state.table, positions, rows)
            /\ cells[l] \in [Slots -> V] /\ \A q \in positions : rows[q] \in V
        BY <2>7, <4>1, <4>2
      <4> HIDE DEF positions, V, rows
      <4>4. cells'[l] \in [Slots -> V]
        BY <4>3, StoreType
      <4> QED BY <4>4 DEF V
    <3>4. /\ progress' \in BOOLEAN /\ cursor' \in 1 .. N + 1
          /\ pc' \in {"prefill", "chunk"}
      BY <1>3, <2>1
    <3> QED BY <1>1, <1>3, <2>6, <3>1, <3>2, <3>3, <3>4 DEF Types
  <2>11. RequestInv(r)'
    <3>1. Length(r)' = left
      BY <2>6, Constants DEF Length
    <3>2. /\ ~Ahead(r)' /\ ~Pending(r)' /\ (Prefilling(r)' <=> ~last)
      BY <1>3, <2>1, <2>2, <2>9 DEF Ahead, Pending, Prefilling
    <3>3. Covered(r)' = left /\ StoredRows(r)' = left
      BY <3>1, <3>2 DEF Covered, StoredRows
    <3>4. LayersAgree(r)'
      BY <2>6, <3>1, <3>3 DEF LayersAgree
    <3>5. OwnRows(r)'
      <4>1. CASE done
        BY <3>3, <4>1 DEF OwnRows, left
      <4>2. CASE ~done
        BY <2>6, <2>7, <3>3, <4>2 DEF OwnRows, Holds, left
      <4> QED BY <4>1, <4>2
    <3>6. OwnTokens(r)'
      <4>1. CASE last
        <5>1. Len(generated'[r]) = 1 /\ generated'[r][1] = Token(r, specs[r].prompt)
          BY <2>9, <4>1
        <5>2. specs[r].prompt + 1 - 1 = specs[r].prompt
          BY <2>1
        <5> QED BY <1>3, <5>1, <5>2 DEF OwnTokens
      <4>2. CASE ~last
        BY <2>9, <4>2 DEF OwnTokens
      <4> QED BY <4>1, <4>2
    <3>7. Stands(r)'
      <4>1. CASE done
        <5>1. Len(generated'[r]) = 1 /\ left = 0 /\ specs[r].decode = 0 /\ last
          BY <2>9, <4>1 DEF left, done
        <5> QED BY <1>3, <2>9, <3>1, <3>2, <4>1, <5>1 DEF Stands
      <4>2. CASE last /\ ~done
        <5>1. Len(generated'[r]) = 1 /\ left = specs[r].prompt /\ specs[r].decode # 0
          BY <2>9, <4>2 DEF left, done, last
        <5>2. 1 \in 1 .. specs[r].decode /\ left = specs[r].prompt + 1 - 1
          BY <2>1, <5>1
        <5>3. /\ state'[r] = "Decode" /\ ~Prefilling(r)' /\ specs' = specs
              /\ Length(r)' = specs[r].prompt + 1 - 1
          BY <1>3, <2>9, <3>1, <3>2, <4>2, <5>2
        <5> QED BY <5>1, <5>2, <5>3 DEF Stands
      <4>3. CASE ~last
        <5>1. Len(generated'[r]) = 0 /\ left = n /\ state'[r] = "Waiting"
          BY <2>9, <4>3 DEF left
        <5>2. left \in 1 .. specs[r].prompt - 1
          BY <2>1, <2>3, <4>3, <5>1 DEF last
        <5>3. Length(r)' \in 1 .. specs'[r].prompt - 1 /\ Prefilling(r)'
          BY <1>3, <3>1, <3>2, <4>3, <5>2
        <5> QED BY <5>1, <5>3 DEF Stands
      <4> QED BY <4>1, <4>2, <4>3, <2>9
    <3>8. OwnSample(r)'
      BY <3>2 DEF OwnSample
    <3> QED BY <3>4, <3>5, <3>6, <3>7, <3>8 DEF RequestInv
  <2>12. ASSUME NEW b \in Requests \ {r}  PROVE RequestInv(b)'
    <3>1. /\ RequestInv(b) /\ ~Ahead(b) /\ ~Pending(b)
          /\ pc' \in {"prefill", "chunk"} /\ state'[b] = state[b]
      BY <1>1, <1>3, <2>9, OutsideTheBatch
    <3>2. ~Prefilling(b) /\ ~Prefilling(b)' /\ ~Ahead(b)' /\ ~Pending(b)'
      <4>1. pc = "chunk" => cursor = r
        BY <1>1
      <4>2. pc' = "chunk" => cursor' = r
        BY <1>3
      <4> QED BY <3>1, <4>1, <4>2 DEF Prefilling, Ahead, Pending
    <3>3. \A l \in Layers : \A q \in 0 .. StoredRows(b) - 1 :
            cells'[l][SlotOf(kv[b][l].table, q)] = cells[l][SlotOf(kv[b][l].table, q)]
      BY <2>7 DEF SameRows
    <3> QED BY <1>3, <2>6, <2>9, <3>1, <3>2, <3>3, Undisturbed
  <2>13. ASSUME NEW b \in Requests, state'[b] = "Preempted"  PROVE OwnSnapshot(b)'
    <3>1. b # r
      BY <2>9, <2>13
    <3> QED BY <1>3, <2>9, <2>13, <3>1 DEF IInv, OwnSnapshot
  <2> QED BY <2>6, <2>10, <2>11, <2>12, <2>13 DEF IInv
<1>4. QED
  <2>1. \/ Throw("prefill")
        \/ /\ Succeeds(staged)
           /\ Become(r, o)
           /\ cells' = [l \in Layers |->
                          Store(cells[l], tables[l], Length(r) .. n - 1, rows)]
           /\ generated' = [generated EXCEPT ![r] =
                              IF last THEN <<NextToken(cells', tables, n)>> ELSE @]
           /\ state' = [state EXCEPT ![r] = IF done THEN "Finished"
                                            ELSE IF last THEN "Decode" ELSE @]
           /\ progress' = (progress \/ last)
           /\ pc' = IF last THEN "prefill" ELSE "chunk"
           /\ cursor' = IF last THEN r + 1 ELSE r
           /\ UNCHANGED <<specs, snapshot, batch, tick, cause, metrics>>
    BY DEF PrefillChunk, RowsOf
  <2> QED BY <1>2, <1>3, <2>1

\* The snapshot's rows come back through a new table.
LEMMA ResumeKeeps ==
  ASSUME IInv, NEW r \in Requests, Resume(r)
  PROVE  IInv'
<1> DEFINE n == snapshot[r].length
           o == Outcomes(r, LAMBDA pool, kvs : Restore(pool, kvs, n, {}, {}))
<1>1. /\ pc = "resume" /\ state[r] = "Preempted"
      /\ Types /\ PoolsSound /\ \A b \in Requests : RequestInv(b)
      /\ OwnSnapshot(r)
  BY DEF Resume, Reaches, MayResume, IInv
<1>2. CASE Throw("resume")
  BY <1>1, <1>2, ThrowKeeps
<1>3. CASE /\ Succeeds(o)
           /\ Become(r, o)
           /\ cells' = [l \in Layers |->
                          Store(cells[l], o[l].state.table, 0 .. n - 1,
                                snapshot[r].rows[l])]
           /\ state' = [state EXCEPT ![r] = "Decode"]
           /\ snapshot' = [snapshot EXCEPT ![r] = NoSnapshot]
           /\ metrics' = [metrics EXCEPT !.resumes = @ + 1]
           /\ progress' = TRUE
           /\ cursor' = r + 1
           /\ UNCHANGED <<specs, generated, batch, tick, pc, cause>>
  <2> DEFINE k == Len(generated[r])
  <2>1. /\ specs[r].prompt \in Nat /\ specs[r].decode \in Nat /\ k \in Nat
        /\ specs[r].prompt >= 2 /\ Capacity \in Nat
        /\ specs[r].prompt + specs[r].decode \in 0 .. Capacity
        /\ r \in 1 .. N /\ N \in Nat
    <3>1. r \in 1 .. N
      BY DEF Requests
    <3> QED BY <1>1, <3>1, Values, Constants
  <2>2. /\ RequestInv(r) /\ ~Pending(r) /\ ~Ahead(r) /\ ~Prefilling(r)
        /\ k \in 1 .. specs[r].decode /\ Length(r) = 0
        /\ Covered(r) = 0
    BY <1>1, OutsideTheBatch DEF RequestInv, Stands, Covered
  <2>3. /\ n = specs[r].prompt + k - 1
        /\ n \in 1 .. Capacity /\ n \in Nat /\ n > 0 /\ n <= Capacity /\ n \in 0 .. Capacity
    <3>1. n = specs[r].prompt + k - 1
      BY <1>1 DEF OwnSnapshot
    <3> QED BY SMTT(40), <2>1, <2>2, <3>1
  <2>4. \A l \in Layers : snapshot[r].rows[l] = RowsOf(r, n)
    BY <1>1 DEF OwnSnapshot, RowsOf
  <2> HIDE DEF n
  <2>5. ASSUME NEW l \in Layers
        PROVE  /\ Sound(o[l].pool, [Tables(l) EXCEPT ![r] = o[l].state.table], Requests)
               /\ o[l].state \in StateType
               /\ o[l].state.length = n
               /\ Len(o[l].state.table) = PagesFor(n)
    <3> DEFINE x  == o[l]
               st == kv[r][l]
               P  == pools[l]
               T  == Tables(l)
    <3>1. x = Restore(P, st, n, {}, {}) /\ x.ok
      BY <1>3 DEF Outcomes, Succeeds
    <3>2. st \in StateType /\ st.length = 0 /\ Sound(P, T, Requests) /\ st.table = T[r]
      BY <1>1, <2>2, Values DEF PoolsSound, RequestInv, LayersAgree
    <3>3. Len(T[r]) = PagesFor(0)
      BY <2>2, <3>2 DEF RequestInv, LayersAgree
    <3> HIDE DEF x, st, P, T
    <3>4. /\ Sound(x.pool, [T EXCEPT ![r] = x.state.table], Requests)
          /\ x.state \in StateType
          /\ x.ok => /\ x.state.length = n
                     /\ Len(x.state.table) = PagesFor(n)
      BY <2>3, <3>1, <3>2, <3>3, RestoreSound
    <3> QED BY <3>1, <3>4 DEF x, T
  <2> HIDE DEF o
  <2>6. /\ pools' \in [Layers -> PoolType]
        /\ kv' \in [Requests -> [Layers -> StateType]]
        /\ PoolsSound'
        /\ \A b \in Requests \ {r} : kv'[b] = kv[b]
        /\ \A l \in Layers : kv'[r][l] = o[l].state
    <3>1. AllSound(r, o)
      BY <2>5 DEF AllSound
    <3>2. Types /\ PoolsSound /\ r \in Requests /\ Become(r, o)
      BY <1>1, <1>3
    <3> QED BY <3>1, <3>2, BecomeKeeps
  <2>7. ASSUME NEW l \in Layers
        PROVE  /\ cells'[l] = Store(cells[l], o[l].state.table, 0 .. n - 1, RowsOf(r, n))
               /\ Holds(cells'[l], o[l].state.table, r, n)
               /\ \A b \in Requests \ {r} :
                    SameRows(cells'[l], cells[l], kv[b][l].table, StoredRows(b))
    <3> DEFINE t == o[l].state.table
               T == [Tables(l) EXCEPT ![r] = t]
    <3>1. cells'[l] = Store(cells[l], t, 0 .. n - 1, RowsOf(r, n))
      BY <1>3, <2>4
    <3>2. /\ Sound(o[l].pool, T, Requests) /\ T[r] = t
          /\ \A b \in Requests \ {r} : T[b] = kv[b][l].table
      BY <2>5 DEF Tables
    <3>3. Holds(cells[l], t, r, 0)
      BY DEF Holds
    <3>4. Len(t) >= PagesFor(n)
      <4>1. PagesFor(n) \in Nat
        BY <2>3, PagesForIsMonotone
      <4>2. Len(t) = PagesFor(n)
        BY <2>5
      <4> QED BY <4>1, <4>2
    <3> HIDE DEF t, T
    <3>5. cells'[l] = Store(cells[l], T[r], 0 .. n - 1, RowsOf(r, n)) /\ 0 \in Nat
      BY <3>1, <3>2
    <3>6. Holds(cells'[l], t, r, n)
      BY <2>3, <3>2, <3>3, <3>4, <3>5, OwnRowsStored
    <3>7. ASSUME NEW b \in Requests \ {r}
          PROVE  SameRows(cells'[l], cells[l], kv[b][l].table, StoredRows(b))
      <4>1. RequestInv(b) /\ ~Ahead(b) /\ ~Pending(b) /\ Length(b) \in Nat
        BY <1>1, OutsideTheBatch, Values
      <4>2. StoredRows(b) = Length(b) /\ Covered(b) = Length(b)
        BY <4>1 DEF StoredRows, Covered
      <4>3. Len(T[b]) >= PagesFor(Length(b))
        <5>1. Len(T[b]) = PagesFor(Length(b)) /\ PagesFor(Length(b)) \in Nat
          BY <3>2, <4>1, <4>2, PagesForIsMonotone DEF RequestInv, LayersAgree
        <5> QED BY <5>1
      <4> DEFINE positions == 0 .. n - 1
                 rows      == RowsOf(r, n)
      <4>4. cells'[l] = Store(cells[l], T[r], positions, rows) /\ positions \in SUBSET Nat
        BY <3>5
      <4> HIDE DEF positions, rows
      <4>5. SameRows(cells'[l], cells[l], T[b], Length(b))
        BY <3>2, <4>1, <4>3, <4>4, OtherRowsStay
      <4> QED BY <3>2, <4>2, <4>5
    <3> QED BY <3>1, <3>6, <3>7 DEF t
  <2>8. Types'
    <3>1. /\ state' \in [Requests -> {"Waiting", "Decode", "Preempted", "Finished"}]
          /\ metrics' \in [preemptions : Nat, resumes : Nat, batch : 0 .. N]
      <4>1. /\ state \in [Requests -> {"Waiting", "Decode", "Preempted", "Finished"}]
            /\ metrics \in [preemptions : Nat, resumes : Nat, batch : 0 .. N]
        BY <1>1 DEF Types
      <4>2. state' \in [Requests -> {"Waiting", "Decode", "Preempted", "Finished"}]
        BY <1>3, <4>1
      <4>3. metrics' \in [preemptions : Nat, resumes : Nat, batch : 0 .. N]
        BY <1>3, <4>1
      <4> QED BY <4>2, <4>3
    <3>2. /\ snapshot' = [b \in Requests |-> snapshot'[b]]
          /\ \A b \in Requests : snapshot'[b].length \in 0 .. Capacity
      <4>1. NoSnapshot.length \in 0 .. Capacity
        BY <2>1 DEF NoSnapshot
      <4>2. /\ snapshot = [b \in Requests |-> snapshot[b]]
            /\ \A b \in Requests : snapshot[b].length \in 0 .. Capacity
        BY <1>1 DEF Types
      <4> HIDE DEF NoSnapshot
      <4> QED BY <1>3, <4>1, <4>2
    <3>3. cells' \in [Layers -> [Slots -> Tokens \cup {NoRow}]]
      <4> SUFFICES ASSUME NEW l \in Layers
                   PROVE  cells'[l] \in [Slots -> Tokens \cup {NoRow}]
        BY <1>3
      <4>1. cells[l] \in [Slots -> Tokens \cup {NoRow}]
        BY <1>1 DEF Types
      <4>2. \A q \in 0 .. n - 1 : RowsOf(r, n)[q] \in Tokens \cup {NoRow}
        <5> SUFFICES ASSUME NEW q \in 0 .. n - 1
                     PROVE  RowsOf(r, n)[q] \in Tokens \cup {NoRow}
          OBVIOUS
        <5>1. q \in 0 .. n - 1 /\ q \in 0 .. Capacity
          BY <2>1, <2>3
        <5> QED BY <5>1, Constants DEF RowsOf
      <4> DEFINE positions == 0 .. n - 1
                 V    == Tokens \cup {NoRow}
                 rows == RowsOf(r, n)
      <4>3. /\ cells'[l] = Store(cells[l], o[l].state.table, positions, rows)
            /\ cells[l] \in [Slots -> V] /\ \A q \in positions : rows[q] \in V
        BY <2>7, <4>1, <4>2
      <4> HIDE DEF positions, V, rows
      <4>4. cells'[l] \in [Slots -> V]
        BY <4>3, StoreType
      <4> QED BY <4>4 DEF V
    <3>4. progress' \in BOOLEAN /\ cursor' \in 1 .. N + 1
      BY <1>3, <2>1
    <3> QED BY <1>1, <1>3, <2>6, <3>1, <3>2, <3>3, <3>4 DEF Types
  <2>9. RequestInv(r)'
    <3>1. Length(r)' = n /\ state'[r] = "Decode"
      BY <1>1, <1>3, <2>5, <2>6, Constants DEF Length, Types
    <3>2. ~Ahead(r)' /\ ~Pending(r)' /\ ~Prefilling(r)'
      BY <1>1, <1>3, <2>2 DEF Ahead, Pending, Prefilling
    <3>3. Covered(r)' = n /\ StoredRows(r)' = n
      BY <3>1, <3>2 DEF Covered, StoredRows
    <3>4. LayersAgree(r)'
      BY <2>5, <2>6, <3>1, <3>3 DEF LayersAgree
    <3>5. OwnRows(r)'
      BY <2>6, <2>7, <3>3 DEF OwnRows, Holds
    <3>6. OwnTokens(r)' /\ OwnSample(r)'
      BY <1>3, <2>2, <3>2 DEF RequestInv, OwnTokens, OwnSample
    <3>7. Stands(r)'
      <4>1. generated' = generated /\ specs' = specs
        BY <1>3
      <4> QED BY <2>2, <2>3, <3>1, <3>2, <4>1 DEF Stands
    <3> QED BY <3>4, <3>5, <3>6, <3>7 DEF RequestInv
  <2>10. ASSUME NEW b \in Requests \ {r}  PROVE RequestInv(b)'
    <3>1. /\ RequestInv(b) /\ ~Ahead(b) /\ ~Pending(b) /\ state'[b] = state[b]
          /\ ~Prefilling(b) /\ ~Prefilling(b)' /\ ~Ahead(b)' /\ ~Pending(b)'
      BY <1>1, <1>3, OutsideTheBatch DEF Prefilling, Ahead, Pending, Types
    <3>2. \A l \in Layers : \A q \in 0 .. StoredRows(b) - 1 :
            cells'[l][SlotOf(kv[b][l].table, q)] = cells[l][SlotOf(kv[b][l].table, q)]
      BY <2>7 DEF SameRows
    <3> QED BY <1>3, <2>6, <3>1, <3>2, Undisturbed
  <2>11. ASSUME NEW b \in Requests, state'[b] = "Preempted"  PROVE OwnSnapshot(b)'
    <3>1. b # r /\ state[b] = "Preempted"
      BY <1>1, <1>3, <2>11 DEF Types
    <3>2. snapshot'[b] = snapshot[b]
      BY <1>1, <1>3, <3>1 DEF Types
    <3> QED BY <1>3, <3>1, <3>2 DEF IInv, OwnSnapshot
  <2> QED BY <2>6, <2>8, <2>9, <2>10, <2>11 DEF IInv
<1>4. QED
  BY <1>2, <1>3 DEF Resume

----------------------------------------------------------------------------
(* The theorems that follow from it.                                       *)

\* The invariant holds of every behaviour of the loop.
THEOREM Invariance == Spec => []IInv
<1>1. Init => IInv
  BY InitIInv
<1>2. IInv /\ [Next]_vars => IInv'
  <2> SUFFICES ASSUME IInv, [Next]_vars  PROVE IInv'
    OBVIOUS
  <2>1. CASE UNCHANGED vars
    BY <2>1 DEF vars, cache, IInv, Types, RequestInv, LayersAgree, OwnRows, OwnTokens,
         OwnSnapshot, Stands, OwnSample, PoolsSound, Tables, Length, Covered, Ahead,
         Pending, Prefilling, Sampled, StoredRows
  <2>2. ASSUME NEW r \in Requests, Resume(r) \/ PrefillChunk(r) \/ Stage(r) \/ Commit(r)
        PROVE  IInv'
    BY <2>2, ResumeKeeps, PrefillChunkKeeps, StageKeeps, CommitKeeps
  <2>3. CASE EndResume \/ EndPrefill \/ EndPreempt \/ EndStage \/ EndCommit
    BY <2>3, EndOfPassKeeps
  <2>4. CASE Preempt
    BY <2>4, PreemptKeeps
  <2>5. CASE DecodeBatch
    BY <2>5, DecodeBatchKeeps
  <2>6. CASE EndTick
    BY <2>6, EndTickKeeps
  <2>7. CASE DeviceFails
    <3>1. pc # "failed" /\ Throw("device")
      BY <2>7 DEF DeviceFails
    <3> QED BY <3>1, ThrowKeeps
  <2>8. CASE Done
    BY <2>1, <2>8 DEF Done
  <2> QED BY <2>1, <2>2, <2>3, <2>4, <2>5, <2>6, <2>7, <2>8 DEF Next
<1> QED BY <1>1, <1>2, PTL DEF Spec

\* Pages follow the requests (PagesFollowRequests of runContinuousBatch): in
\* every layer a request holds the pages of its rows, and no page is lost or
\* shared, whatever was preempted, resumed, prefilled and finished before.
THEOREM PagesFollow == Spec => []PagesFollowRequests
<1>1. IInv => PagesFollowRequests
  <2> SUFFICES ASSUME IInv, pc # "failed", NEW l \in Layers
               PROVE  /\ PagesHeldOnce(pools[l], Tables(l))
                      /\ CountsBalance(pools[l])
                      /\ \A r \in Requests :
                           LET staged == \/ pc = "stage" /\ r < cursor
                                         \/ pc = "decode" \/ Pending(r)
                           IN  Len(kv[r][l].table) =
                                 CASE r \in Active -> PagesFor(Length(r) + IF staged THEN 1 ELSE 0)
                                   [] pc = "chunk" /\ r = cursor -> PagesFor(Length(r))
                                   [] OTHER -> 0
    BY DEF PagesFollowRequests
  <2>1. PagesHeldOnce(pools[l], Tables(l)) /\ CountsBalance(pools[l])
    BY DEF IInv, PoolsSound, Sound
  <2>2. ASSUME NEW r \in Requests
        PROVE  LET staged == \/ pc = "stage" /\ r < cursor
                             \/ pc = "decode" \/ Pending(r)
               IN  Len(kv[r][l].table) =
                     CASE r \in Active -> PagesFor(Length(r) + IF staged THEN 1 ELSE 0)
                       [] pc = "chunk" /\ r = cursor -> PagesFor(Length(r))
                       [] OTHER -> 0
    <3> DEFINE staged == \/ pc = "stage" /\ r < cursor
                         \/ pc = "decode" \/ Pending(r)
    <3>1. /\ Len(kv[r][l].table) = PagesFor(Covered(r)) /\ Stands(r)
          /\ Length(r) \in Nat /\ state \in [Requests -> {"Waiting", "Decode", "Preempted", "Finished"}]
      BY Values DEF IInv, Types, RequestInv, LayersAgree
    <3>2. Ahead(r) <=> r \in Active /\ staged
      BY DEF Ahead, Active
    <3>3. CASE r \in Active
      <4>1. Covered(r) = Length(r) + IF staged THEN 1 ELSE 0
        BY <3>1, <3>2, <3>3 DEF Covered
      <4>2. ~(pc = "chunk" /\ r = cursor)
        BY <3>1, <3>3 DEF Active, Stands, Prefilling
      <4> DEFINE held == PagesFor(Length(r) + IF staged THEN 1 ELSE 0)
      <4>3. Len(kv[r][l].table) = held
        BY <3>1, <4>1
      <4> HIDE DEF held
      <4>4. Len(kv[r][l].table) = CASE r \in Active -> held
                                    [] pc = "chunk" /\ r = cursor -> PagesFor(Length(r))
                                    [] OTHER -> 0
        BY <3>3, <4>2, <4>3
      <4> QED BY <4>4 DEF held
    <3>4. CASE r \notin Active /\ pc = "chunk" /\ r = cursor
      BY <3>1, <3>2, <3>4 DEF Covered
    <3>5. CASE r \notin Active /\ ~(pc = "chunk" /\ r = cursor)
      <4>1. Length(r) = 0
        BY <3>1, <3>5 DEF Stands, Active, Prefilling
      <4>2. PagesFor(Covered(r)) = 0
        BY <3>2, <3>5, <4>1, PagesForIsMonotone DEF Covered
      <4> HIDE DEF staged
      <4> QED BY <3>1, <3>5, <4>2
    <3> QED BY <3>3, <3>4, <3>5
  <2> QED BY <2>1, <2>2
<1> QED BY <1>1, Invariance, PTL

\* What the host keeps of a preempted request is complete (snapshotKVCache
\* before releaseKVCache): every row but that of the last token, in each layer.
THEOREM SnapshotsAreComplete == Spec => []SnapshotComplete
<1>1. IInv => SnapshotComplete
  BY DEF IInv, OwnSnapshot, SnapshotComplete
<1> QED BY <1>1, Invariance, PTL

----------------------------------------------------------------------------
(* The loop implements TokenService, step by step.                         *)

Running == ~Ended

LEMMA ThrowAborts ==
  ASSUME Running, NEW why, Throw(why)
  PROVE  Service!Abort
BY DEF Running, Ended, Throw, Service!Abort

\* A step that delivers nothing and does not end the call.
LEMMA SilentStep ==
  ASSUME Running, Running', UNCHANGED <<specs, generated>>
  PROVE  UNCHANGED Service!vars
BY DEF Running, Ended, Service!vars

LEMMA PrefillDelivers ==
  ASSUME IInv, IInv', NEW r \in Requests, PrefillChunk(r)
  PROVE  Service!Deliver(r) \/ Service!Abort \/ UNCHANGED Service!vars
<1> DEFINE n      == Length(r) + ChunkLength(r)
           tables == [l \in Layers |-> Staged(r, n)[l].state.devTable]
           last   == n = specs[r].prompt
<1>1. pc \in {"prefill", "chunk"} /\ Running
  BY DEF PrefillChunk, Running, Ended
<1>2. \/ Throw("prefill")
      \/ /\ generated' = [generated EXCEPT ![r] =
                            IF last THEN <<NextToken(cells', tables, n)>> ELSE @]
         /\ pc' = IF last THEN "prefill" ELSE "chunk"
         /\ UNCHANGED specs
  BY DEF PrefillChunk
<1> HIDE DEF last, n, tables
<1>3. CASE Throw("prefill")
  BY <1>1, <1>3, ThrowAborts
<1>4. CASE /\ generated' = [generated EXCEPT ![r] =
                              IF last THEN <<NextToken(cells', tables, n)>> ELSE @]
           /\ pc' = IF last THEN "prefill" ELSE "chunk"
           /\ UNCHANGED specs
  <2>1. pc' \in {"prefill", "chunk"} /\ Running'
    BY <1>4 DEF Running, Ended
  <2>2. generated \in [Requests -> Seq(Tokens)]
    BY DEF IInv, Types
  <2>3. CASE last
    <3>1. generated' = [generated EXCEPT ![r] = <<NextToken(cells', tables, n)>>]
      BY <1>4, <2>3
    <3>2. Len(generated'[r]) = 1 /\ generated'[r] = <<generated'[r][1]>>
      BY <2>2, <3>1
    <3>3. generated'[r][1] = Token(r, specs[r].prompt + 1 - 1)
      BY <1>4, <2>1, <3>2 DEF IInv, RequestInv, OwnTokens
    <3>4. specs[r].prompt \in Nat /\ specs[r].decode \in Nat
      BY Values DEF IInv
    <3>5. generated[r] = <<>>
      <4>1. RequestInv(r) /\ ~(pc = "commit")
        BY <1>1 DEF IInv
      <4>2. state[r] = "Waiting"
        BY <4>1 DEF PrefillChunk, Reaches, MayPrefill, RequestInv, Stands, Prefilling
      <4>3. Len(generated[r]) = 0
        BY <4>1, <4>2 DEF RequestInv, Stands
      <4> QED BY <2>2, <4>3
    <3>6. generated' = [generated EXCEPT ![r] =
                          Append(@, Token(r, specs[r].prompt + Len(@)))]
      <4>1. specs[r].prompt + 1 - 1 = specs[r].prompt + 0
        BY <3>4
      <4>2. generated'[r] = <<Token(r, specs[r].prompt + 0)>>
        BY <3>2, <3>3, <4>1
      <4>3. Append(<<>>, Token(r, specs[r].prompt + 0)) = <<Token(r, specs[r].prompt + 0)>>
            /\ Len(generated[r]) = 0
        BY <3>5
      <4>4. generated' = [generated EXCEPT ![r] = generated'[r]]
        BY <2>2, <3>1
      <4> QED BY <3>5, <4>2, <4>3, <4>4
    <3>7. Len(generated[r]) < 1 + specs[r].decode
      BY <3>4, <3>5
    <3> QED BY <1>1, <1>4, <2>1, <3>6, <3>7
            DEF Service!Deliver, Service!Owed, Service!Token, Token, Running
  <2>4. CASE ~last
    <3>1. generated' = generated
      BY <1>4, <2>2, <2>4
    <3> QED BY <1>1, <1>4, <2>1, <3>1, SilentStep
  <2> QED BY <2>3, <2>4
<1> QED BY <1>2, <1>3, <1>4

LEMMA CommitDelivers ==
  ASSUME IInv, NEW r \in Requests, Commit(r)
  PROVE  Service!Deliver(r)
<1>1. /\ pc = "commit" /\ pc' = pc /\ Pending(r) /\ specs' = specs
      /\ generated' = [generated EXCEPT ![r] = Append(generated[r], Sampled(r))]
  BY DEF Commit, Reaches
<1>2. RequestInv(r) /\ specs[r].prompt \in Nat /\ specs[r].decode \in Nat
  BY <1>1, Values DEF IInv
<1>3. Sampled(r) = Token(r, Length(r) + 1) /\ state[r] = "Decode"
  BY <1>1, <1>2 DEF RequestInv, OwnSample
<1> DEFINE k == Len(generated[r])
<1>4. k \in 1 .. specs[r].decode /\ Length(r) = specs[r].prompt + k - 1
  BY <1>2, <1>3 DEF RequestInv, Stands
<1>5. Length(r) + 1 = specs[r].prompt + k /\ k < 1 + specs[r].decode
  BY <1>2, <1>4
<1>6. generated' = [generated EXCEPT ![r] = Append(@, Token(r, specs[r].prompt + Len(@)))]
  BY <1>1, <1>3, <1>5
<1>7. Running /\ Running'
  BY <1>1 DEF Running, Ended
<1> QED BY <1>1, <1>5, <1>6, <1>7
        DEF Service!Deliver, Service!Owed, Service!Token, Token, Running

LEMMA EndTickSteps ==
  ASSUME IInv, EndTick
  PROVE  Service!Complete \/ Service!Abort \/ UNCHANGED Service!vars
<1>1. pc = "audit" /\ Running
  BY DEF EndTick, Running, Ended
<1>2. CASE \E why : Throw(why)
  BY <1>1, <1>2, ThrowAborts
<1>3. CASE NextTick
  <2>1. Running' /\ UNCHANGED <<specs, generated>>
    BY <1>3 DEF NextTick, Running, Ended
  <2> QED BY <1>1, <2>1, SilentStep
<1>4. CASE Completed = Requests /\ Pass
  <2>1. \A r \in Requests : Len(generated[r]) = 1 + specs[r].decode
    <3> SUFFICES ASSUME NEW r \in Requests
                 PROVE  Len(generated[r]) = 1 + specs[r].decode
      OBVIOUS
    <3>1. state[r] = "Finished"
      BY <1>4 DEF Completed
    <3>2. Len(generated[r]) = specs[r].decode + 1 /\ specs[r].decode \in Nat
      BY <1>1, <3>1, Values DEF IInv, RequestInv, Stands
    <3> QED BY <3>2
  <2>2. pc' = "passed" /\ UNCHANGED <<specs, generated>>
    BY <1>4 DEF Pass
  <2> QED BY <1>1, <2>1, <2>2 DEF Service!Complete, Service!Owed, Running, Ended
<1> QED BY <1>2, <1>3, <1>4 DEF EndTick

\* Batching, preemption and shared pages are invisible (runContinuousBatch):
\* every request is delivered, in order, the tokens that it would be delivered
\* alone, and the call passes only when each has all of them.
THEOREM Serves == Spec => ServesEachAsIfAlone
<1>1. Init => Service!Init
  <2> SUFFICES ASSUME Init  PROVE Service!Init
    OBVIOUS
  <2>1. specs \in [Requests -> RequestSpecs]
    BY DEF Init
  <2>2. RequestSpecs \subseteq [prompt : Nat, decode : Nat, arrival : Nat]
    <3>1. 2 .. Capacity - 1 \subseteq Nat
      BY Constants
    <3> QED BY <3>1, ServingAssumption
  <2>3. specs \in [Requests -> [prompt : Nat, decode : Nat, arrival : Nat]]
    BY <2>1, <2>2
  <2> QED BY <2>3 DEF Init, Ended, Service!Init
<1>2. IInv /\ IInv' /\ [Next]_vars => [Service!Next]_(Service!vars)
  <2> SUFFICES ASSUME IInv, IInv', [Next]_vars
               PROVE  Service!Next \/ UNCHANGED Service!vars
    OBVIOUS
  <2>1. CASE UNCHANGED vars
    BY <2>1 DEF vars, Ended, Service!vars
  <2>2. CASE \E r \in Requests : PrefillChunk(r)
    BY <2>2, PrefillDelivers DEF Service!Next
  <2>3. CASE \E r \in Requests : Commit(r)
    BY <2>3, CommitDelivers DEF Service!Next
  <2>4. CASE \E r \in Requests : Resume(r) \/ Stage(r)
    <3>1. Running
      BY <2>4 DEF Resume, Stage, Running, Ended
    <3>2. (\E why : Throw(why)) \/ (pc' = pc /\ UNCHANGED <<specs, generated>>)
      BY <2>4 DEF Resume, Stage
    <3>3. CASE \E why : Throw(why)
      BY <3>1, <3>3, ThrowAborts DEF Service!Next
    <3>4. CASE pc' = pc /\ UNCHANGED <<specs, generated>>
      <4>1. Running'
        BY <3>1, <3>4 DEF Running, Ended
      <4> QED BY <3>1, <3>4, <4>1, SilentStep
    <3> QED BY <3>2, <3>3, <3>4
  <2>5. CASE EndResume \/ EndPrefill \/ EndPreempt \/ EndStage \/ EndCommit
    <3>1. Running /\ Running' /\ UNCHANGED <<specs, generated>>
      BY <2>5 DEF EndResume, EndPrefill, EndPreempt, EndStage, EndCommit, Running, Ended
    <3> QED BY <3>1, SilentStep
  <2>6. CASE Preempt \/ DecodeBatch
    <3>1. /\ Running /\ pc' \in {"preempt", "commit"}
          /\ UNCHANGED <<specs, generated>>
      BY <2>6 DEF Preempt, DecodeBatch, Running, Ended
    <3>2. Running'
      BY <3>1 DEF Running, Ended
    <3> QED BY <3>1, <3>2, SilentStep
  <2>7. CASE EndTick
    BY <2>7, EndTickSteps DEF Service!Next
  <2>8. CASE DeviceFails
    <3>1. Running /\ Throw("device")
      BY <2>8 DEF DeviceFails, Running, Ended
    <3> QED BY <3>1, ThrowAborts DEF Service!Next
  <2>9. CASE Done
    BY <2>1, <2>9 DEF Done
  <2> QED BY <2>1, <2>2, <2>3, <2>4, <2>5, <2>6, <2>7, <2>8, <2>9 DEF Next
<1> QED BY <1>1, <1>2, Invariance, PTL DEF Spec, ServesEachAsIfAlone, Service!Safety

----------------------------------------------------------------------------
(* The schedule.  Why no pass can fail but with the device, and why every  *)
(* tick but those that wait for an arrival decodes a token.                *)

Free == Len(pools[1].free)

\* What is free once the request that is being prefilled has given back.
Spare == IF pc = "chunk" THEN Free + HeldPages(cursor) ELSE Free

\* The pools of all the layers count alike.
Alike ==
  \A l \in Layers : /\ Len(pools[l].free) = Free
                     /\ pools[l].allocations = pools[1].allocations
                     /\ pools[l].releases = pools[1].releases

Held == [r \in Requests |-> HeldPages(r)]

\* Every page of the first layer is free or held.
Balanced == Free + SumFunctionOnSet(Held, Requests) = PoolPages

\* The tokens a request has decoded: the first one is its prefill's.
Decoded == [r \in Requests |-> IF generated[r] = <<>> THEN 0
                               ELSE Len(generated[r]) - 1]

\* Not less than the last arrival and the tokens decoded until now.
Behind == LatestArrival + SumFunctionOnSet(Decoded, Requests)

Additional == [r \in Requests |-> AdditionalPages(r)]

\* Everyone has finished or is still to arrive.
Quiet ==
  \A r \in Requests : \/ state[r] = "Finished"
                      \/ state[r] = "Waiting" /\ specs[r].arrival > tick

Arrived(r) == state[r] = "Waiting" /\ specs[r].arrival <= tick

\* The passes, in order.
InResume ==
  pc = "resume" =>
    \A k \in Requests : k < cursor /\ state[k] = "Preempted"
                        => Free < PagesFor(snapshot[k].length)

InPrefill ==
  pc \in {"prefill", "chunk"} =>
    /\ \A k \in Requests : state[k] = "Preempted"
                           => Spare < PagesFor(snapshot[k].length)
    /\ \A k \in Requests : k < cursor /\ Arrived(k)
                           => Spare < PagesFor(specs[k].prompt)

InChunk ==
  pc = "chunk" => cursor \in Requests /\ PagesFor(specs[cursor].prompt) <= Spare

InPreempt == pc = "preempt" /\ Active = {} => Quiet

InBatch ==
  /\ pc \in {"stage", "decode"} => Active # {}
  /\ pc = "stage" =>
       SumFunctionOnSet(Additional, {k \in Active : cursor <= k}) <= Free
  /\ pc = "commit" => \/ \E r \in Requests : Pending(r)
                      \/ progress /\ tick < Behind

InAudit ==
  pc = "audit" => /\ progress \/ Quiet
                  /\ Completed = Requests \/ tick < Behind

Schedule ==
  /\ Alike /\ Balanced
  /\ InResume /\ InPrefill /\ InChunk /\ InPreempt /\ InBatch /\ InAudit
  /\ progress \/ Completed # Requests
  /\ tick <= Behind

SInv ==
  /\ OnlyTheDeviceFails /\ ProgressBound
  /\ ~Ended => Schedule

LEMMA Counts ==
  ASSUME Types
  PROVE  /\ Free \in Nat /\ PoolPages \in Nat
         /\ \A l \in Layers : /\ Len(pools[l].free) \in Nat
                              /\ pools[l].allocations \in Nat
                              /\ pools[l].releases \in Nat
         /\ \A r \in Requests : HeldPages(r) \in Nat /\ Held[r] = HeldPages(r)
<1>1. ASSUME NEW l \in Layers
      PROVE  /\ Len(pools[l].free) \in Nat
             /\ pools[l].allocations \in Nat /\ pools[l].releases \in Nat
  BY DEF Types, PoolType
<1>2. ASSUME NEW r \in Requests  PROVE HeldPages(r) \in Nat /\ Held[r] = HeldPages(r)
  BY Values, Constants DEF HeldPages, Held
<1> QED BY <1>1, <1>2, Constants DEF Free

\* What the passes test is the first layer's free list.
LEMMA AvailableIsFree ==
  ASSUME Types, Alike
  PROVE  Available = Free
<1> DEFINE A == {AvailablePages(pools[l]) : l \in Layers}
<1>1. A = {Free}
  BY Constants DEF Alike, AvailablePages
<1>2. Available = Min(A)
  BY DEF Available
<1> HIDE DEF A
<1>3. Free \in Nat
  BY Counts
<1> QED BY <1>1, <1>2, <1>3 DEF Min

\* A sum of natural numbers is not less than any of them.
LEMMA SumNat ==
  ASSUME NEW f, NEW S, IsFiniteSet(S), \A x \in S : f[x] \in Nat
  PROVE  /\ SumFunctionOnSet(f, S) \in Nat
         /\ \A x \in S : f[x] <= SumFunctionOnSet(f, S)
<1> DEFINE Natural(T) == SumFunctionOnSet(f, T) \in Nat
<1>1. ASSUME NEW T \in SUBSET S  PROVE Natural(T)
  <2> DEFINE zero == [x \in T |-> 0]
  <2>1. IsFiniteSet(T)
    BY FS_Subset
  <2>2. /\ \A x \in T : zero[x] = 0
        /\ \A x \in T : zero[x] \in Int /\ f[x] \in Int /\ zero[x] <= f[x]
    OBVIOUS
  <2> HIDE DEF zero
  <2>3. SumFunctionOnSet(zero, T) = 0
    BY <2>1, <2>2, SumOfZeros
  <2>4. SumFunctionOnSet(zero, T) <= SumFunctionOnSet(f, T)
    BY <2>1, <2>2, SumMonotone
  <2>5. SumFunctionOnSet(f, T) \in Int
    BY <2>1, <2>2, SumType
  <2> QED BY <2>3, <2>4, <2>5
<1>2. ASSUME NEW x \in S  PROVE f[x] <= SumFunctionOnSet(f, S)
  <2>1. \A y \in S : f[y] \in Int
    OBVIOUS
  <2>2. SumFunctionOnSet(f, S) = f[x] + SumFunctionOnSet(f, S \ {x})
    BY <2>1, SumTakeOut
  <2>3. Natural(S \ {x})
    BY <1>1
  <2> QED BY <2>2, <2>3
<1> QED BY <1>1, <1>2

\* The request's calls take some pages of every layer and give some back.
Changes(r, o, taken, given) ==
  \A l \in Layers :
    /\ Len(o[l].pool.free) = (Len(pools[l].free) - taken) + given
    /\ o[l].pool.allocations = pools[l].allocations + taken
    /\ o[l].pool.releases = pools[l].releases + given
    /\ Len(o[l].state.table) = (HeldPages(r) + taken) - given

LEMMA PagesMove ==
  ASSUME Types, Alike, Balanced, NEW r \in Requests, NEW o, Become(r, o),
         NEW taken \in Nat, NEW given \in Nat, Changes(r, o, taken, given)
  PROVE  /\ Alike' /\ Balanced'
         /\ Free' = (Free - taken) + given
         /\ HeldPages(r)' = (HeldPages(r) + taken) - given
         /\ \A b \in Requests \ {r} : HeldPages(b)' = HeldPages(b)
<1>1. /\ \A l \in Layers : pools'[l] = o[l].pool /\ kv'[r][l] = o[l].state
      /\ \A b \in Requests \ {r} : kv'[b] = kv[b]
  BY DEF Become, Types
<1>2. 1 \in Layers /\ Free \in Nat /\ PoolPages \in Nat
  BY Constants, Counts
<1>3. \A l \in Layers :
        /\ Len(pools'[l].free) = (Len(pools[l].free) - taken) + given
        /\ pools'[l].allocations = pools[l].allocations + taken
        /\ pools'[l].releases = pools[l].releases + given
  BY <1>1 DEF Changes
<1>4. Free' = (Free - taken) + given
  BY <1>2, <1>3 DEF Free
<1>5. Alike'
  BY <1>2, <1>3, <1>4 DEF Alike
<1>6. /\ HeldPages(r)' = (HeldPages(r) + taken) - given
      /\ \A b \in Requests \ {r} : HeldPages(b)' = HeldPages(b)
  BY <1>1, <1>2 DEF Changes, HeldPages
<1>7. Balanced'
  <2> DEFINE f == Held
             g == Held'
  <2>1. \A b \in Requests : f[b] = HeldPages(b) /\ g[b] = HeldPages(b)'
    BY DEF Held
  <2>2. \A b \in Requests : HeldPages(b) \in Nat
    BY Counts
  <2>3. /\ \A b \in Requests : f[b] \in Int /\ g[b] \in Int
        /\ \A b \in Requests \ {r} : g[b] = f[b]
        /\ g[r] - f[r] = taken - given
    BY <1>6, <2>1, <2>2
  <2>4. Free + SumFunctionOnSet(f, Requests) = PoolPages
    BY DEF Balanced
  <2> HIDE DEF f, g
  <2>5. SumFunctionOnSet(g, Requests) = SumFunctionOnSet(f, Requests) + (g[r] - f[r])
    <3>1. IsFiniteSet(Requests)
      BY Constants
    <3> QED BY ONLY <2>3, <3>1, r \in Requests, SumOfUpdated
  <2>6. SumFunctionOnSet(f, Requests) \in Int
    BY <2>3, Constants, SumType
  <2>7. Free' + SumFunctionOnSet(g, Requests) = PoolPages
    BY <1>2, <1>4, <2>3, <2>4, <2>5, <2>6
  <2> QED BY <2>7 DEF Balanced, g
<1> QED BY <1>4, <1>5, <1>6, <1>7

LEMMA LatestIsLast ==
  ASSUME Types
  PROVE  /\ LatestArrival \in Nat
         /\ \A r \in Requests : specs[r].arrival <= LatestArrival
<1> DEFINE A == {specs[r].arrival : r \in Requests}
           a == [r \in Requests |-> specs[r].arrival]
<1>1. \A r \in Requests : a[r] = specs[r].arrival /\ a[r] \in Nat
  BY Values
<1>2. N \in Nat \ {0} /\ Requests = 1 .. N
  BY Constants DEF Requests
<1> HIDE DEF a
<1>3. PICK k \in 1 .. N : \A j \in 1 .. N : a[j] <= a[k]
  <2>1. \A i \in 1 .. N : a[i] \in Int
    BY <1>1, <1>2
  <2> QED BY <1>2, <2>1, GreatestNumber
<1>4. specs[k].arrival \in A /\ \A y \in A : specs[k].arrival >= y
  BY <1>1, <1>2, <1>3
<1>5. A \subseteq Nat /\ LatestArrival = Max(A)
  BY <1>1 DEF LatestArrival
<1> HIDE DEF A
<1>6. Max(A) \in A /\ \A y \in A : Max(A) >= y
  BY <1>4 DEF Max
<1>7. LatestArrival \in Nat /\ \A y \in A : y <= LatestArrival
  BY <1>5, <1>6
<1> QED BY <1>7 DEF A

\* Before the last arrival there is time.
LEMMA QuietIsEarly ==
  ASSUME Types, Quiet, Completed # Requests
  PROVE  FutureArrival /\ tick < LatestArrival
<1>1. PICK r \in Requests : state[r] # "Finished"
  BY DEF Completed
<1>2. state[r] = "Waiting" /\ specs[r].arrival > tick
  BY <1>1 DEF Quiet
<1>3. /\ specs[r].arrival <= LatestArrival /\ LatestArrival \in Nat
      /\ specs[r].arrival \in Nat /\ tick \in Nat
  BY SMTT(40), Values, LatestIsLast, Constants DEF Types
<1> QED BY <1>2, <1>3 DEF FutureArrival

\* No more is decoded than was asked for.
LEMMA DecodedAtMost ==
  ASSUME IInv, pc # "failed"
  PROVE  /\ \A r \in Requests : Decoded[r] \in Nat
         /\ SumFunctionOnSet(Decoded, Requests) \in Nat
         /\ SumFunctionOnSet(Decoded, Requests) <= DecodeTotal
         /\ DecodeTotal \in Nat /\ Behind \in Nat
         /\ Behind <= LatestArrival + DecodeTotal
<1> DEFINE wanted == [r \in Requests |-> specs[r].decode]
<1>1. ASSUME NEW r \in Requests
      PROVE  /\ Decoded[r] \in Nat /\ wanted[r] \in Nat
             /\ Decoded[r] <= wanted[r]
  <2>1. /\ specs[r].decode \in Nat /\ Len(generated[r]) \in Nat
        /\ generated[r] \in Seq(Tokens) /\ wanted[r] = specs[r].decode
        /\ state[r] \in {"Waiting", "Decode", "Preempted", "Finished"}
    BY Values DEF IInv, Types
  <2>2. Len(generated[r]) <= specs[r].decode + 1
    BY <2>1 DEF IInv, RequestInv, Stands
  <2>3. Decoded[r] = IF generated[r] = <<>> THEN 0 ELSE Len(generated[r]) - 1
    BY DEF Decoded
  <2>4. generated[r] # <<>> => Len(generated[r]) >= 1
    BY <2>1
  <2> HIDE DEF wanted
  <2> QED BY <2>1, <2>2, <2>3, <2>4
<1>2. DecodeTotal = SumFunctionOnSet(wanted, Requests)
  BY DEF DecodeTotal
<1> HIDE DEF wanted
<1> DEFINE f == Decoded
<1> HIDE DEF f
<1>3. \A r \in Requests : /\ f[r] \in Nat /\ wanted[r] \in Nat /\ f[r] <= wanted[r]
                          /\ f[r] \in Int /\ wanted[r] \in Int
  BY <1>1 DEF f
<1>4. IsFiniteSet(Requests)
  BY Constants
<1>5. SumFunctionOnSet(f, Requests) <= SumFunctionOnSet(wanted, Requests)
  BY ONLY <1>3, <1>4, SumMonotone
<1>6. SumFunctionOnSet(f, Requests) \in Nat
  BY ONLY <1>3, <1>4, SumNat
<1>7. SumFunctionOnSet(wanted, Requests) \in Nat
  BY ONLY <1>3, <1>4, SumNat
<1>8. LatestArrival \in Nat /\ Behind = LatestArrival + SumFunctionOnSet(f, Requests)
  BY LatestIsLast DEF IInv, Behind, f
<1>9. Behind \in Nat /\ Behind <= LatestArrival + DecodeTotal
  BY <1>2, <1>5, <1>6, <1>7, <1>8
<1> QED BY <1>2, <1>3, <1>5, <1>6, <1>7, <1>9 DEF f

\* What a request holds.
LEMMA Holdings ==
  ASSUME IInv, pc # "failed", NEW r \in Requests
  PROVE  /\ HeldPages(r) = PagesFor(Covered(r))
         /\ \A l \in Layers : Len(kv[r][l].table) = HeldPages(r)
         /\ r \notin Active /\ ~Prefilling(r) => HeldPages(r) = 0
<1>1. /\ LayersAgree(r) /\ Stands(r) /\ 1 \in Layers
      /\ state[r] \in {"Waiting", "Decode", "Preempted", "Finished"}
  BY Constants DEF IInv, RequestInv, Types
<1>2. HeldPages(r) = PagesFor(Covered(r))
  BY <1>1 DEF LayersAgree, HeldPages
<1>3. ASSUME r \notin Active, ~Prefilling(r)  PROVE PagesFor(Covered(r)) = 0
  <2>1. Length(r) = 0 /\ ~Ahead(r)
    BY <1>1, <1>3 DEF Stands, Active, Ahead
  <2>2. 0 \in Nat
    OBVIOUS
  <2> QED BY <2>1, <2>2, PagesForIsMonotone DEF Covered
<1> QED BY <1>1, <1>2, <1>3 DEF LayersAgree

\* When at most one request holds pages, all the others are free.
LEMMA OneHolds ==
  ASSUME IInv, pc # "failed", Balanced, NEW r \in Requests,
         \A b \in Requests \ {r} : b \notin Active /\ ~Prefilling(b)
  PROVE  Free + HeldPages(r) = PoolPages
<1> DEFINE f == Held
           rest == Requests \ {r}
<1>1. \A b \in Requests : f[b] = HeldPages(b) /\ f[b] \in Int
  BY Counts DEF IInv
<1>2. \A b \in rest : f[b] = 0
  BY <1>1, Holdings
<1>3. Free + SumFunctionOnSet(f, Requests) = PoolPages
  BY DEF Balanced
<1> HIDE DEF f
<1>4. IsFiniteSet(Requests) /\ IsFiniteSet(rest)
  BY Constants, FS_RemoveElement
<1>5. SumFunctionOnSet(f, Requests) = f[r] + SumFunctionOnSet(f, Requests \ {r})
  BY ONLY <1>1, <1>4, r \in Requests, SumTakeOut
<1>6. SumFunctionOnSet(f, rest) = 0
  BY ONLY <1>2, <1>4, SumOfZeros
<1>7. SumFunctionOnSet(f, Requests) = f[r]
  BY <1>1, <1>5, <1>6
<1> QED BY <1>1, <1>3, <1>7

LEMMA NobodyHolds ==
  ASSUME IInv, pc \notin {"failed", "chunk"}, Balanced, Active = {}
  PROVE  Free = PoolPages
<1>1. 1 \in Requests
  BY Constants DEF Requests
<1>2. \A b \in Requests : b \notin Active /\ ~Prefilling(b)
  BY DEF Prefilling
<1>3. Free + HeldPages(1) = PoolPages /\ HeldPages(1) = 0
  BY <1>1, <1>2, OneHolds, Holdings
<1>4. Free \in Nat
  BY Counts DEF IInv
<1> QED BY <1>3, <1>4

\* What the next token of a request needs.
LEMMA NextPages ==
  ASSUME IInv, pc # "failed", NEW r \in Requests
  PROVE  /\ Additional[r] = AdditionalPages(r) /\ AdditionalPages(r) \in Nat
         /\ r \in Active => /\ Length(r) + 1 \in 1 .. Capacity
                            /\ PagesFor(Length(r) + 1) <= PoolPages
         /\ ~Ahead(r) => HeldPages(r) + AdditionalPages(r) = PagesFor(Length(r) + 1)
<1>1. /\ Length(r) \in Nat /\ specs[r].prompt \in Nat /\ specs[r].decode \in Nat
      /\ specs[r].prompt + specs[r].decode \in 0 .. Capacity
      /\ PagesFor(specs[r].prompt + specs[r].decode) <= PoolPages
      /\ Stands(r) /\ Capacity \in Nat /\ PoolPages \in Nat
  BY Values, Constants DEF IInv, RequestInv
<1>2. /\ Length(r) + 1 \in Nat /\ Length(r) <= Length(r) + 1
  BY <1>1
<1>3. /\ PagesFor(Length(r)) \in Nat /\ PagesFor(Length(r) + 1) \in Nat
      /\ PagesFor(Length(r)) <= PagesFor(Length(r) + 1)
  BY <1>1, <1>2, PagesForIsMonotone
<1>4. Additional[r] = AdditionalPages(r) /\ AdditionalPages(r) \in Nat
  BY <1>3 DEF Additional, AdditionalPages
<1>5. ASSUME r \in Active
      PROVE  Length(r) + 1 \in 1 .. Capacity /\ PagesFor(Length(r) + 1) <= PoolPages
  <2>1. Length(r) + 1 <= specs[r].prompt + specs[r].decode
    BY SMTT(40), <1>1, <1>5 DEF Stands, Active
  <2> DEFINE n == Length(r) + 1
             t == specs[r].prompt + specs[r].decode
  <2>2. n \in Nat /\ t \in Nat /\ n <= t
    BY <1>1, <2>1
  <2> HIDE DEF n, t
  <2>3. PagesFor(n) <= PagesFor(t) /\ PagesFor(n) \in Nat /\ PagesFor(t) \in Nat
    BY <2>2, PagesForIsMonotone
  <2>4. PagesFor(n) <= PoolPages
    BY <1>1, <2>3 DEF t
  <2> QED BY <1>1, <2>1, <2>4 DEF n
<1>6. ASSUME ~Ahead(r)
      PROVE  HeldPages(r) + AdditionalPages(r) = PagesFor(Length(r) + 1)
  <2>1. HeldPages(r) = PagesFor(Length(r))
    BY <1>6, Holdings DEF Covered
  <2> QED BY <1>3, <2>1 DEF AdditionalPages
<1> QED BY <1>4, <1>5, <1>6

\* A request that is alone always fits: it never has to be preempted.
LEMMA AloneFits ==
  ASSUME IInv, pc = "preempt", Alike, Balanced, NEW r \in Requests, Active = {r}
  PROVE  BatchFits
<1>1. ~Ahead(r) /\ r \in Active /\ \A b \in Requests : ~Prefilling(b)
  BY DEF Ahead, Pending, Prefilling
<1>2. Free + HeldPages(r) = PoolPages
  BY <1>1, OneHolds
<1>3. /\ Additional[r] = AdditionalPages(r) /\ AdditionalPages(r) \in Nat
      /\ PagesFor(Length(r) + 1) <= PoolPages
      /\ HeldPages(r) + AdditionalPages(r) = PagesFor(Length(r) + 1)
  BY <1>1, NextPages
<1>4. /\ Free \in Nat /\ PoolPages \in Nat /\ HeldPages(r) \in Nat
  BY Counts DEF IInv
<1>5. AdditionalPages(r) <= Free
  BY <1>2, <1>3, <1>4
<1>6. RequiredPages = AdditionalPages(r)
  <2> DEFINE f == Additional
             one == {r}
  <2>1. IsFiniteSet(one) /\ one \ {r} = {}
    BY FS_Singleton
  <2>2. \A x \in one : f[x] \in Int
    BY <1>3
  <2>3. RequiredPages = SumFunctionOnSet(f, one)
    BY DEF RequiredPages, Additional
  <2>4. f[r] = AdditionalPages(r) /\ r \in one
    BY <1>3
  <2> HIDE DEF f, one
  <2>5. SumFunctionOnSet(f, one) = f[r] + SumFunctionOnSet(f, one \ {r})
    BY ONLY <2>1, <2>2, <2>4, SumTakeOut
  <2>6. SumFunctionOnSet(f, {}) = 0
    BY SumOfNone
  <2> QED BY <1>3, <2>1, <2>3, <2>4, <2>5, <2>6
<1>7. Available = Free
  BY AvailableIsFree DEF IInv
<1> QED BY <1>5, <1>6, <1>7, <1>4, <1>3 DEF BatchFits

\* Whoever waits to be resumed or prefilled fits in an empty pool.
LEMMA EachFits ==
  ASSUME IInv, pc # "failed", NEW r \in Requests
  PROVE  /\ PagesFor(specs[r].prompt) \in Nat
         /\ PagesFor(specs[r].prompt) <= PoolPages
         /\ state[r] = "Preempted" =>
              /\ snapshot[r].length \in 1 .. Capacity
              /\ PagesFor(snapshot[r].length) \in Nat
              /\ PagesFor(snapshot[r].length) <= PoolPages
<1> DEFINE t == specs[r].prompt + specs[r].decode
           n == snapshot[r].length
<1>1. /\ specs[r].prompt \in Nat /\ specs[r].decode \in Nat
      /\ specs[r].prompt >= 2 /\ Len(generated[r]) \in Nat
      /\ t \in 0 .. Capacity /\ t \in Nat /\ specs[r].prompt <= t
      /\ PagesFor(t) <= PoolPages
      /\ Stands(r) /\ Capacity \in Nat /\ PoolPages \in Nat
  BY Values, Constants DEF IInv, RequestInv
<1>2. ASSUME state[r] = "Preempted"  PROVE n \in 1 .. Capacity /\ n <= t
  <2>1. n = specs[r].prompt + Len(generated[r]) - 1
    BY <1>2 DEF IInv, OwnSnapshot
  <2>2. Len(generated[r]) \in 1 .. specs[r].decode
    BY <1>1, <1>2 DEF Stands
  <2> QED BY SMTT(40), <1>1, <2>1, <2>2
<1> HIDE DEF t, n
<1>3. ASSUME NEW m \in Nat, m <= t  PROVE PagesFor(m) \in Nat /\ PagesFor(m) <= PoolPages
  <2>1. PagesFor(m) <= PagesFor(t) /\ PagesFor(m) \in Nat /\ PagesFor(t) \in Nat
    BY <1>1, <1>3, PagesForIsMonotone
  <2> QED BY <1>1, <2>1
<1>4. ASSUME state[r] = "Preempted"
      PROVE  n \in 1 .. Capacity /\ PagesFor(n) \in Nat /\ PagesFor(n) <= PoolPages
  <2>1. n \in Nat /\ n <= t /\ n \in 1 .. Capacity
    BY <1>1, <1>2, <1>4
  <2> QED BY <1>3, <2>1
<1> QED BY <1>1, <1>3, <1>4 DEF n

----------------------------------------------------------------------------
(* Each step keeps the schedule.                                           *)

\* A step that moves no page.
LEMMA PagesStay ==
  ASSUME Alike, Balanced, UNCHANGED <<pools, kv>>
  PROVE  /\ Alike' /\ Balanced' /\ Free' = Free /\ Available' = Available
         /\ \A r \in Requests : HeldPages(r)' = HeldPages(r) /\ Length(r)' = Length(r)
BY DEF Alike, Balanced, Free, Held, HeldPages, Length, Available

\* A step that delivers no token.
LEMMA DecodedStays ==
  ASSUME UNCHANGED <<specs, generated>>
  PROVE  /\ LatestArrival' = LatestArrival /\ DecodeTotal' = DecodeTotal
         /\ Behind' = Behind
BY DEF LatestArrival, DecodeTotal, Behind, Decoded

\* The loop throws only for the device, or at a limit that is too low.
LEMMA ThrowSchedules ==
  ASSUME SInv, NEW why, Throw(why),
         \/ why = "device"
         \/ why = "tick limit" /\ TickLimit < LatestArrival + DecodeTotal
  PROVE  SInv'
<1>1. /\ pc' = "failed" /\ cause' = why /\ UNCHANGED <<specs, generated, tick>>
  BY DEF Throw
<1>2. LatestArrival' = LatestArrival /\ DecodeTotal' = DecodeTotal
  BY <1>1, DecodedStays
<1>3. OnlyTheDeviceFails'
  BY <1>1, <1>2 DEF OnlyTheDeviceFails
<1>4. ProgressBound'
  BY <1>1, <1>2 DEF SInv, ProgressBound
<1> QED BY <1>1, <1>3, <1>4 DEF SInv, Ended

\* What a step that throws nothing has to keep.
LEMMA Continues ==
  ASSUME SInv, UNCHANGED <<cause, specs, tick>>, Schedule'
  PROVE  SInv'
<1>1. LatestArrival' = LatestArrival /\ DecodeTotal' = DecodeTotal
  BY DEF LatestArrival, DecodeTotal
<1> QED BY <1>1 DEF SInv, OnlyTheDeviceFails, ProgressBound

LEMMA EndOfPassSchedules ==
  ASSUME IInv, SInv, EndResume \/ EndPrefill \/ EndPreempt \/ EndStage \/ EndCommit
  PROVE  SInv'
<1>1. /\ UNCHANGED <<pools, kv, specs, generated, state, snapshot, tick,
                     progress, cause>>
      /\ cursor' = 1 /\ ~Ended /\ pc # "failed"
  BY DEF EndResume, EndPrefill, EndPreempt, EndStage, EndCommit, cache, Ended
<1>2. /\ Schedule /\ Alike' /\ Balanced' /\ Free' = Free
      /\ Behind' = Behind /\ Available = Free
      /\ Active' = Active /\ Completed' = Completed /\ Quiet' = Quiet
  BY <1>1, PagesStay, DecodedStays, AvailableIsFree
     DEF SInv, IInv, Schedule, Active, Completed, Quiet
<1>3. /\ Requests \subseteq Nat \ {0} /\ cursor \in 1 .. N + 1 /\ N \in Nat
      /\ \A k \in Requests : k \in 1 .. N /\ ~(k < 1)
  BY Constants DEF IInv, Types, Requests
<1>4. progress \/ Completed # Requests
  BY <1>2 DEF Schedule
<1>5. /\ progress' \/ Completed' # Requests
      /\ (tick <= Behind)'
  BY <1>1, <1>2 DEF Schedule
<1>6. CASE EndResume
  <2>1. pc = "resume" /\ pc' = "prefill" /\ \A k \in cursor .. N : ~MayResume(k)
    BY <1>6 DEF EndResume, Ends
  <2>2. ASSUME NEW k \in Requests, state[k] = "Preempted"
        PROVE  Free < PagesFor(snapshot[k].length)
    <3>1. CASE k < cursor
      BY <1>2, <2>1, <2>2, <3>1 DEF Schedule, InResume
    <3>2. CASE ~(k < cursor)
      <4>1. ~MayResume(k)
        BY <1>3, <2>1, <3>2
      <4>2. Free \in Nat /\ PagesFor(snapshot[k].length) \in Nat
        BY <1>1, <2>2, Counts, EachFits DEF IInv
      <4> QED BY <1>2, <2>2, <4>1, <4>2 DEF MayResume
    <3> QED BY <3>1, <3>2
  <2>3. InPrefill'
    BY <1>1, <1>2, <1>3, <2>1, <2>2 DEF InPrefill, Spare
  <2>4. InResume' /\ InChunk' /\ InPreempt' /\ InBatch' /\ InAudit'
    BY <2>1 DEF InResume, InChunk, InPreempt, InBatch, InAudit
  <2>5. Schedule'
    BY <1>2, <1>5, <2>3, <2>4 DEF Schedule
  <2> QED BY <1>1, <2>5, Continues
<1>7. CASE EndPrefill
  <2>1. pc = "prefill" /\ pc' = "preempt" /\ \A k \in cursor .. N : ~MayPrefill(k)
    BY <1>7 DEF EndPrefill, Ends
  <2>2. ASSUME Active = {}  PROVE Quiet
    <3>1. Free = PoolPages /\ Spare = Free /\ PoolPages \in Nat
      BY <1>1, <1>2, <2>1, <2>2, NobodyHolds, Constants DEF Schedule, Spare
    <3> SUFFICES ASSUME NEW r \in Requests, state[r] # "Finished"
                 PROVE  state[r] = "Waiting" /\ specs[r].arrival > tick
      BY DEF Quiet
    <3>2. state[r] # "Decode"
      BY <2>2 DEF Active
    <3>3. state[r] # "Preempted"
      <4> SUFFICES ASSUME state[r] = "Preempted"  PROVE FALSE
        OBVIOUS
      <4>1. Spare < PagesFor(snapshot[r].length)
        BY <1>2, <2>1 DEF Schedule, InPrefill
      <4>2. PagesFor(snapshot[r].length) <= PoolPages /\ PagesFor(snapshot[r].length) \in Nat
        BY <1>1, EachFits
      <4> QED BY <3>1, <4>1, <4>2
    <3>4. state[r] = "Waiting"
      BY <3>2, <3>3 DEF IInv, Types
    <3>5. ~(specs[r].arrival <= tick)
      <4> SUFFICES ASSUME specs[r].arrival <= tick  PROVE FALSE
        OBVIOUS
      <4>1. /\ PagesFor(specs[r].prompt) <= PoolPages
            /\ PagesFor(specs[r].prompt) \in Nat
        BY <1>1, EachFits
      <4>2. CASE r < cursor
        <5>1. Spare < PagesFor(specs[r].prompt)
          BY <1>2, <2>1, <3>4, <4>2 DEF Schedule, InPrefill, Arrived
        <5> QED BY <3>1, <4>1, <5>1
      <4>3. CASE ~(r < cursor)
        <5>1. ~MayPrefill(r)
          BY <1>3, <2>1, <4>3
        <5>2. ~(Free >= PagesFor(specs[r].prompt))
          BY <1>2, <3>4, <5>1 DEF MayPrefill
        <5> QED BY <3>1, <4>1, <5>2
      <4> QED BY <4>2, <4>3
    <3>6. specs[r].arrival \in Nat /\ tick \in Nat
      BY Values, Constants DEF IInv, Types
    <3> QED BY <3>4, <3>5, <3>6
  <2>3. InPreempt'
    BY <1>2, <2>2 DEF InPreempt
  <2>4. InResume' /\ InPrefill' /\ InChunk' /\ InBatch' /\ InAudit'
    BY <2>1 DEF InResume, InPrefill, InChunk, InBatch, InAudit
  <2>5. Schedule'
    BY <1>2, <1>5, <2>3, <2>4 DEF Schedule
  <2> QED BY <1>1, <2>5, Continues
<1>8. CASE EndPreempt
  <2>1. /\ pc = "preempt" /\ pc' = IF Active = {} THEN "audit" ELSE "stage"
        /\ Active = {} \/ BatchFits
    BY <1>8 DEF EndPreempt
  <2>2. InResume' /\ InPrefill' /\ InChunk' /\ InPreempt'
    BY <2>1 DEF InResume, InPrefill, InChunk, InPreempt
  <2>3. CASE Active = {}
    <3>1. Quiet
      BY <1>2, <2>1, <2>3 DEF Schedule, InPreempt
    <3>2. Completed # Requests => tick < Behind
      <4> SUFFICES ASSUME Completed # Requests  PROVE tick < Behind
        OBVIOUS
      <4>1. tick < LatestArrival /\ LatestArrival \in Nat /\ tick \in Nat
        BY <3>1, QuietIsEarly, LatestIsLast, Constants DEF IInv, Types
      <4>2. /\ Behind = LatestArrival + SumFunctionOnSet(Decoded, Requests)
            /\ SumFunctionOnSet(Decoded, Requests) \in Nat
        BY <1>1, DecodedAtMost DEF Behind
      <4> QED BY <4>1, <4>2
    <3>3. InAudit' /\ InBatch'
      BY <1>1, <1>2, <2>1, <2>3, <3>1, <3>2 DEF InAudit, InBatch
    <3>4. Schedule'
      BY <1>2, <1>5, <2>2, <3>3 DEF Schedule
    <3> QED BY <1>1, <3>4, Continues
  <2>4. CASE Active # {}
    <3>1. RequiredPages <= Free
      <4>1. RequiredPages \in Nat
        <5> DEFINE f == Additional
        <5>1. \A r \in Active : f[r] \in Nat
          BY <1>1, NextPages DEF Active
        <5>2. RequiredPages = SumFunctionOnSet(f, Active)
          BY DEF RequiredPages, Additional
        <5>3. IsFiniteSet(Active)
          <6>1. IsFiniteSet(Requests) /\ Active \in SUBSET Requests
            BY Constants DEF Active
          <6> QED BY <6>1, FS_Subset
        <5> HIDE DEF f
        <5>4. SumFunctionOnSet(f, Active) \in Nat
          BY ONLY <5>1, <5>3, SumNat
        <5> QED BY <5>2, <5>4
      <4>2. Free \in Nat
        BY Counts DEF IInv
      <4> QED BY <1>2, <2>1, <2>4, <4>1, <4>2 DEF BatchFits
    <3>2. {k \in Active : 1 <= k} = Active
      <4>1. \A k \in Active : 1 <= k
        BY <1>3 DEF Active
      <4> QED BY <4>1
    <3>3. Additional' = Additional /\ RequiredPages = SumFunctionOnSet(Additional, Active)
      BY <1>1 DEF Additional, AdditionalPages, Length, RequiredPages
    <3>4. pc' = "stage"
      BY <2>1, <2>4
    <3>5. InBatch'
      BY <1>1, <1>2, <2>4, <3>1, <3>2, <3>3, <3>4 DEF InBatch
    <3>6. InAudit'
      BY <3>4 DEF InAudit
    <3>7. Schedule'
      BY <1>2, <1>5, <2>2, <3>5, <3>6 DEF Schedule
    <3> QED BY <1>1, <3>7, Continues
  <2> QED BY <2>3, <2>4
<1>9. CASE EndStage
  <2>1. pc = "stage" /\ pc' = "decode"
    BY <1>9 DEF EndStage
  <2>2. InResume' /\ InPrefill' /\ InChunk' /\ InPreempt' /\ InAudit'
    BY <2>1 DEF InResume, InPrefill, InChunk, InPreempt, InAudit
  <2>3. InBatch'
    BY <1>2, <2>1 DEF Schedule, InBatch
  <2>4. Schedule'
    BY <1>2, <1>5, <2>2, <2>3 DEF Schedule
  <2> QED BY <1>1, <2>4, Continues
<1>10. CASE EndCommit
  <2>1. pc = "commit" /\ pc' = "audit" /\ \A k \in cursor .. N : ~Pending(k)
    BY <1>10 DEF EndCommit, Ends
  <2>2. ASSUME NEW r \in Requests  PROVE ~Pending(r)
    BY <1>3, <2>1 DEF Pending
  <2>3. progress /\ tick < Behind
    BY <1>2, <2>1, <2>2 DEF Schedule, InBatch
  <2>4. InResume' /\ InPrefill' /\ InChunk' /\ InPreempt' /\ InBatch'
    BY <2>1 DEF InResume, InPrefill, InChunk, InPreempt, InBatch
  <2>5. InAudit'
    BY <1>1, <1>2, <2>3 DEF InAudit
  <2>6. Schedule'
    BY <1>2, <1>5, <2>4, <2>5 DEF Schedule
  <2> QED BY <1>1, <2>6, Continues
<1> QED BY <1>6, <1>7, <1>8, <1>9, <1>10

\* At the end of a tick nothing is amiss.
LEMMA AuditPasses ==
  ASSUME IInv, pc # "failed"
  PROVE  Isolated
<1> SUFFICES ASSUME NEW l \in Layers, NEW a \in Active, NEW b \in Active,
                    NEW i \in DOMAIN kv[a][l].table, NEW j \in DOMAIN kv[b][l].table,
                    kv[a][l].table[i] = kv[b][l].table[j]
             PROVE  a = b /\ i = j
  BY DEF Isolated
<1>1. a \in Requests /\ b \in Requests
  BY DEF Active
<1> DEFINE T == Tables(l)
<1>2. /\ T \in [Requests -> Seq(Pages)]
      /\ T[a] = kv[a][l].table /\ T[b] = kv[b][l].table
  BY <1>1, Values DEF IInv
<1>3. PagesHeldOnce(pools[l], T)
  BY DEF IInv, PoolsSound, Sound
<1> HIDE DEF T
<1>4. DOMAIN T = Requests
  BY <1>2
<1>5. i \in 1 .. Len(T[a]) /\ j \in 1 .. Len(T[b]) /\ T[a][i] = T[b][j]
  BY <1>1, <1>2
<1>6. \A x, y \in DOMAIN T : \A m \in 1 .. Len(T[x]), n \in 1 .. Len(T[y]) :
        T[x][m] = T[y][n] => x = y /\ m = n
  BY <1>3, Zenon DEF PagesHeldOnce
<1> QED BY <1>1, <1>4, <1>5, <1>6

LEMMA PoolsSettle ==
  ASSUME IInv, pc = "audit", Alike, Balanced, Completed = Requests
  PROVE  PoolsSettled
<1>1. Active = {}
  <2> SUFFICES ASSUME NEW r \in Active  PROVE FALSE
    OBVIOUS
  <2>1. state[r] = "Finished" /\ state[r] = "Decode"
    BY DEF Active, Completed
  <2> QED BY <2>1
<1>2. Free = PoolPages /\ PoolPages \in Nat
  BY <1>1, NobodyHolds, Constants
<1>3. ASSUME NEW l \in Layers
      PROVE  /\ UsedPages(pools[l]) = 0
             /\ pools[l].allocations = pools[1].allocations
             /\ pools[l].releases = pools[1].releases
  BY <1>2 DEF Alike, UsedPages
<1> QED BY <1>3 DEF PoolsSettled

LEMMA EndTickSchedules ==
  ASSUME IInv, SInv, EndTick
  PROVE  SInv'
<1>1. pc = "audit" /\ ~Ended /\ Schedule
  BY DEF EndTick, SInv, Ended
<1>2. /\ tick \in Nat /\ TickLimit \in Nat /\ Behind \in Nat
      /\ LatestArrival + DecodeTotal \in Nat
      /\ Behind <= LatestArrival + DecodeTotal
  <2>1. LatestArrival \in Nat
    BY LatestIsLast DEF IInv
  <2> QED BY SMTT(40), <1>1, <2>1, DecodedAtMost, Constants DEF IInv, Types
<1>3. ~(~progress /\ ~FutureArrival)
  <2> SUFFICES ASSUME ~progress  PROVE FutureArrival
    OBVIOUS
  <2>1. Quiet /\ Completed # Requests
    BY <1>1 DEF Schedule, InAudit
  <2> QED BY <2>1, QuietIsEarly DEF IInv
<1>4. Isolated
  BY <1>1, AuditPasses
<1>5. CASE Completed # Requests
  <2>1. tick < Behind /\ tick < LatestArrival + DecodeTotal
    BY <1>1, <1>2, <1>5 DEF Schedule, InAudit
  <2>2. CASE tick >= TickLimit
    <3>1. TickLimit < LatestArrival + DecodeTotal
      BY <1>2, <2>1, <2>2
    <3>2. Throw("tick limit")
      BY <1>3, <1>4, <1>5, <2>2 DEF EndTick
    <3> QED BY <3>1, <3>2, ThrowSchedules
  <2>3. CASE ~(tick >= TickLimit)
    <3>1. NextTick
      BY <1>3, <1>4, <1>5, <2>3 DEF EndTick
    <3>2. /\ pc' = "resume" /\ cursor' = 1 /\ tick' = tick + 1
          /\ UNCHANGED <<pools, kv, specs, generated, state, cause>>
      BY <3>1 DEF NextTick, cache
    <3>3. /\ Alike' /\ Balanced' /\ Behind' = Behind
          /\ LatestArrival' = LatestArrival /\ DecodeTotal' = DecodeTotal
      BY <1>1, <3>2, PagesStay, DecodedStays DEF Schedule
    <3>4. tick' <= Behind /\ tick' <= LatestArrival + DecodeTotal
      BY <1>2, <2>1, <3>2
    <3>5. OnlyTheDeviceFails' /\ ProgressBound'
      BY <3>2, <3>3, <3>4 DEF SInv, OnlyTheDeviceFails, ProgressBound
    <3>6. InResume'
      <4>1. \A k \in Requests : ~(k < 1)
        BY Constants
      <4> QED BY <3>2, <4>1 DEF InResume
    <3>7. InPrefill' /\ InChunk' /\ InPreempt' /\ InBatch' /\ InAudit'
      BY <3>2 DEF InPrefill, InChunk, InPreempt, InBatch, InAudit
    <3>8. (Completed # Requests)'
      BY <1>5, <3>2 DEF Completed
    <3>9. (tick <= Behind)'
      BY <3>3, <3>4
    <3> QED BY <3>3, <3>5, <3>6, <3>7, <3>8, <3>9 DEF SInv, Schedule
  <2> QED BY <2>2, <2>3
<1>6. CASE Completed = Requests
  <2>1. PoolsSettled
    BY <1>1, <1>6, PoolsSettle DEF Schedule
  <2>2. Pass
    BY <1>3, <1>4, <1>6, <2>1 DEF EndTick
  <2>3. pc' = "passed" /\ UNCHANGED <<specs, tick, cause>>
    BY <2>2 DEF Pass
  <2>4. Ended'
    BY <2>3 DEF Ended
  <2>5. LatestArrival' = LatestArrival /\ DecodeTotal' = DecodeTotal
    BY <2>3 DEF LatestArrival, DecodeTotal
  <2> QED BY <2>3, <2>4, <2>5 DEF SInv, OnlyTheDeviceFails, ProgressBound
<1> QED BY <1>5, <1>6

\* A stage for n positions succeeds when the missing pages are free in one
\* layer, and takes them in every layer.
LEMMA StageTakes ==
  ASSUME IInv, pc # "failed", Alike, NEW r \in Requests, ~Ahead(r),
         NEW n \in 1 .. Capacity, n > Length(r),
         NEW missing, missing = PagesFor(n) - HeldPages(r), missing <= Free
  PROVE  /\ missing \in Nat
         /\ Succeeds(Staged(r, n))
         /\ Changes(r, Staged(r, n), missing, 0)
<1>1. /\ Types /\ PoolsSound /\ LayersAgree(r) /\ n \in Nat /\ Length(r) \in Nat
      /\ Covered(r) = Length(r)
  BY Values, Constants DEF IInv, RequestInv, Covered
<1>2. /\ HeldPages(r) = PagesFor(Length(r)) /\ HeldPages(r) <= PagesFor(n)
      /\ PagesFor(n) \in Nat /\ HeldPages(r) \in Nat /\ missing \in Nat
  <2>1. HeldPages(r) = PagesFor(Length(r))
    BY <1>1, Holdings
  <2>2. /\ PagesFor(Length(r)) <= PagesFor(n)
        /\ PagesFor(n) \in Nat /\ PagesFor(Length(r)) \in Nat
    <3>1. Length(r) <= n
      BY <1>1
    <3> QED BY <1>1, <3>1, PagesForIsMonotone
  <2> QED BY <2>1, <2>2
<1>3. ASSUME NEW l \in Layers
      PROVE  Took(pools[l], Staged(r, n)[l], missing)
  <2> DEFINE x  == Staged(r, n)[l]
             P  == pools[l]
             T  == Tables(l)
             st == kv[r][l]
  <2>1. x = StageLength(P, st, n, {})
    BY DEF Staged, Outcomes
  <2>2. /\ Sound(P, T, Requests) /\ st \in StateType /\ st.table = T[r]
        /\ Len(T[r]) = HeldPages(r)
    BY <1>1, Values, Holdings DEF PoolsSound
  <2> HIDE DEF x, P, T, st
  <2>3. Holder(P, T, Requests, r, st)
    BY <2>2 DEF Holder
  <2>4. Len(T[r]) <= PagesFor(n)
    BY <1>2, <2>2
  <2>5. Took(P, x, PagesFor(n) - Len(T[r]))
    BY <2>1, <2>3, <2>4, StageCounts
  <2>6. PagesFor(n) - Len(T[r]) = missing
    BY <2>2
  <2>7. Took(P, x, missing)
    BY <2>5, <2>6
  <2> QED BY <2>7 DEF x, P
<1>4. Succeeds(Staged(r, n))
  <2> SUFFICES ASSUME NEW l \in Layers  PROVE Staged(r, n)[l].ok
    BY DEF Succeeds
  <2>1. Took(pools[l], Staged(r, n)[l], missing) /\ Len(pools[l].free) = Free
    BY <1>3 DEF Alike
  <2> QED BY <2>1 DEF Took
<1>5. ASSUME NEW l \in Layers
      PROVE  /\ Len(Staged(r, n)[l].pool.free) = (Len(pools[l].free) - missing) + 0
             /\ Staged(r, n)[l].pool.allocations = pools[l].allocations + missing
             /\ Staged(r, n)[l].pool.releases = pools[l].releases + 0
             /\ Len(Staged(r, n)[l].state.table) = (HeldPages(r) + missing) - 0
  <2> DEFINE x == Staged(r, n)[l]
  <2>1. x = Staged(r, n)[l]
    OBVIOUS
  <2>2. x.ok /\ Took(pools[l], x, missing)
    BY <1>3, <1>4 DEF Succeeds
  <2> HIDE DEF x
  <2>3. /\ Sound(x.pool, [Tables(l) EXCEPT ![r] = x.state.table], Requests)
        /\ x.state \in StateType
        /\ x.state.length = Length(r)
        /\ n <= Capacity /\ Len(x.state.table) = PagesFor(n)
        /\ x.state.devTable = x.state.table
        /\ \A q \in 0 .. Length(r) - 1 :
             SlotOf(x.state.table, q) = SlotOf(kv[r][l].table, q)
    BY <1>1, <1>4, <2>1, StagedOnAll
  <2>4. /\ Len(x.pool.free) = Len(pools[l].free) - missing
        /\ x.pool.allocations = pools[l].allocations + missing
        /\ x.pool.releases = pools[l].releases
    BY <2>2 DEF Took
  <2>5. Len(pools[l].free) \in Nat /\ pools[l].releases \in Nat
    BY <1>1, Counts
  <2>6. /\ Len(x.pool.free) = (Len(pools[l].free) - missing) + 0
        /\ x.pool.allocations = pools[l].allocations + missing
        /\ x.pool.releases = pools[l].releases + 0
        /\ Len(x.state.table) = (HeldPages(r) + missing) - 0
    BY ONLY <1>2, <2>3, <2>4, <2>5, missing = PagesFor(n) - HeldPages(r)
  <2> QED BY <2>6 DEF x
<1> QED BY <1>2, <1>4, <1>5 DEF Changes

\* restoreKVCache on every layer.
Restored(r) ==
  Outcomes(r, LAMBDA pool, kvs :
                Restore(pool, kvs, snapshot[r].length, {}, {}))

\* So does a restore into the empty cache of a preempted request.
LEMMA RestoreTakes ==
  ASSUME IInv, pc = "resume", Alike, NEW r \in Requests, state[r] = "Preempted",
         NEW n, n = snapshot[r].length, PagesFor(n) <= Free,
         NEW o, o = Restored(r)
  PROVE  Succeeds(o) /\ Changes(r, o, PagesFor(n), 0)
<1>1. /\ Types /\ LayersAgree(r) /\ Length(r) = 0 /\ ~Ahead(r) /\ HeldPages(r) = 0
      /\ n \in 1 .. Capacity /\ n > Length(r) /\ PagesFor(n) \in Nat
  <2>1. Length(r) = 0 /\ ~Ahead(r) /\ r \notin Active /\ ~Prefilling(r)
    BY DEF IInv, RequestInv, Stands, Ahead, Active, Prefilling
  <2>2. n \in 1 .. Capacity /\ PagesFor(n) \in Nat
    BY EachFits
  <2>3. HeldPages(r) = 0
    BY <2>1, Holdings
  <2>4. n > Length(r)
    BY <2>1, <2>2
  <2> QED BY <2>1, <2>2, <2>3, <2>4 DEF IInv, RequestInv
<1>2. /\ Succeeds(Staged(r, n)) /\ Changes(r, Staged(r, n), PagesFor(n), 0)
  <2> DEFINE missing == PagesFor(n)
  <2>1. missing = PagesFor(n) - HeldPages(r) /\ missing <= Free
    BY <1>1
  <2> HIDE DEF missing
  <2>2. Succeeds(Staged(r, n)) /\ Changes(r, Staged(r, n), missing, 0)
    BY <1>1, <2>1, StageTakes
  <2> QED BY <2>2 DEF missing
<1>3. ASSUME NEW l \in Layers
      PROVE  /\ o[l].ok /\ o[l].pool = Staged(r, n)[l].pool
             /\ o[l].state.table = Staged(r, n)[l].state.table
  <2> DEFINE x  == Staged(r, n)[l]
             P  == pools[l]
             st == kv[r][l]
             none == {}
             T  == Tables(l)
  <2>1. /\ x = StageLength(P, st, n, none)
        /\ o[l] = Restore(P, st, n, none, none)
        /\ x.ok /\ none = {}
    BY <1>2 DEF Staged, Restored, Outcomes, Succeeds
  <2>2. st.length = 0
    BY <1>1 DEF LayersAgree
  <2>3. /\ Sound(P, T, Requests) /\ st \in StateType /\ st.table = T[r]
        /\ Len(T[r]) = PagesFor(st.length) /\ n \in Nat /\ n > st.length
    <3>1. /\ Sound(P, T, Requests) /\ st \in StateType /\ st.table = T[r]
          /\ Len(T[r]) = HeldPages(r) /\ n \in Nat
      BY <1>1, Values, Holdings, Constants DEF IInv, PoolsSound
    <3>2. Len(T[r]) = PagesFor(0)
      <4>1. 0 \in Nat
        OBVIOUS
      <4> QED BY <1>1, <3>1, <4>1, PagesForIsMonotone
    <3> QED BY <1>1, <2>2, <3>1, <3>2
  <2> HIDE DEF x, P, st, none, T
  <2>4. /\ Sound(x.pool, [T EXCEPT ![r] = x.state.table], Requests)
        /\ x.state \in StateType
        /\ x.ok \in BOOLEAN
    BY <2>1, <2>3, StageSound
  <2> DEFINE y == o[l]
  <2>0. y = Restore(P, st, n, none, none)
    BY <2>1
  <2> HIDE DEF y
  <2>6. /\ y.ok = x.ok
        /\ y.ok => /\ y.pool = x.pool
                   /\ y.state = CommitLength(x.state, n)
    <3>1. x = StageLength(P, st, n, none) /\ none = {}
      BY <2>1
    <3>2. x.ok \in BOOLEAN
      BY <2>4
    <3>3. n \in 1 .. Capacity
      BY <1>1
    <3> QED BY ONLY <2>0, <2>2, <3>1, <3>2, <3>3, RestoreIsStaged, SMTT(30)
  <2>5. /\ o[l].ok = x.ok
        /\ o[l].ok => /\ o[l].pool = x.pool
                      /\ o[l].state = CommitLength(x.state, n)
    BY <2>6 DEF y
  <2>7. CommitLength(x.state, n).table = x.state.table
    BY <2>4 DEF CommitLength, StateType
  <2> QED BY <2>1, <2>5, <2>7 DEF x
<1>4. Succeeds(o)
  BY <1>3 DEF Succeeds
<1>5. Changes(r, o, PagesFor(n), 0)
  <2> SUFFICES ASSUME NEW l \in Layers
               PROVE  /\ Len(o[l].pool.free) = (Len(pools[l].free) - PagesFor(n)) + 0
                      /\ o[l].pool.allocations = pools[l].allocations + PagesFor(n)
                      /\ o[l].pool.releases = pools[l].releases + 0
                      /\ Len(o[l].state.table) = (HeldPages(r) + PagesFor(n)) - 0
    BY DEF Changes
  <2>1. /\ o[l].pool = Staged(r, n)[l].pool
        /\ o[l].state.table = Staged(r, n)[l].state.table
    BY <1>3
  <2>2. /\ Len(Staged(r, n)[l].pool.free) = (Len(pools[l].free) - PagesFor(n)) + 0
        /\ Staged(r, n)[l].pool.allocations = pools[l].allocations + PagesFor(n)
        /\ Staged(r, n)[l].pool.releases = pools[l].releases + 0
        /\ Len(Staged(r, n)[l].state.table) = (HeldPages(r) + PagesFor(n)) - 0
    BY <1>2 DEF Changes
  <2> QED BY <2>1, <2>2
<1> QED BY <1>4, <1>5

LEMMA InitSchedules ==
  ASSUME Init
  PROVE  SInv
<1>1. /\ IInv /\ pc = "resume" /\ cursor = 1 /\ tick = 0 /\ cause = "none"
      /\ pools = [l \in Layers |-> NewPool]
      /\ state = [r \in Requests |-> "Waiting"]
  BY InitIInv DEF Init
<1>2. Free = PoolPages /\ Alike
  BY <1>1, NewPoolSound, Constants DEF Free, Alike
<1>3. Balanced
  <2> DEFINE f == Held
  <2>1. \A r \in Requests : f[r] = 0
    <3> SUFFICES ASSUME NEW r \in Requests  PROVE HeldPages(r) = 0
      BY DEF Held
    <3>1. r \notin Active /\ ~Prefilling(r)
      BY <1>1 DEF Active, Prefilling
    <3> QED BY <1>1, <3>1, Holdings
  <2>2. Balanced <=> Free + SumFunctionOnSet(f, Requests) = PoolPages
    BY DEF Balanced
  <2> HIDE DEF f
  <2>3. SumFunctionOnSet(f, Requests) = 0
    BY <2>1, Constants, SumOfZeros
  <2> QED BY <1>2, <2>2, <2>3, Constants
<1>4. \A k \in Requests : ~(k < cursor)
  BY <1>1, Constants
<1>5. InResume /\ InPrefill /\ InChunk /\ InPreempt /\ InBatch /\ InAudit
  BY <1>1, <1>4 DEF InResume, InPrefill, InChunk, InPreempt, InBatch, InAudit
<1>6. Completed # Requests
  <2>1. 1 \in Requests
    BY Constants DEF Requests
  <2> QED BY <1>1, <2>1 DEF Completed
<1>7. Behind \in Nat /\ Behind <= LatestArrival + DecodeTotal /\ DecodeTotal \in Nat
      /\ LatestArrival \in Nat
  BY <1>1, DecodedAtMost, LatestIsLast DEF IInv
<1>8. tick <= Behind /\ tick <= LatestArrival + DecodeTotal
  BY <1>1, <1>7
<1> QED BY <1>1, <1>2, <1>3, <1>5, <1>6, <1>8
        DEF SInv, Schedule, OnlyTheDeviceFails, ProgressBound

\* The batch was made to fit, so every one of it can be staged.
LEMMA StageSchedules ==
  ASSUME IInv, SInv, NEW r \in Requests, Stage(r)
  PROVE  SInv'
<1> DEFINE n       == Length(r) + 1
           o       == Staged(r, n)
           missing == AdditionalPages(r)
           S       == {k \in Active : cursor <= k}
           later   == {k \in Active : r + 1 <= k}
           f       == Additional
<1>1. /\ pc = "stage" /\ cursor <= r /\ r \in Active
      /\ \A k \in cursor .. r - 1 : k \notin Active
      /\ Types /\ Schedule /\ Alike /\ Balanced /\ pc # "failed"
  BY DEF Stage, Reaches, IInv, SInv, Ended, Schedule
<1>2. /\ cursor \in Nat /\ Requests \subseteq Nat /\ N \in Nat
      /\ Active \subseteq Requests
  BY <1>1, Constants DEF Types, Active
<1>3. S \ {r} = later /\ r \in S
  <2>1. \A k \in Active : k \in Nat /\ r \in Nat /\ cursor \in Nat
    BY <1>2
  <2> QED BY <1>1, <2>1
<1>4. IsFiniteSet(S) /\ IsFiniteSet(later)
  <2>1. IsFiniteSet(Requests) /\ S \in SUBSET Requests /\ later \in SUBSET Requests
    BY <1>2, Constants
  <2> QED BY <2>1, FS_Subset
<1>5. \A k \in Requests : f[k] = AdditionalPages(k) /\ f[k] \in Nat
  BY <1>1, NextPages
<1>6. SumFunctionOnSet(f, S) <= Free
  BY <1>1 DEF Schedule, InBatch
<1>7. S \subseteq Requests /\ later \subseteq Requests
  BY <1>2
<1>8. /\ ~Ahead(r) /\ n \in 1 .. Capacity /\ n > Length(r) /\ Length(r) \in Nat
      /\ missing = PagesFor(n) - HeldPages(r) /\ missing \in Nat /\ Free \in Nat
  <2>1. ~Ahead(r) /\ HeldPages(r) \in Nat /\ Length(r) \in Nat /\ Free \in Nat
    <3>1. ~(r < cursor)
      BY <1>1, <1>2
    <3> QED BY <1>1, <3>1, Counts, Values DEF Ahead, Pending
  <2>2. /\ missing \in Nat /\ n \in 1 .. Capacity
        /\ HeldPages(r) + missing = PagesFor(n)
    BY <1>1, <2>1, NextPages
  <2> HIDE DEF missing
  <2> QED BY <2>1, <2>2
<1> HIDE DEF S, later, f
<1>9. /\ SumFunctionOnSet(f, S) = f[r] + SumFunctionOnSet(f, S \ {r})
      /\ SumFunctionOnSet(f, later) \in Nat
  <2>1. \A k \in S : f[k] \in Int
    BY <1>5, <1>7
  <2>2. SumFunctionOnSet(f, S) = f[r] + SumFunctionOnSet(f, S \ {r})
    BY ONLY <1>3, <1>4, <2>1, SumTakeOut
  <2>3. \A k \in later : f[k] \in Nat
    BY <1>5, <1>7
  <2>4. SumFunctionOnSet(f, later) \in Nat
    BY ONLY <1>4, <2>3, SumNat
  <2> QED BY <2>2, <2>4
<1>10. missing + SumFunctionOnSet(f, later) <= Free
  BY <1>3, <1>5, <1>6, <1>9
<1> HIDE DEF missing, n, o
<1>11. missing <= Free
  BY <1>8, <1>9, <1>10
<1>12. Succeeds(o) /\ Changes(r, o, missing, 0)
  <2>1. /\ missing \in Nat /\ Succeeds(Staged(r, n))
        /\ Changes(r, Staged(r, n), missing, 0)
    BY <1>1, <1>8, <1>11, StageTakes
  <2> QED BY <2>1 DEF o
<1>13. /\ Become(r, o) /\ cursor' = r + 1
       /\ UNCHANGED <<specs, state, snapshot, generated, tick, progress, pc, cause>>
  BY <1>12 DEF Stage, o, n
<1>14. /\ Alike' /\ Balanced' /\ Free' = (Free - missing) + 0
  BY <1>1, <1>8, <1>12, <1>13, PagesMove
<1>15. Length(r)' = Length(r) /\ \A k \in Requests \ {r} : Length(k)' = Length(k)
  <2>1. 1 \in Layers /\ PoolsSound /\ LayersAgree(r)
    BY <1>1, Constants DEF IInv, RequestInv
  <2>2. kv' = [kv EXCEPT ![r] = [l \in Layers |-> o[l].state]]
        /\ kv \in [Requests -> [Layers -> StateType]]
    BY <1>1, <1>13 DEF Become, Types
  <2> DEFINE x == o[1]
  <2>3. x = Staged(r, n)[1] /\ n \in Nat /\ Succeeds(Staged(r, n))
    BY <1>8, <1>12 DEF o
  <2>4. kv'[r][1] = x.state /\ \A k \in Requests \ {r} : kv'[k] = kv[k]
    BY <2>1, <2>2
  <2> HIDE DEF x
  <2>5. /\ Sound(x.pool, [Tables(1) EXCEPT ![r] = x.state.table], Requests)
        /\ x.state \in StateType
        /\ x.state.length = Length(r)
        /\ n <= Capacity /\ Len(x.state.table) = PagesFor(n)
        /\ x.state.devTable = x.state.table
        /\ \A q \in 0 .. Length(r) - 1 :
             SlotOf(x.state.table, q) = SlotOf(kv[r][1].table, q)
    BY <1>1, <1>8, <2>1, <2>3, StagedOnAll
  <2> QED BY <2>4, <2>5 DEF Length
<1>16. f' = f
  <2>1. \A k \in Requests : AdditionalPages(k)' = AdditionalPages(k)
    BY <1>15 DEF AdditionalPages
  <2> QED BY <2>1 DEF f, Additional
<1>17. /\ Active' = Active /\ Completed' = Completed /\ Behind' = Behind
  BY <1>13, DecodedStays DEF Active, Completed
<1>18. (SumFunctionOnSet(Additional, {k \in Active : cursor <= k}) <= Free)'
  <2>1. SumFunctionOnSet(f, later) <= Free'
    BY <1>8, <1>9, <1>10, <1>14
  <2>2. {k \in Active : cursor <= k}' = later
    BY <1>13, <1>17 DEF later
  <2> QED BY <1>16, <2>1, <2>2 DEF f
<1>19. InBatch'
  BY <1>1, <1>13, <1>17, <1>18 DEF InBatch
<1>20. InResume' /\ InPrefill' /\ InChunk' /\ InPreempt' /\ InAudit'
  BY <1>1, <1>13 DEF InResume, InPrefill, InChunk, InPreempt, InAudit
<1>21. (progress \/ Completed # Requests)' /\ (tick <= Behind)'
  BY <1>1, <1>13, <1>17 DEF Schedule
<1>22. Schedule'
  BY <1>14, <1>19, <1>20, <1>21 DEF Schedule
<1> QED BY <1>13, <1>22, Continues

LEMMA ResumeSchedules ==
  ASSUME IInv, SInv, NEW r \in Requests, Resume(r)
  PROVE  SInv'
<1> DEFINE o     == Restored(r)
           taken == PagesFor(snapshot[r].length)
<1>1. /\ pc = "resume" /\ cursor <= r /\ MayResume(r)
      /\ \A k \in cursor .. r - 1 : ~MayResume(k)
      /\ Types /\ Schedule /\ Alike /\ Balanced /\ pc # "failed"
      /\ state[r] = "Preempted" /\ taken <= Available
  BY DEF Resume, Reaches, MayResume, IInv, SInv, Ended, Schedule
<1>2. /\ Available = Free /\ Free \in Nat /\ taken \in Nat
      /\ cursor \in Nat /\ r \in Nat /\ \A k \in Requests : k \in Nat
  <2>1. cursor \in 1 .. N + 1 /\ N \in Nat /\ Requests \subseteq Nat
    BY <1>1, Constants DEF Types
  <2>2. taken \in Nat
    BY <1>1, EachFits
  <2> QED BY <1>1, <2>1, <2>2, AvailableIsFree, Counts
<1>3. Succeeds(o) /\ Changes(r, o, taken, 0)
  <2>1. taken <= Free
    BY <1>1, <1>2
  <2> QED BY <1>1, <2>1, RestoreTakes
<1>4. /\ Become(r, o) /\ cursor' = r + 1 /\ progress' = TRUE
      /\ state' = [state EXCEPT ![r] = "Decode"]
      /\ snapshot' = [snapshot EXCEPT ![r] = NoSnapshot]
      /\ UNCHANGED <<specs, generated, tick, pc, cause>>
  BY <1>3 DEF Resume, Restored
<1> HIDE DEF o, taken
<1>5. /\ Alike' /\ Balanced' /\ Free' = (Free - taken) + 0
  BY <1>1, <1>2, <1>3, <1>4, PagesMove
<1>6. Behind' = Behind
  BY <1>4, DecodedStays
<1>7. InResume'
  <2> SUFFICES ASSUME NEW k \in Requests, k < r + 1, state'[k] = "Preempted"
               PROVE  Free' < PagesFor(snapshot'[k].length)
    BY <1>4 DEF InResume
  <2>1. k # r
    BY <1>1, <1>4 DEF Types
  <2>2. state[k] = "Preempted" /\ snapshot'[k] = snapshot[k]
    BY <1>1, <1>4, <2>1 DEF Types
  <2>3. PagesFor(snapshot[k].length) \in Nat
    BY <1>1, <2>2, EachFits
  <2>4. Free < PagesFor(snapshot[k].length)
    <3>1. CASE k < cursor
      BY <1>1, <2>2, <3>1 DEF Schedule, InResume
    <3>2. CASE ~(k < cursor)
      <4>1. k \in cursor .. r - 1
        BY <1>2, <2>1, <3>2
      <4>2. ~(Available >= PagesFor(snapshot[k].length))
        BY <1>1, <2>2, <4>1 DEF MayResume
      <4> QED BY <1>2, <2>3, <4>2
    <3> QED BY <3>1, <3>2
  <2> QED BY <1>2, <1>5, <2>2, <2>3, <2>4
<1>8. InPrefill' /\ InChunk' /\ InPreempt' /\ InBatch' /\ InAudit'
  BY <1>1, <1>4 DEF InPrefill, InChunk, InPreempt, InBatch, InAudit
<1>9. Schedule'
  BY <1>1, <1>4, <1>5, <1>6, <1>7, <1>8 DEF Schedule
<1> QED BY <1>4, <1>9, Continues

\* A request that gives back what it holds, from states with its tables.
LEMMA ReleaseGives ==
  ASSUME IInv, pc # "failed", NEW r \in Requests, NEW o,
         \A l \in Layers : \E st \in StateType :
           st.table = kv[r][l].table /\ o[l] = Reset(pools[l], st, {})
  PROVE  Changes(r, o, 0, HeldPages(r))
<1> SUFFICES ASSUME NEW l \in Layers
             PROVE  /\ Len(o[l].pool.free) = (Len(pools[l].free) - 0) + HeldPages(r)
                    /\ o[l].pool.allocations = pools[l].allocations + 0
                    /\ o[l].pool.releases = pools[l].releases + HeldPages(r)
                    /\ Len(o[l].state.table) = (HeldPages(r) + 0) - HeldPages(r)
  BY DEF Changes
<1>1. PICK st \in StateType : st.table = kv[r][l].table /\ o[l] = Reset(pools[l], st, {})
  OBVIOUS
<1> DEFINE x == o[l]
           T == Tables(l)
           P == pools[l]
<1>2. /\ Sound(P, T, Requests) /\ st.table = T[r] /\ Len(T[r]) = HeldPages(r)
      /\ HeldPages(r) \in Nat /\ Len(P.free) \in Nat /\ P.allocations \in Nat
      /\ x = Reset(P, st, {})
  BY <1>1, Values, Holdings, Counts DEF IInv, PoolsSound
<1> HIDE DEF x, T, P
<1>3. Holder(P, T, Requests, r, st)
  BY <1>2 DEF Holder
<1>4. GaveBack(P, x, Len(T[r]))
  BY <1>2, <1>3, ResetCounts
<1>5. /\ x.state = NewState
      /\ Len(x.pool.free) = Len(P.free) + HeldPages(r)
      /\ x.pool.allocations = P.allocations
      /\ x.pool.releases = P.releases + HeldPages(r)
  BY <1>2, <1>4 DEF GaveBack
<1>6. Len(x.state.table) = 0
  BY <1>5 DEF NewState
<1>7. /\ Len(x.pool.free) = (Len(P.free) - 0) + HeldPages(r)
      /\ x.pool.allocations = P.allocations + 0
      /\ x.pool.releases = P.releases + HeldPages(r)
      /\ Len(x.state.table) = (HeldPages(r) + 0) - HeldPages(r)
  BY <1>2, <1>5, <1>6
<1> QED BY <1>7 DEF x, P

\* The last active request is never preempted.
LEMMA PreemptSchedules ==
  ASSUME IInv, SInv, Preempt
  PROVE  SInv'
<1> DEFINE r    == SelectPreemptionVictim
           o    == Released(r)
           held == HeldPages(r)
<1>1. /\ pc = "preempt" /\ Active # {} /\ ~BatchFits
      /\ Types /\ Schedule /\ Alike /\ Balanced /\ pc # "failed"
      /\ Become(r, o)
      /\ state' = [state EXCEPT ![r] = "Preempted"]
      /\ progress' = TRUE
      /\ UNCHANGED <<specs, generated, tick, pc, cause>>
  BY DEF Preempt, IInv, SInv, Ended, Schedule
<1>2. r \in Active /\ r \in Requests
  BY <1>1, VictimIsActive DEF Active
<1>3. \A l \in Layers : o[l] = Reset(pools[l], kv[r][l], {})
  BY DEF Released, Outcomes
<1>4. held \in Nat
  BY <1>1, <1>2, Counts
<1>5. \A l \in Layers : kv[r][l] \in StateType
  BY <1>1, <1>2, Values
<1> HIDE DEF r, o
<1>6. Changes(r, o, 0, held)
  BY <1>1, <1>2, <1>3, <1>5, ReleaseGives
<1> HIDE DEF held
<1>7. Alike' /\ Balanced'
  BY <1>1, <1>2, <1>4, <1>6, PagesMove
<1>8. InPreempt'
  <2> SUFFICES ASSUME Active' = {}  PROVE FALSE
    BY DEF InPreempt
  <2>1. \A b \in Requests \ {r} : state'[b] = state[b]
    BY <1>1 DEF Types
  <2>2. Active = {r}
    BY <1>2, <2>1 DEF Active
  <2> QED BY <1>1, <1>2, <2>2, AloneFits
<1>9. Behind' = Behind
  BY <1>1, DecodedStays
<1>10. InResume' /\ InPrefill' /\ InChunk' /\ InBatch' /\ InAudit'
  BY <1>1 DEF InResume, InPrefill, InChunk, InBatch, InAudit
<1>11. Schedule'
  BY <1>1, <1>7, <1>8, <1>9, <1>10 DEF Schedule
<1> QED BY <1>1, <1>11, Continues

\* Every active request gets a row.
LEMMA DecodeBatchSchedules ==
  ASSUME IInv, SInv, DecodeBatch
  PROVE  SInv'
<1>1. /\ pc = "decode" /\ pc' = "commit" /\ Schedule /\ Alike /\ Balanced
      /\ UNCHANGED <<specs, pools, kv, state, generated, tick, progress, cause>>
  BY DEF DecodeBatch, SInv, Ended, Schedule
<1>2. PICK r \in Active : TRUE
  BY <1>1 DEF Schedule, InBatch
<1>3. r \in Requests
  BY DEF Active
<1>4. Pending(r)'
  <2>1. batch'.active = Active /\ cursor' = 1
    BY DEF DecodeBatch
  <2> QED BY <1>1, <1>2, <1>3, <2>1, Constants DEF Pending
<1>5. /\ Alike' /\ Balanced' /\ Behind' = Behind /\ Completed' = Completed
  BY <1>1, PagesStay, DecodedStays DEF Completed
<1>6. InBatch'
  BY <1>1, <1>3, <1>4 DEF InBatch
<1>7. InResume' /\ InPrefill' /\ InChunk' /\ InPreempt' /\ InAudit'
  BY <1>1 DEF InResume, InPrefill, InChunk, InPreempt, InAudit
<1>8. (progress \/ Completed # Requests)' /\ (tick <= Behind)'
  BY <1>1, <1>5 DEF Schedule
<1>9. Schedule'
  BY <1>5, <1>6, <1>7, <1>8 DEF Schedule
<1> QED BY <1>1, <1>9, Continues

\* A committed token makes the tick one that has decoded something.
LEMMA CommitSchedules ==
  ASSUME IInv, SInv, NEW r \in Requests, Commit(r)
  PROVE  SInv'
<1> DEFINE committed == [l \in Layers |-> CommitLength(kv[r][l], Length(r) + 1)]
           output    == Append(generated[r], Sampled(r))
           done      == Len(output) = specs[r].decode + 1
           emptied   == [l \in Layers |-> Reset(pools[l], committed[l], {})]
           k         == Len(generated[r])
           held      == HeldPages(r)
<1>1. /\ pc = "commit" /\ Pending(r) /\ pc # "failed"
      /\ Types /\ Schedule /\ Alike /\ Balanced /\ RequestInv(r)
      /\ IF done THEN Become(r, emptied)
         ELSE pools' = pools /\ kv' = [kv EXCEPT ![r] = committed]
      /\ generated' = [generated EXCEPT ![r] = output]
      /\ progress' = TRUE
      /\ UNCHANGED <<specs, tick, pc, cause>>
  BY DEF Commit, Reaches, IInv, SInv, Ended, Schedule
<1>2. /\ state[r] = "Decode" /\ k \in 1 .. specs[r].decode /\ k \in Nat
      /\ Length(r) = specs[r].prompt + k - 1
      /\ specs[r].prompt \in Nat /\ specs[r].decode \in Nat /\ Capacity \in Nat
      /\ specs[r].prompt + specs[r].decode \in 0 .. Capacity
      /\ generated[r] \in Seq(Tokens)
  BY <1>1, Values, Constants DEF RequestInv, OwnSample, Stands, Types
<1>3. Length(r) + 1 \in 0 .. Capacity
  BY SMTT(40), <1>2
<1>4. /\ generated[r] # <<>> /\ Len(output) = k + 1 /\ output # <<>>
  BY <1>2
<1>5. ASSUME NEW l \in Layers
      PROVE  committed[l] \in StateType /\ committed[l].table = kv[r][l].table
  <2>1. kv[r][l] \in StateType
    BY <1>1, Values
  <2> QED BY <1>3, <2>1 DEF CommitLength, StateType
<1> HIDE DEF committed, done, output
<1>6. Alike' /\ Balanced'
  <2>1. CASE done
    <3>1. held \in Nat
      BY <1>1, Counts
    <3>2. \A l \in Layers : \E st \in StateType :
            st.table = kv[r][l].table /\ emptied[l] = Reset(pools[l], st, {})
      BY <1>5
    <3>3. Become(r, emptied)
      BY <1>1, <2>1
    <3> HIDE DEF emptied, held
    <3>4. Changes(r, emptied, 0, held)
      BY <1>1, <3>2, ReleaseGives DEF held
    <3> QED BY <1>1, <3>1, <3>3, <3>4, PagesMove
  <2>2. CASE ~done
    <3>1. pools' = pools /\ kv' = [kv EXCEPT ![r] = committed]
          /\ kv \in [Requests -> [Layers -> StateType]] /\ 1 \in Layers
      BY <1>1, <2>2, Constants DEF Types
    <3>2. \A b \in Requests : HeldPages(b)' = HeldPages(b)
      BY <1>5, <3>1 DEF HeldPages
    <3>3. Held' = Held
      BY <3>2 DEF Held
    <3> QED BY <1>1, <3>1, <3>3 DEF Alike, Balanced, Free
  <2> QED BY <2>1, <2>2
<1>7. SumFunctionOnSet(Decoded', Requests) = SumFunctionOnSet(Decoded, Requests) + 1
  <2> DEFINE f == Decoded
             g == Decoded'
  <2>1. f[r] = k - 1 /\ g[r] = k
    <3>1. generated'[r] = output
      BY <1>1 DEF Types
    <3> QED BY <1>2, <1>4, <3>1 DEF Decoded
  <2>2. \A b \in Requests \ {r} : g[b] = f[b]
    BY <1>1 DEF Decoded, Types
  <2>3. \A b \in Requests : f[b] \in Int
    BY <1>1, DecodedAtMost
  <2> HIDE DEF f, g
  <2>4. \A b \in Requests : f[b] \in Int /\ g[b] \in Int
    <3> SUFFICES ASSUME NEW b \in Requests  PROVE f[b] \in Int /\ g[b] \in Int
      OBVIOUS
    <3>1. CASE b = r
      BY <1>2, <2>1, <3>1
    <3>2. CASE b # r
      BY <2>2, <2>3, <3>2
    <3> QED BY <3>1, <3>2
  <2>5. IsFiniteSet(Requests)
    BY Constants
  <2>6. SumFunctionOnSet(g, Requests) = SumFunctionOnSet(f, Requests) + (g[r] - f[r])
    BY ONLY <2>2, <2>4, <2>5, r \in Requests, SumOfUpdated
  <2>7. g[r] - f[r] = 1
    BY <1>2, <2>1
  <2> QED BY <2>6, <2>7 DEF f, g
<1>8. tick' < Behind'
  <2>1. /\ LatestArrival' = LatestArrival /\ LatestArrival \in Nat /\ tick \in Nat
        /\ SumFunctionOnSet(Decoded, Requests) \in Nat
    <3>1. LatestArrival' = LatestArrival
      BY <1>1 DEF LatestArrival
    <3> QED BY SMTT(40), <1>1, <3>1, LatestIsLast, DecodedAtMost, Constants DEF Types
  <2>2. Behind' = LatestArrival' + SumFunctionOnSet(Decoded', Requests)
        /\ Behind = LatestArrival + SumFunctionOnSet(Decoded, Requests)
    BY DEF Behind
  <2>3. tick <= Behind
    BY <1>1 DEF Schedule
  <2> QED BY <1>1, <1>7, <2>1, <2>2, <2>3
<1>9. Behind' \in Nat /\ tick' \in Nat
  <2>1. LatestArrival' = LatestArrival
    BY <1>1 DEF LatestArrival
  <2>2. LatestArrival \in Nat /\ SumFunctionOnSet(Decoded, Requests) \in Nat
    BY <1>1, LatestIsLast, DecodedAtMost
  <2>3. Behind' = LatestArrival' + SumFunctionOnSet(Decoded', Requests)
    BY DEF Behind
  <2>4. Behind' \in Nat
    BY <1>7, <2>1, <2>2, <2>3
  <2> QED BY <1>1, <2>4, Constants DEF Types
<1>10. InBatch'
  BY <1>1, <1>8 DEF InBatch
<1>11. InResume' /\ InPrefill' /\ InChunk' /\ InPreempt' /\ InAudit'
  BY <1>1 DEF InResume, InPrefill, InChunk, InPreempt, InAudit
<1>12. (tick <= Behind)' /\ progress'
  BY <1>1, <1>8, <1>9
<1>13. Schedule'
  BY <1>6, <1>10, <1>11, <1>12 DEF Schedule
<1> QED BY <1>1, <1>13, Continues

RanAndEmptied(staged, n, ran, emptied) ==
  \A l \in Layers : /\ ran[l] = [staged[l] EXCEPT !.state = CommitLength(@, n)]
                     /\ emptied[l] = Reset(ran[l].pool, ran[l].state, {})

\* A chunk that is the last of a request with nothing to decode takes pages
\* and gives all of them back.
LEMMA ChunkMoves ==
  ASSUME IInv, pc # "failed", Alike, NEW r \in Requests, ~Ahead(r),
         NEW n \in 1 .. Capacity, n > Length(r),
         NEW missing, missing = PagesFor(n) - HeldPages(r), missing <= Free,
         NEW staged, staged = Staged(r, n),
         NEW ran, NEW emptied, RanAndEmptied(staged, n, ran, emptied)
  PROVE  /\ missing \in Nat /\ PagesFor(n) \in Nat
         /\ HeldPages(r) + missing = PagesFor(n)
         /\ Succeeds(staged)
         /\ Changes(r, ran, missing, 0)
         /\ Changes(r, emptied, missing, PagesFor(n))
<1>1. /\ missing \in Nat /\ Succeeds(Staged(r, n)) /\ Changes(r, Staged(r, n), missing, 0)
  BY StageTakes
<1>2. /\ Types /\ PoolsSound /\ LayersAgree(r) /\ n \in Nat /\ HeldPages(r) \in Nat
      /\ PagesFor(n) \in Nat /\ HeldPages(r) + missing = PagesFor(n)
      /\ n \in 0 .. Capacity
  <2>1. HeldPages(r) \in Nat
    BY Counts DEF IInv
  <2>2. n \in Nat /\ PagesFor(n) \in Nat
    BY Constants, PagesForIsMonotone
  <2> QED BY <2>1, <2>2, Constants DEF IInv, RequestInv
<1>3. ASSUME NEW l \in Layers
      PROVE  /\ Sound(staged[l].pool, [Tables(l) EXCEPT ![r] = staged[l].state.table],
                      Requests)
             /\ staged[l].state \in StateType
             /\ Len(staged[l].state.table) = PagesFor(n)
             /\ ran[l].pool = staged[l].pool
             /\ ran[l].state \in StateType
             /\ ran[l].state.table = staged[l].state.table
  <2> DEFINE x == staged[l]
  <2>1. x = [pool |-> x.pool, state |-> x.state, ok |-> x.ok]
    <3>1. x = StageLength(pools[l], kv[r][l], n, {})
      BY DEF Staged, Outcomes
    <3> HIDE DEF x
    <3> QED BY <3>1, StageIsOutcome
  <2>2. ran[l] = [x EXCEPT !.state = CommitLength(x.state, n)]
    BY DEF RanAndEmptied
  <2>3. x = Staged(r, n)[l]
    OBVIOUS
  <2> HIDE DEF x
  <2>4. /\ Sound(x.pool, [Tables(l) EXCEPT ![r] = x.state.table], Requests)
        /\ x.state \in StateType
        /\ x.state.length = Length(r)
        /\ n <= Capacity /\ Len(x.state.table) = PagesFor(n)
        /\ x.state.devTable = x.state.table
        /\ \A q \in 0 .. Length(r) - 1 :
             SlotOf(x.state.table, q) = SlotOf(kv[r][l].table, q)
    BY ONLY <1>1, <1>2, r \in Requests, l \in Layers, ~Ahead(r), n > Length(r),
       <2>3, StagedOnAll
  <2>5. ran[l].pool = x.pool /\ ran[l].state = CommitLength(x.state, n)
    BY ONLY <2>1, <2>2
  <2>6. /\ CommitLength(x.state, n) \in StateType
        /\ CommitLength(x.state, n).table = x.state.table
    BY <1>2, <2>4 DEF CommitLength, StateType
  <2> QED BY <2>4, <2>5, <2>6 DEF x
<1>4. Changes(r, ran, missing, 0)
  <2> SUFFICES ASSUME NEW l \in Layers
               PROVE  /\ Len(ran[l].pool.free) = (Len(pools[l].free) - missing) + 0
                      /\ ran[l].pool.allocations = pools[l].allocations + missing
                      /\ ran[l].pool.releases = pools[l].releases + 0
                      /\ Len(ran[l].state.table) = (HeldPages(r) + missing) - 0
    BY DEF Changes
  <2>1. /\ ran[l].pool = staged[l].pool
        /\ ran[l].state.table = staged[l].state.table
    BY <1>3
  <2>2. /\ Len(staged[l].pool.free) = (Len(pools[l].free) - missing) + 0
        /\ staged[l].pool.allocations = pools[l].allocations + missing
        /\ staged[l].pool.releases = pools[l].releases + 0
        /\ Len(staged[l].state.table) = (HeldPages(r) + missing) - 0
    BY <1>1 DEF Changes
  <2> QED BY <2>1, <2>2
<1>5. Changes(r, emptied, missing, PagesFor(n))
  <2> SUFFICES ASSUME NEW l \in Layers
               PROVE  /\ Len(emptied[l].pool.free)
                           = (Len(pools[l].free) - missing) + PagesFor(n)
                      /\ emptied[l].pool.allocations = pools[l].allocations + missing
                      /\ emptied[l].pool.releases = pools[l].releases + PagesFor(n)
                      /\ Len(emptied[l].state.table)
                           = (HeldPages(r) + missing) - PagesFor(n)
    BY DEF Changes
  <2> DEFINE P  == ran[l].pool
             st == ran[l].state
             T  == [Tables(l) EXCEPT ![r] = staged[l].state.table]
             x  == emptied[l]
  <2>1. /\ Sound(P, T, Requests) /\ st \in StateType /\ st.table = T[r]
        /\ Len(T[r]) = PagesFor(n) /\ x = Reset(P, st, {})
    <3>1. T[r] = staged[l].state.table
      BY <1>2, Values
    <3> QED BY <1>3, <3>1 DEF RanAndEmptied
  <2>2. /\ Len(P.free) = (Len(pools[l].free) - missing) + 0
        /\ P.allocations = pools[l].allocations + missing
        /\ P.releases = pools[l].releases + 0
    BY <1>4 DEF Changes
  <2>3. Len(pools[l].free) \in Nat /\ pools[l].releases \in Nat
    BY <1>2, Counts
  <2> HIDE DEF P, st, T, x
  <2>4. Holder(P, T, Requests, r, st)
    BY <2>1 DEF Holder
  <2>5. GaveBack(P, x, Len(T[r]))
    BY <2>1, <2>4, ResetCounts
  <2>6. /\ x.state = NewState
        /\ Len(x.pool.free) = Len(P.free) + PagesFor(n)
        /\ x.pool.allocations = P.allocations
        /\ x.pool.releases = P.releases + PagesFor(n)
    BY <2>1, <2>5 DEF GaveBack
  <2>7. Len(x.state.table) = 0
    BY <2>6 DEF NewState
  <2>8. /\ Len(x.pool.free) = (Len(pools[l].free) - missing) + PagesFor(n)
        /\ x.pool.allocations = pools[l].allocations + missing
        /\ x.pool.releases = pools[l].releases + PagesFor(n)
        /\ Len(x.state.table) = (HeldPages(r) + missing) - PagesFor(n)
    BY ONLY <1>1, <1>2, <2>2, <2>3, <2>6, <2>7
  <2> QED BY <2>8 DEF x
<1> QED BY <1>1, <1>2, <1>4, <1>5

\* What is spare does not grow, so whoever did not fit still does not, and the
\* prompt that is under way does.
LEMMA PrefillChunkSchedules ==
  ASSUME IInv, SInv, NEW r \in Requests, PrefillChunk(r)
  PROVE  SInv'
<1> DEFINE n       == Length(r) + ChunkLength(r)
           staged  == Staged(r, n)
           tables  == [l \in Layers |-> staged[l].state.devTable]
           ran     == [l \in Layers |-> [staged[l] EXCEPT !.state = CommitLength(@, n)]]
           last    == n = specs[r].prompt
           done    == last /\ specs[r].decode = 0
           emptied == [l \in Layers |-> Reset(ran[l].pool, ran[l].state, {})]
           missing == PagesFor(n) - HeldPages(r)
           room    == Free + HeldPages(r)
           first   == NextToken(cells', tables, n)
<1>1. /\ \/ pc = "prefill" /\ cursor <= r /\ MayPrefill(r)
            /\ \A k \in cursor .. r - 1 : ~MayPrefill(k)
         \/ pc = "chunk" /\ cursor = r
      /\ Types /\ Schedule /\ Alike /\ Balanced /\ pc # "failed"
  BY DEF PrefillChunk, Reaches, IInv, SInv, Ended, Schedule
<1>2. Succeeds(staged) =>
        /\ Become(r, IF done THEN emptied ELSE ran)
        /\ generated' = [generated EXCEPT ![r] = IF last THEN <<first>> ELSE @]
        /\ state' = [state EXCEPT ![r] = IF done THEN "Finished"
                                         ELSE IF last THEN "Decode" ELSE @]
        /\ progress' = (progress \/ last)
        /\ pc' = IF last THEN "prefill" ELSE "chunk"
        /\ cursor' = IF last THEN r + 1 ELSE r
        /\ UNCHANGED <<specs, snapshot, tick, cause>>
  BY DEF PrefillChunk
<1>3. /\ r \in Nat /\ cursor \in Nat /\ N \in Nat /\ \A k \in Requests : k \in Nat
      /\ Free \in Nat /\ HeldPages(r) \in Nat /\ Available = Free
      /\ Length(r) \in Nat /\ Capacity \in Nat /\ progress \in BOOLEAN
      /\ specs[r].prompt \in 0 .. Capacity /\ specs[r].prompt \in Nat
  <2>1. cursor \in 1 .. N + 1 /\ N \in Nat /\ Requests \subseteq Nat /\ progress \in BOOLEAN
    BY <1>1, Constants DEF Types
  <2> QED BY <1>1, <2>1, AvailableIsFree, Counts, Values, Constants
<1>4. /\ state[r] = "Waiting" /\ ~Ahead(r) /\ r \notin Active
      /\ Length(r) < specs[r].prompt /\ generated[r] = <<>>
  <2>1. RequestInv(r) /\ ~Ahead(r)
    BY <1>1, OutsideTheBatch
  <2>2. state[r] = "Waiting"
    BY <1>1, <2>1 DEF MayPrefill, RequestInv, Stands, Prefilling
  <2>3. specs[r].prompt >= 2
    BY <1>1, Values
  <2>4. Length(r) < specs[r].prompt
    BY <1>1, <1>3, <2>1, <2>2, <2>3, OutsideTheBatch DEF RequestInv, Stands, Prefilling
  <2>5. Len(generated[r]) = 0 /\ generated[r] \in Seq(Tokens)
    BY <1>1, <2>1, <2>2 DEF RequestInv, Stands, Types
  <2>6. generated[r] = <<>>
    BY <2>5
  <2> QED BY <2>1, <2>2, <2>4, <2>6 DEF Active
<1>5. Spare = room /\ PagesFor(specs[r].prompt) <= room
  <2>1. CASE pc = "prefill"
    <3>1. ~Prefilling(r)
      BY <2>1 DEF Prefilling
    <3>2. HeldPages(r) = 0
      BY <1>1, <1>4, <3>1, Holdings
    <3>3. PagesFor(specs[r].prompt) <= Free
      BY <1>1, <1>3, <2>1 DEF MayPrefill
    <3>4. Spare = Free
      BY <2>1 DEF Spare
    <3> QED BY <1>3, <3>2, <3>3, <3>4
  <2>2. CASE pc = "chunk"
    <3>1. Spare = Free + HeldPages(r) /\ cursor = r
      BY <1>1, <2>2 DEF Spare
    <3>2. PagesFor(specs[r].prompt) <= Spare
      BY <1>1, <2>2, <3>1 DEF Schedule, InChunk
    <3> QED BY <3>1, <3>2
  <2> QED BY <1>1, <2>1, <2>2
<1>6. /\ n \in Nat /\ n > Length(r) /\ n <= specs[r].prompt /\ n \in 1 .. Capacity
  <2>1. /\ ChunkLength(r) \in Nat \ {0} /\ n <= specs[r].prompt
        /\ n \in 1 .. specs[r].prompt
    BY <1>1, <1>4, ChunkProgress
  <2> QED BY <1>3, <2>1
<1>7. ASSUME NEW k \in Requests, k < r, Arrived(k)
      PROVE  room < PagesFor(specs[k].prompt)
  <2>1. CASE k < cursor
    BY <1>1, <1>5, <1>7, <2>1 DEF Schedule, InPrefill
  <2>2. CASE ~(k < cursor)
    <3>1. pc = "prefill" /\ k \in cursor .. r - 1
      BY <1>1, <1>3, <1>7, <2>2
    <3>2. ~(Available >= PagesFor(specs[k].prompt))
      BY <1>1, <1>7, <3>1 DEF MayPrefill, Arrived
    <3>3. Spare = Free /\ PagesFor(specs[k].prompt) \in Nat
      BY <1>1, <3>1, EachFits DEF Spare
    <3> QED BY <1>3, <1>5, <3>2, <3>3
  <2> QED BY <2>1, <2>2
<1> HIDE DEF n
<1>8. missing <= Free
  <2>1. /\ PagesFor(n) <= PagesFor(specs[r].prompt) /\ PagesFor(n) \in Nat
        /\ PagesFor(specs[r].prompt) \in Nat
    BY <1>3, <1>6, PagesForIsMonotone
  <2> QED BY <1>3, <1>5, <2>1
<1> HIDE DEF last, done, tables, first
<1>9. /\ missing \in Nat /\ PagesFor(n) \in Nat
      /\ HeldPages(r) + missing = PagesFor(n)
      /\ Succeeds(staged)
      /\ Changes(r, ran, missing, 0)
      /\ Changes(r, emptied, missing, PagesFor(n))
  <2>1. /\ staged = Staged(r, n) /\ missing = PagesFor(n) - HeldPages(r)
        /\ RanAndEmptied(staged, n, ran, emptied)
    BY DEF RanAndEmptied
  <2> HIDE DEF staged, ran, emptied, missing
  <2>2. pc # "failed" /\ Alike /\ ~Ahead(r) /\ n \in 1 .. Capacity /\ n > Length(r)
    BY <1>1, <1>4, <1>6
  <2> QED BY ONLY IInv, r \in Requests, <1>8, <2>1, <2>2, ChunkMoves
<1> HIDE DEF staged, ran, emptied, missing
<1>10. /\ Become(r, IF done THEN emptied ELSE ran)
       /\ generated' = [generated EXCEPT ![r] = IF last THEN <<first>> ELSE @]
       /\ state' = [state EXCEPT ![r] = IF done THEN "Finished"
                                        ELSE IF last THEN "Decode" ELSE @]
       /\ progress' = (progress \/ last)
       /\ pc' = IF last THEN "prefill" ELSE "chunk"
       /\ cursor' = IF last THEN r + 1 ELSE r
       /\ UNCHANGED <<specs, snapshot, tick, cause>>
  BY <1>2, <1>9
<1>11. /\ Alike' /\ Balanced'
       /\ last => Free' <= room
       /\ ~last => Free' + HeldPages(r)' = room
  <2>1. CASE done
    <3>1. Become(r, emptied) /\ last
      BY <1>10, <2>1 DEF done
    <3> DEFINE given == PagesFor(n)
    <3>2. given \in Nat /\ missing \in Nat /\ Changes(r, emptied, missing, given)
      BY <1>9
    <3> HIDE DEF given
    <3>3. /\ Alike' /\ Balanced' /\ Free' = (Free - missing) + given
      BY <1>1, <3>1, <3>2, PagesMove
    <3> QED BY <1>3, <1>9, <3>1, <3>3 DEF given
  <2>2. CASE ~done
    <3>1. Become(r, ran)
      BY <1>10, <2>2
    <3>2. /\ Alike' /\ Balanced' /\ Free' = (Free - missing) + 0
          /\ HeldPages(r)' = (HeldPages(r) + missing) - 0
      BY <1>1, <1>9, <3>1, PagesMove
    <3> QED BY <1>3, <1>9, <3>2
  <2> QED BY <2>1, <2>2
<1> HIDE DEF room
<1>12. /\ Spare' <= room
       /\ ~last => Spare' = room
  <2>1. CASE last
    BY <1>10, <1>11, <2>1 DEF Spare
  <2>2. CASE ~last
    <3>1. Spare' = Free' + HeldPages(r)'
      BY <1>10, <2>2 DEF Spare
    <3> QED BY <1>3, <1>11, <2>2, <3>1 DEF room
  <2> QED BY <2>1, <2>2
<1>13. /\ Free' \in Nat /\ Spare' \in Int /\ room \in Nat
  <2>1. IInv' /\ room \in Nat
    BY <1>3, PrefillChunkKeeps DEF room
  <2>2. Free' \in Nat
    <3>1. pools'[1] \in PoolType
      BY <2>1, Constants DEF IInv, Types
    <3>2. Len(pools'[1].free) \in Nat
      BY <3>1 DEF PoolType
    <3> QED BY <3>2 DEF Free
  <2>3. last => Spare' = Free'
    BY <1>10 DEF Spare
  <2> QED BY <1>12, <2>1, <2>2, <2>3
<1>14. ASSUME NEW k \in Requests, k # r
       PROVE  state'[k] = state[k]
  BY <1>1, <1>10, <1>14 DEF Types
<1>15. last => state'[r] \in {"Decode", "Finished"}
  BY <1>1, <1>10 DEF Types
<1>16. state'[r] # "Preempted"
  BY <1>1, <1>4, <1>10 DEF Types
<1>17. InPrefill'
  <2>1. ASSUME NEW k \in Requests, state'[k] = "Preempted"
        PROVE  Spare' < PagesFor(snapshot'[k].length)
    <3>1. state[k] = "Preempted" /\ snapshot'[k] = snapshot[k]
      BY <1>10, <1>14, <1>16, <2>1
    <3>2. room < PagesFor(snapshot[k].length) /\ PagesFor(snapshot[k].length) \in Nat
      BY <1>1, <1>5, <3>1, EachFits DEF Schedule, InPrefill
    <3> QED BY <1>12, <1>13, <3>1, <3>2
  <2>2. ASSUME NEW k \in Requests, k < cursor', Arrived(k)'
        PROVE  Spare' < PagesFor(specs'[k].prompt)
    <3>1. k # r
      BY <1>3, <1>10, <1>15, <2>2 DEF Arrived
    <3>2. k < r /\ Arrived(k)
      BY <1>3, <1>10, <1>14, <2>2, <3>1 DEF Arrived
    <3>3. room < PagesFor(specs[k].prompt) /\ PagesFor(specs[k].prompt) \in Nat
      BY <1>1, <1>7, <3>2, EachFits
    <3> QED BY <1>10, <1>12, <1>13, <3>3
  <2> QED BY <2>1, <2>2 DEF InPrefill
<1>18. InChunk'
  BY <1>5, <1>10, <1>12 DEF InChunk
<1>19. InResume' /\ InPreempt' /\ InBatch' /\ InAudit'
  BY <1>10 DEF InResume, InPreempt, InBatch, InAudit
<1>20. (progress \/ Completed # Requests)'
  <2>1. CASE last
    BY <1>10, <2>1
  <2>2. CASE ~last
    <3>1. state'[r] = "Waiting"
      BY <1>1, <1>4, <1>10, <2>2 DEF Types, done
    <3> QED BY <3>1 DEF Completed
  <2> QED BY <2>1, <2>2
<1>21. (tick <= Behind)'
  <2>1. ASSUME NEW k \in Requests  PROVE Decoded'[k] = Decoded[k]
    <3>1. CASE k = r
      <4>1. Decoded[r] = 0
        BY <1>4 DEF Decoded
      <4>2. generated'[r] = IF last THEN <<first>> ELSE <<>>
        BY <1>1, <1>4, <1>10 DEF Types
      <4>3. Len(<<first>>) - 1 = 0
        OBVIOUS
      <4> QED BY <3>1, <4>1, <4>2, <4>3 DEF Decoded
    <3>2. CASE k # r
      BY <1>1, <1>10, <3>2 DEF Decoded, Types
    <3> QED BY <3>1, <3>2
  <2>2. Decoded' = Decoded
    BY <2>1 DEF Decoded
  <2> QED BY <1>1, <1>10, <2>2 DEF Schedule, Behind, LatestArrival
<1>22. Schedule'
  BY <1>11, <1>17, <1>18, <1>19, <1>20, <1>21 DEF Schedule
<1> QED BY <1>10, <1>22, Continues

----------------------------------------------------------------------------
(* What follows for every behaviour of the loop.                           *)

\* The schedule of every behaviour.
THEOREM Scheduling == Spec => []SInv
<1>1. Init => SInv
  BY InitSchedules
<1>2. IInv /\ SInv /\ [Next]_vars => SInv'
  <2> SUFFICES ASSUME IInv, SInv, [Next]_vars  PROVE SInv'
    OBVIOUS
  <2>1. CASE UNCHANGED vars
    <3>1. /\ UNCHANGED <<specs, pools, kv, state, snapshot, generated, batch, tick,
                         progress, pc, cursor, cause>>
      BY <2>1 DEF vars, cache
    <3>2. /\ LatestArrival' = LatestArrival /\ DecodeTotal' = DecodeTotal
          /\ Behind' = Behind /\ Active' = Active /\ Completed' = Completed
          /\ Quiet' = Quiet /\ Additional' = Additional
      BY <3>1, DecodedStays
         DEF Active, Completed, Quiet, Additional, AdditionalPages, Length
    <3>3. OnlyTheDeviceFails' /\ ProgressBound' /\ Ended' = Ended
      BY <3>1, <3>2 DEF SInv, OnlyTheDeviceFails, ProgressBound, Ended
    <3>4. ASSUME Schedule  PROVE Schedule'
      <4>1. /\ Alike' /\ Balanced' /\ Free' = Free
            /\ \A r \in Requests : HeldPages(r)' = HeldPages(r)
        BY <3>1, <3>4, PagesStay DEF Schedule
      <4>2. Spare' = Spare
        BY <3>1, <4>1 DEF Spare, HeldPages
      <4>3. InResume' /\ InPrefill' /\ InChunk' /\ InPreempt'
        BY <3>1, <3>2, <3>4, <4>1, <4>2
           DEF Schedule, InResume, InPrefill, InChunk, InPreempt, Arrived
      <4>4. InBatch' /\ InAudit'
        BY <3>1, <3>2, <3>4, <4>1 DEF Schedule, InBatch, InAudit, Pending
      <4> QED BY <3>1, <3>2, <3>4, <4>1, <4>3, <4>4 DEF Schedule
    <3> QED BY <3>3, <3>4 DEF SInv
  <2>2. ASSUME NEW r \in Requests, Resume(r) \/ PrefillChunk(r) \/ Stage(r) \/ Commit(r)
        PROVE  SInv'
    BY <2>2, ResumeSchedules, PrefillChunkSchedules, StageSchedules, CommitSchedules
  <2>3. CASE EndResume \/ EndPrefill \/ EndPreempt \/ EndStage \/ EndCommit
    BY <2>3, EndOfPassSchedules
  <2>4. CASE Preempt
    BY <2>4, PreemptSchedules
  <2>5. CASE DecodeBatch
    BY <2>5, DecodeBatchSchedules
  <2>6. CASE EndTick
    BY <2>6, EndTickSchedules
  <2>7. CASE DeviceFails
    BY <2>7, ThrowSchedules DEF DeviceFails
  <2>8. CASE Done
    BY <2>1, <2>8 DEF Done
  <2> QED BY <2>1, <2>2, <2>3, <2>4, <2>5, <2>6, <2>7, <2>8 DEF Next
<1> QED BY <1>1, <1>2, Invariance, PTL DEF Spec

\* runContinuousBatch throws nothing of its own: every "allocation failed",
\* "no progress" and "page isolation" it could throw is unreachable, unless the
\* progress limit is below the ticks that the requests may take.
THEOREM FailsOnlyWithTheDevice == Spec => []OnlyTheDeviceFails
<1>1. SInv => OnlyTheDeviceFails
  BY DEF SInv
<1> QED BY <1>1, Scheduling, PTL

\* After the last arrival every tick of runContinuousBatch decodes a token, so
\* the ticks are bounded by the tokens, whatever is preempted and resumed.
THEOREM NeverIdles == Spec => []ProgressBound
<1>1. SInv => ProgressBound
  BY DEF SInv
<1> QED BY <1>1, Scheduling, PTL

\* While runContinuousBatch prefills new requests, no preempted one would fit.
THEOREM ResumesFirst == Spec => ResumeBeforePrefill
<1>1. IInv /\ SInv =>
        (\A r \in Requests :
           pc = "prefill" /\ Length(r) = 0 /\ kv'[r] # kv[r]
           => \A k \in Requests : ~MayResume(k))
  <2> SUFFICES ASSUME IInv, SInv, pc = "prefill", NEW k \in Requests,
                      state[k] = "Preempted"
               PROVE  ~(Available >= PagesFor(snapshot[k].length))
    BY DEF MayResume
  <2>1. Schedule /\ Alike /\ pc # "failed"
    BY DEF SInv, Ended, Schedule
  <2>2. Available = Free /\ Spare = Free /\ Free \in Nat
    BY <2>1, AvailableIsFree, Counts DEF IInv, Spare
  <2>3. PagesFor(snapshot[k].length) \in Nat
    BY <2>1, EachFits
  <2>4. Spare < PagesFor(snapshot[k].length)
    BY <2>1 DEF Schedule, InPrefill
  <2> QED BY <2>2, <2>3, <2>4
<1> QED BY <1>1, Invariance, Scheduling, PTL DEF ResumeBeforePrefill

=============================================================================
