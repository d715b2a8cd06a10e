------------------------- MODULE GraphCompilerProofs -------------------------
(***************************************************************************)
(* The order of analyze is topological and turns away the cyclic graphs    *)
(* and no others, the regions partition the nodes, every region that is    *)
(* formed can be emitted, a run is right where no region has a late        *)
(* operand, and fusing a region changes no output of a first run: for      *)
(* every graph of the operations modelled and any number of runs.          *)
(***************************************************************************)
EXTENDS GraphCompiler, TLAPS, FiniteSetTheorems, SequenceTheorems,
        WellFoundedInduction

----------------------------------------------------------------------------
(* Numbers, sets and sequences *)

LEMMA LeastNumber ==
  ASSUME NEW T, T \subseteq Nat, T # {}
  PROVE  \E x \in T : \A y \in T : x <= y
<1> DEFINE L == OpToRel(<, Nat)
<1>1. IsWellFoundedOn(L, Nat)
  BY NatLessThanWellFounded
<1>2. \A x, y \in Nat : x < y => <<x, y>> \in L
  BY DEF OpToRel
<1> HIDE DEF L
<1>3. PICK x \in T : \A y \in T : ~(<<y, x>> \in L)
  BY <1>1, WFMin
<1>4. \A y \in T : ~(y < x)
  BY <1>2, <1>3
<1> QED BY <1>4

\* A set of numbers with 0 and the successor of each of its members is Nat.
LEMMA Induction ==
  ASSUME NEW S \in SUBSET Nat, 0 \in S, \A n \in S : n + 1 \in S
  PROVE  S = Nat
<1> SUFFICES ASSUME S # Nat
             PROVE  FALSE
  OBVIOUS
<1>1. PICK x \in Nat \ S : \A y \in Nat \ S : x <= y
  <2>1. Nat \ S # {}
    OBVIOUS
  <2> QED BY <2>1, LeastNumber
<1>2. x # 0 /\ x - 1 \in Nat
  OBVIOUS
<1>3. x - 1 \in S
  BY <1>1, <1>2
<1> QED BY <1>2, <1>3

\* The least of a set of numbers is one of them.
LEMMA MinIsLeast ==
  ASSUME NEW T, T \subseteq Nat, T # {}
  PROVE  Min(T) \in T /\ \A y \in T : Min(T) <= y
BY LeastNumber DEF Min

LEMMA ToSetOfAppend ==
  ASSUME NEW S, NEW s \in Seq(S), NEW e \in S
  PROVE  ToSet(Append(s, e)) = ToSet(s) \union {e}
<1>1. /\ Append(s, e) \in Seq(S) /\ Len(s) \in Nat /\ DOMAIN s = 1 .. Len(s)
      /\ DOMAIN Append(s, e) = 1 .. Len(s) + 1
      /\ \A i \in 1 .. Len(s) : Append(s, e)[i] = s[i]
      /\ Append(s, e)[Len(s) + 1] = e
  OBVIOUS
<1> QED BY <1>1 DEF ToSet

LEMMA ToSetOfConcat ==
  ASSUME NEW S, NEW s \in Seq(S), NEW t \in Seq(S)
  PROVE  ToSet(s \o t) = ToSet(s) \union ToSet(t)
<1>1. /\ s \o t \in Seq(S) /\ Len(s) \in Nat /\ Len(t) \in Nat
      /\ DOMAIN s = 1 .. Len(s) /\ DOMAIN t = 1 .. Len(t)
      /\ DOMAIN (s \o t) = 1 .. Len(s) + Len(t)
      /\ \A i \in 1 .. Len(s) + Len(t) :
           (s \o t)[i] = IF i <= Len(s) THEN s[i] ELSE t[i - Len(s)]
  BY ConcatProperties
<1> DEFINE st == s \o t
<1>2. ASSUME NEW i \in DOMAIN t
      PROVE  Len(s) + i \in DOMAIN st /\ st[Len(s) + i] = t[i]
  BY <1>1
<1>3. \A i \in DOMAIN s : i \in DOMAIN st /\ st[i] = s[i]
  BY <1>1
<1>4. \A i \in DOMAIN st : \/ i \in DOMAIN s /\ st[i] = s[i]
                           \/ i - Len(s) \in DOMAIN t /\ st[i] = t[i - Len(s)]
  BY <1>1
<1> HIDE DEF st
<1>5. ToSet(st) = ToSet(s) \union ToSet(t)
  BY <1>2, <1>3, <1>4 DEF ToSet
<1> QED BY <1>5 DEF st

LEMMA ToSetOfTail ==
  ASSUME NEW S, NEW s \in Seq(S), s # <<>>
  PROVE  /\ Head(s) \in S /\ Tail(s) \in Seq(S)
         /\ ToSet(s) = {Head(s)} \union ToSet(Tail(s))
         /\ IsInjective(s) => IsInjective(Tail(s)) /\ Head(s) \notin ToSet(Tail(s))
<1>1. /\ Head(s) \in S /\ Tail(s) \in Seq(S) /\ Head(s) = s[1]
      /\ DOMAIN s = 1 .. Len(s) /\ Len(s) \in Nat \ {0}
      /\ DOMAIN Tail(s) = 1 .. Len(s) - 1
      /\ \A i \in 1 .. Len(s) - 1 : Tail(s)[i] = s[i + 1]
  BY HeadTailProperties
<1> DEFINE t == Tail(s)
<1>2. \A i \in DOMAIN s : i = 1 \/ (i - 1 \in DOMAIN t /\ s[i] = t[i - 1])
  BY <1>1
<1>3. \A i \in DOMAIN t : i + 1 \in DOMAIN s /\ t[i] = s[i + 1] /\ i + 1 # 1 /\ i \in Int
  BY <1>1
<1>4. 1 \in DOMAIN s
  BY <1>1
<1> HIDE DEF t
<1>5. ToSet(s) = {s[1]} \union ToSet(t)
  <2>1. ASSUME NEW i \in DOMAIN s PROVE s[i] \in {s[1]} \union ToSet(t)
    BY <1>2 DEF ToSet
  <2>2. ASSUME NEW i \in DOMAIN t PROVE t[i] \in ToSet(s)
    BY <1>3 DEF ToSet
  <2> QED BY <1>4, <2>1, <2>2 DEF ToSet
<1>6. ASSUME IsInjective(s)
      PROVE  IsInjective(t) /\ s[1] \notin ToSet(t)
  BY <1>3, <1>4, <1>6 DEF IsInjective, ToSet
<1> QED BY <1>1, <1>5, <1>6 DEF t

LEMMA InjectiveAppend ==
  ASSUME NEW S, NEW s \in Seq(S), NEW e \in S, IsInjective(s), e \notin ToSet(s)
  PROVE  IsInjective(Append(s, e))
<1>1. /\ Append(s, e) \in Seq(S) /\ Len(s) \in Nat /\ DOMAIN s = 1 .. Len(s)
      /\ DOMAIN Append(s, e) = 1 .. Len(s) + 1
      /\ \A i \in 1 .. Len(s) : Append(s, e)[i] = s[i]
      /\ Append(s, e)[Len(s) + 1] = e
  OBVIOUS
<1> QED BY <1>1 DEF IsInjective, ToSet

LEMMA InjectiveConcat ==
  ASSUME NEW S, NEW s \in Seq(S), NEW t \in Seq(S), IsInjective(s), IsInjective(t),
         ToSet(s) \intersect ToSet(t) = {}
  PROVE  IsInjective(s \o t)
<1>1. /\ s \o t \in Seq(S) /\ Len(s) \in Nat /\ Len(t) \in Nat
      /\ DOMAIN s = 1 .. Len(s) /\ DOMAIN t = 1 .. Len(t)
      /\ DOMAIN (s \o t) = 1 .. Len(s) + Len(t)
      /\ \A i \in 1 .. Len(s) + Len(t) :
           (s \o t)[i] = IF i <= Len(s) THEN s[i] ELSE t[i - Len(s)]
  BY ConcatProperties
<1> DEFINE st == s \o t
<1>2. \A i \in DOMAIN st : \/ i \in DOMAIN s /\ st[i] = s[i]
                           \/ i - Len(s) \in DOMAIN t /\ st[i] = t[i - Len(s)]
  BY <1>1
<1>3. \A i, j \in DOMAIN st : i \in Int /\ (i - Len(s) = j - Len(s) => i = j)
  BY <1>1
<1> HIDE DEF st
<1>4. \A i \in DOMAIN s, j \in DOMAIN t : s[i] # t[j]
  BY DEF ToSet
<1>5. IsInjective(st)
  BY <1>2, <1>3, <1>4 DEF IsInjective
<1> QED BY <1>5 DEF st

----------------------------------------------------------------------------
(* The nodes released by a visit are put in the order of their numbers, in *)
(* which each of them occurs once.                                         *)

Increases(s) == \A i, j \in DOMAIN s : i < j => s[i] < s[j]

LEMMA IncreasingExists ==
  ASSUME NEW n \in Nat, NEW S \in SUBSET (1 .. n)
  PROVE  \E s \in [1 .. Cardinality(S) -> S] : Increases(s)
<1> DEFINE Reached(k) == \A T \in SUBSET (1 .. k) :
                           \E s \in [1 .. Cardinality(T) -> T] : Increases(s)
           K == {k \in Nat : Reached(k)}
<1>1. 0 \in K
  <2> SUFFICES ASSUME NEW T \in SUBSET (1 .. 0)
               PROVE  \E s \in [1 .. Cardinality(T) -> T] : Increases(s)
    OBVIOUS
  <2>1. T = {} /\ Cardinality(T) = 0
    <3>1. 1 .. 0 = {}
      OBVIOUS
    <3> QED BY <3>1, FS_EmptySet
  <2>2. [i \in 1 .. 0 |-> i] \in [1 .. Cardinality(T) -> T]
    BY <2>1
  <2>3. Increases([i \in 1 .. 0 |-> i])
    BY DEF Increases
  <2> QED BY <2>2, <2>3
<1>2. ASSUME NEW k \in K
      PROVE  k + 1 \in K
  <2> SUFFICES ASSUME NEW T \in SUBSET (1 .. k + 1)
               PROVE  \E s \in [1 .. Cardinality(T) -> T] : Increases(s)
    OBVIOUS
  <2>1. CASE T \subseteq 1 .. k
    BY <2>1
  <2>2. CASE ~(T \subseteq 1 .. k)
    <3> DEFINE U == T \ {k + 1}
               m == Cardinality(U)
    <3>1. k \in Nat /\ k + 1 \in T /\ U \subseteq 1 .. k
      BY <2>2
    <3>2. IsFiniteSet(T)
      <4>1. IsFiniteSet(1 .. k + 1)
        BY <3>1, FS_Interval
      <4> QED BY <4>1, FS_Subset
    <3>3. m \in Nat /\ Cardinality(T) = m + 1
      <4>1. IsFiniteSet(U) /\ Cardinality(U) = Cardinality(T) - 1
        BY <3>1, <3>2, FS_RemoveElement
      <4>2. Cardinality(T) \in Nat /\ Cardinality(U) \in Nat
        BY <3>2, <4>1, FS_CardinalityType
      <4> QED BY <4>1, <4>2
    <3>4. PICK s \in [1 .. m -> U] : Increases(s)
      BY <3>1
    <3> DEFINE t == [i \in 1 .. m + 1 |-> IF i = m + 1 THEN k + 1 ELSE s[i]]
    <3> HIDE DEF m
    <3>5. t \in [1 .. m + 1 -> T]
      BY <3>1, <3>3
    <3>6. Increases(t)
      <4>1. \A i \in 1 .. m : s[i] \in Int /\ s[i] < k + 1
        <5>1. \A x \in U : x \in Int /\ x < k + 1
          BY <3>1
        <5> HIDE DEF U
        <5> QED BY <3>4, <5>1
      <4>2. \A i, j \in 1 .. m : i < j => s[i] < s[j]
        BY <3>4 DEF Increases
      <4> QED BY <3>1, <3>3, <4>1, <4>2 DEF Increases
    <3> QED BY <3>3, <3>5, <3>6
  <2> QED BY <2>1, <2>2
<1> HIDE DEF Reached
<1>3. K = Nat
  BY <1>1, <1>2, Induction
<1>4. n \in K
  BY <1>3
<1> QED BY <1>4 DEF Reached

LEMMA InOrderLists ==
  ASSUME NEW n \in Nat, NEW S \in SUBSET (1 .. n)
  PROVE  /\ InOrder(S) \in Seq(S) /\ ToSet(InOrder(S)) = S
         /\ IsInjective(InOrder(S))
<1> DEFINE s == InOrder(S)
           m == Cardinality(S)
<1>1. s \in [1 .. m -> S] /\ Increases(s)
  BY IncreasingExists DEF InOrder, Increases
<1> HIDE DEF s
<1>2. IsFiniteSet(S)
  <2>1. IsFiniteSet(1 .. n)
    BY FS_Interval
  <2> QED BY <2>1, FS_Subset
<1>3. m \in Nat
  BY <1>2, FS_CardinalityType
<1> HIDE DEF m
<1>4. \A i, j \in 1 .. m : s[i] = s[j] => i = j
  <2>1. \A i, j \in 1 .. m : i < j => s[i] < s[j]
    BY <1>1 DEF Increases
  <2>2. \A i \in 1 .. m : s[i] \in Int
    <3>1. \A x \in S : x \in Int
      OBVIOUS
    <3> QED BY <1>1, <3>1
  <2> QED BY <1>3, <2>1, <2>2
<1>5. s \in Injection(1 .. m, S)
  BY <1>1, <1>4 DEF Injection, IsInjective
<1>6. IsFiniteSet(1 .. m) /\ Cardinality(1 .. m) = m
  BY <1>3, FS_Interval
<1>7. s \in Surjection(1 .. m, S)
  BY <1>2, <1>5, <1>6, FS_Injection DEF m
<1>8. S = {s[i] : i \in 1 .. m}
  BY <1>1, <1>7 DEF Surjection
<1>9. s \in Seq(S) /\ DOMAIN s = 1 .. m
  BY <1>1, <1>3
<1>10. ToSet(s) = S /\ IsInjective(s)
  BY <1>4, <1>8, <1>9 DEF ToSet, IsInjective
<1> QED BY <1>9, <1>10 DEF s

----------------------------------------------------------------------------
(* What a graph is made of *)

LEMMA GraphFacts ==
  ASSUME graph \in Graphs
  PROVE  /\ InputCount \in Nat /\ Len(graph.nodes) \in Nat
         /\ Nodes = 1 .. Len(graph.nodes)
         /\ Values = 1 .. InputCount + Len(graph.nodes)
         /\ graph.outputs \subseteq Values
         /\ \A i \in Nodes :
              /\ Op(i) \in Binary \union Unary
              /\ Inputs(i) \in Seq(Nat)
              /\ DOMAIN Inputs(i) = IF Op(i) \in Binary THEN {1, 2} ELSE {1}
              /\ \A a \in DOMAIN Inputs(i) : Inputs(i)[a] \in Values
<1> DEFINE T == Seq([op : Binary \union Unary, inputs : Seq(Nat)])
<1>1. graph \in [nodes : T, outputs : SUBSET Nat]
  BY GraphAssumption
<1>2. graph.nodes \in T
  BY <1>1
<1>3. InputCount \in Nat
  BY GraphAssumption DEF InputCount
<1>4. /\ graph.outputs \subseteq 1 .. InputCount + Len(graph.nodes)
      /\ \A i \in DOMAIN graph.nodes :
           /\ ToSet(graph.nodes[i].inputs) \subseteq 1 .. InputCount + Len(graph.nodes)
           /\ Len(graph.nodes[i].inputs) = IF graph.nodes[i].op \in Binary THEN 2 ELSE 1
  BY GraphAssumption
<1>5. Len(graph.nodes) \in Nat /\ Nodes = 1 .. Len(graph.nodes)
  BY <1>2 DEF Nodes
<1>6. ASSUME NEW i \in Nodes
      PROVE  /\ Op(i) \in Binary \union Unary
             /\ Inputs(i) \in Seq(Nat)
             /\ DOMAIN Inputs(i) = IF Op(i) \in Binary THEN {1, 2} ELSE {1}
             /\ \A a \in DOMAIN Inputs(i) : Inputs(i)[a] \in Values
  <2>1. graph.nodes[i] \in [op : Binary \union Unary, inputs : Seq(Nat)]
    BY <1>2, <1>5, ElementOfSeq
  <2>2. Op(i) \in Binary \union Unary /\ Inputs(i) \in Seq(Nat)
    BY <2>1 DEF Op, Inputs
  <2>3. Len(Inputs(i)) = IF Op(i) \in Binary THEN 2 ELSE 1
    BY <1>4 DEF Op, Inputs, Nodes
  <2>4. DOMAIN Inputs(i) = 1 .. Len(Inputs(i))
    BY <2>2
  <2>5. 1 .. 1 = {1} /\ 1 .. 2 = {1, 2}
    OBVIOUS
  <2>6. ToSet(Inputs(i)) \subseteq Values
    BY <1>4 DEF Inputs, Nodes, Values
  <2> QED BY <2>2, <2>3, <2>4, <2>5, <2>6 DEF ToSet
<1> QED BY <1>3, <1>4, <1>5, <1>6 DEF Values

\* Values and the nodes that produce them.
LEMMA ProducerFacts ==
  ASSUME graph \in Graphs
  PROVE  /\ \A v \in Values : ~IsInput(v) => Producer(v) \in Nodes /\ Out(Producer(v)) = v
         /\ \A i \in Nodes : Out(i) \in Values /\ ~IsInput(Out(i)) /\ Producer(Out(i)) = i
         /\ \A i, j \in Nodes : Out(i) = Out(j) => i = j
<1>1. /\ InputCount \in Nat /\ Len(graph.nodes) \in Nat
      /\ Nodes = 1 .. Len(graph.nodes) /\ Values = 1 .. InputCount + Len(graph.nodes)
  BY GraphFacts
<1> QED BY <1>1 DEF IsInput, Producer, Out

LEMMA NodesFinite ==
  ASSUME graph \in Graphs
  PROVE  IsFiniteSet(Nodes) /\ Cardinality(Nodes) = Len(graph.nodes)
<1>1. Len(graph.nodes) \in Nat /\ Nodes = 1 .. Len(graph.nodes)
  BY GraphFacts
<1> QED BY <1>1, FS_Interval

----------------------------------------------------------------------------
(* analyze *)

\* The places at which node i reads a node that is not done.
Waits(i, done) ==
  {a \in DOMAIN Inputs(i) : ~IsInput(Inputs(i)[a]) /\ Producer(Inputs(i)[a]) \notin done}

\* The nodes are visited once, wait once when they do, and wait for nothing
\* that is not yet visited.
Visits ==
  /\ order \in Seq(Nodes) /\ ready \in Seq(Nodes)
  /\ IsInjective(order) /\ IsInjective(ready)
  /\ ToSet(order) \intersect ToSet(ready) = {}
  /\ indegree = [i \in Nodes |-> Cardinality(Waits(i, ToSet(order)))]
  /\ \A i \in Nodes : indegree[i] = 0 <=> i \in ToSet(order) \union ToSet(ready)

Ordered == \A k \in DOMAIN order : \A n \in ReadsOf(order[k]) : \E j \in 1 .. k - 1 : order[j] = n

Phases == {"analyze", "form", "tune", "run", "done",
           "ill-typed", "cyclic", "malformed", "no alias base"}

Outcome ==
  /\ phase \in Phases
  /\ phase \notin {"analyze", "ill-typed"} => ready = <<>>
  /\ phase = "cyclic" => ToSet(order) # Nodes
  /\ Accepted => ToSet(order) = Nodes

AnalysisInv == graph \in Graphs /\ Visits /\ Ordered /\ Outcome

LEMMA WaitsFinite ==
  ASSUME graph \in Graphs, NEW i \in Nodes, NEW done
  PROVE  /\ IsFiniteSet(Waits(i, done)) /\ Cardinality(Waits(i, done)) \in Nat
         /\ Cardinality(Waits(i, done)) = 0 <=> Waits(i, done) = {}
<1>1. DOMAIN Inputs(i) = {1, 2} \/ DOMAIN Inputs(i) = {1}
  BY GraphFacts
<1>2. IsFiniteSet({1} \union {2})
  BY FS_Singleton, FS_AddElement
<1>3. Waits(i, done) \in SUBSET ({1} \union {2})
  BY <1>1, <1>2 DEF Waits
<1>4. IsFiniteSet(Waits(i, done))
  BY <1>2, <1>3, FS_Subset
<1> QED BY <1>4, FS_CardinalityType, FS_EmptySet

\* A node that is visited releases each place at which it is read.
LEMMA WaitsAfterVisit ==
  ASSUME graph \in Graphs, NEW i \in Nodes, NEW k \in Nodes, NEW done, i \notin done
  PROVE  /\ Waits(k, done \union {i}) \subseteq Waits(k, done)
         /\ Cardinality(Waits(k, done \union {i}))
              = Cardinality(Waits(k, done)) - Cardinality(UsesBy(Out(i), k))
<1> DEFINE W == Waits(k, done)
           A == {a \in DOMAIN Inputs(k) : Inputs(k)[a] = Out(i)}
           U == UsesBy(Out(i), k)
<1>1. Out(i) \in Values /\ ~IsInput(Out(i)) /\ Producer(Out(i)) = i
  BY ProducerFacts
<1>2. \A a \in DOMAIN Inputs(k) :
        ~IsInput(Inputs(k)[a]) /\ Producer(Inputs(k)[a]) = i => Inputs(k)[a] = Out(i)
  <2>1. \A a \in DOMAIN Inputs(k) : Inputs(k)[a] \in Values
    BY GraphFacts
  <2> QED BY <2>1, ProducerFacts
<1>3. A \subseteq W /\ Waits(k, done \union {i}) = W \ A
  BY <1>1, <1>2 DEF Waits
<1>4. IsFiniteSet(W)
  BY WaitsFinite
<1>5. IsFiniteSet(A)
  BY <1>3, <1>4, FS_Subset
<1>6. Cardinality(W \ A) = Cardinality(W) - Cardinality(A)
  <2>1. W \intersect A = A
    BY <1>3
  <2> HIDE DEF W, A
  <2> QED BY ZenonT(60), <1>4, <2>1, FS_Difference
<1>7. Cardinality(U) = Cardinality(A)
  <2> DEFINE f == [a \in A |-> <<k, a>>]
  <2>1. U = {<<k, a>> : a \in A}
    <3>1. DOMAIN Inputs(k) \subseteq 1 .. 2
      <4>1. DOMAIN Inputs(k) = {1, 2} \/ DOMAIN Inputs(k) = {1}
        BY GraphFacts
      <4> QED BY <4>1
    <3>2. ASSUME NEW u \in U PROVE u \in {<<k, a>> : a \in A}
      BY DEF UsesBy, Uses
    <3>3. ASSUME NEW a \in A PROVE <<k, a>> \in U
      BY <3>1 DEF UsesBy, Uses
    <3> QED BY <3>2, <3>3
  <2>2. f \in Bijection(A, U)
    <3>1. f \in [A -> U]
      BY <2>1
    <3>2. \A a, b \in A : f[a] = f[b] => a = b
      OBVIOUS
    <3>3. \A u \in U : \E a \in A : f[a] = u
      BY <2>1
    <3> HIDE DEF f
    <3> QED BY <3>1, <3>2, <3>3 DEF Bijection, Injection, Surjection, IsInjective
  <2>3. ExistsBijection(A, U)
    BY <2>2 DEF ExistsBijection
  <2> HIDE DEF A, U
  <2> QED BY <1>5, <2>3, FS_Bijection
<1> QED BY <1>3, <1>6, <1>7

LEMMA AnalysisBegins == Init => AnalysisInv
<1> SUFFICES ASSUME Init PROVE AnalysisInv
  OBVIOUS
<1>1. graph \in Graphs /\ order = <<>> /\ phase = "analyze"
  BY DEF Init
<1>2. ToSet(<<>>) = {}
  BY DEF ToSet
<1>3. indegree = [i \in Nodes |-> Cardinality(Waits(i, ToSet(order)))]
  BY <1>1, <1>2 DEF Init, Waits
<1> DEFINE S == {i \in Nodes : indegree[i] = 0}
<1>4. Len(graph.nodes) \in Nat /\ S \in SUBSET (1 .. Len(graph.nodes))
  BY <1>1, GraphFacts
<1>5. ready \in Seq(S) /\ ToSet(ready) = S /\ IsInjective(ready)
  <2>1. ready = InOrder(S)
    BY DEF Init
  <2> HIDE DEF S
  <2> QED BY <1>4, <2>1, InOrderLists
<1>6. ready \in Seq(Nodes) /\ order \in Seq(Nodes) /\ IsInjective(order)
  <2>1. S \subseteq Nodes
    OBVIOUS
  <2> HIDE DEF S
  <2>2. ready \in Seq(Nodes)
    BY <1>5, <2>1, SeqMonotonic
  <2> QED BY <1>1, <2>2 DEF IsInjective
<1>7. Visits
  BY <1>1, <1>2, <1>3, <1>5, <1>6 DEF Visits
<1>8. Ordered
  BY <1>1 DEF Ordered
<1> QED BY <1>1, <1>7, <1>8 DEF AnalysisInv, Outcome, Phases, Accepted

\* A node is visited: what it reads has been visited before it, and the nodes
\* that it releases are those that wait no more.
LEMMA VisitKeeps ==
  ASSUME AnalysisInv, phase = "analyze", ready # <<>>, WellShaped(Head(ready)),
         UNCHANGED graph,
         indegree' = LeftAfter(Head(ready)),
         ready' = Tail(ready) \o InOrder(Released(Head(ready))),
         order' = Append(order, Head(ready))
  PROVE  Visits' /\ Ordered'
<1> DEFINE i == Head(ready)
           done == ToSet(order)
           R == Released(i)
<1>1. graph \in Graphs /\ Visits
  BY DEF AnalysisInv
<1>2. /\ i \in Nodes /\ Tail(ready) \in Seq(Nodes)
      /\ ToSet(ready) = {i} \union ToSet(Tail(ready))
      /\ IsInjective(Tail(ready)) /\ i \notin ToSet(Tail(ready))
  BY <1>1, ToSetOfTail DEF Visits
<1>3. i \notin done /\ done \intersect ToSet(ready) = {}
  BY <1>1, <1>2 DEF Visits
<1>4. Nodes' = Nodes /\ \A k : Inputs(k)' = Inputs(k) /\ ReadsOf(k)' = ReadsOf(k)
  BY DEF Nodes, Inputs, ReadsOf, Producer, IsInput
<1>5. \A k, S : Waits(k, S)' = Waits(k, S)
  BY <1>4 DEF Waits, IsInput, Producer
<1>6. /\ order' \in Seq(Nodes) /\ ToSet(order') = done \union {i} /\ IsInjective(order')
  BY <1>1, <1>2, <1>3, ToSetOfAppend, InjectiveAppend DEF Visits
<1>7. \A k \in Nodes : indegree'[k] = Cardinality(Waits(k, done \union {i}))
  <2> SUFFICES ASSUME NEW k \in Nodes
               PROVE  indegree'[k] = Cardinality(Waits(k, done \union {i}))
    OBVIOUS
  <2>1. indegree'[k] = indegree[k] - Cardinality(UsesBy(Out(i), k))
    BY DEF LeftAfter
  <2>2. indegree[k] = Cardinality(Waits(k, done))
    BY <1>1 DEF Visits
  <2> HIDE DEF i, done
  <2> QED BY <1>1, <1>2, <1>3, <2>1, <2>2, WaitsAfterVisit
<1>8. \A k \in Nodes :
        /\ indegree[k] \in Nat /\ indegree'[k] \in Nat
        /\ indegree[k] = 0 => indegree'[k] = 0
  <2> SUFFICES ASSUME NEW k \in Nodes
               PROVE  /\ indegree[k] \in Nat /\ indegree'[k] \in Nat
                      /\ indegree[k] = 0 => indegree'[k] = 0
    OBVIOUS
  <2>1. indegree[k] = Cardinality(Waits(k, done))
    BY <1>1 DEF Visits
  <2>2. Waits(k, done \union {i}) \subseteq Waits(k, done)
    BY <1>1, <1>2, <1>3, WaitsAfterVisit
  <2> HIDE DEF i, done
  <2>3. /\ Cardinality(Waits(k, done)) \in Nat
        /\ Cardinality(Waits(k, done)) = 0 <=> Waits(k, done) = {}
    BY <1>1, WaitsFinite
  <2>4. /\ Cardinality(Waits(k, done \union {i})) \in Nat
        /\ Cardinality(Waits(k, done \union {i})) = 0 <=> Waits(k, done \union {i}) = {}
    BY <1>1, WaitsFinite
  <2>5. indegree'[k] = Cardinality(Waits(k, done \union {i}))
    BY <1>7
  <2> QED BY <2>1, <2>2, <2>3, <2>4, <2>5
<1>9. R = {k \in Nodes : indegree[k] > 0 /\ indegree'[k] = 0}
  BY DEF Released
<1>10. \A k \in Nodes : indegree[k] = 0 <=> k \in done \union ToSet(ready)
  BY <1>1 DEF Visits
<1> HIDE DEF i, done, R
<1>11. InOrder(R) \in Seq(Nodes) /\ ToSet(InOrder(R)) = R /\ IsInjective(InOrder(R))
  <2>1. R \in SUBSET (1 .. Len(graph.nodes)) /\ Len(graph.nodes) \in Nat /\ R \subseteq Nodes
    BY <1>1, <1>9, GraphFacts
  <2>2. InOrder(R) \in Seq(R) /\ ToSet(InOrder(R)) = R /\ IsInjective(InOrder(R))
    BY <2>1, InOrderLists
  <2> QED BY <2>1, <2>2, SeqMonotonic
<1>12. R \intersect (done \union ToSet(ready)) = {}
  BY <1>8, <1>9, <1>10
<1>13. ready' = Tail(ready) \o InOrder(R)
  BY DEF R, i
<1>14. ready' \in Seq(Nodes) /\ ToSet(ready') = ToSet(Tail(ready)) \union R
  <2> DEFINE rest == Tail(ready)
             new == InOrder(R)
  <2>1. rest \in Seq(Nodes) /\ new \in Seq(Nodes)
    BY <1>2, <1>11
  <2> HIDE DEF rest, new
  <2>2. rest \o new \in Seq(Nodes)
    BY <2>1, ConcatProperties
  <2>3. ToSet(rest \o new) = ToSet(rest) \union ToSet(new)
    BY ZenonT(60), <2>1, ToSetOfConcat
  <2> QED BY <1>11, <1>13, <2>2, <2>3 DEF rest, new
<1>15. IsInjective(ready')
  <2>1. ToSet(Tail(ready)) \intersect ToSet(InOrder(R)) = {}
    BY <1>2, <1>11, <1>12
  <2> QED BY <1>2, <1>11, <1>13, <2>1, InjectiveConcat
<1>16. ToSet(order') \intersect ToSet(ready') = {}
  BY <1>2, <1>3, <1>6, <1>12, <1>14
<1>17. \A k \in Nodes : indegree'[k] = 0 <=> k \in ToSet(order') \union ToSet(ready')
  <2>1. \A k \in Nodes : indegree'[k] = 0 <=> indegree[k] = 0 \/ k \in R
    BY <1>8, <1>9
  <2> QED BY <1>2, <1>6, <1>10, <1>14, <2>1
<1>18. indegree' = [k \in Nodes |-> Cardinality(Waits(k, ToSet(order')))]
  <2>1. DOMAIN indegree' = Nodes /\ indegree' = [k \in Nodes |-> indegree'[k]]
    BY DEF LeftAfter
  <2> QED BY <1>6, <1>7, <2>1
<1>19. Visits'
  BY <1>4, <1>5, <1>6, <1>14, <1>15, <1>16, <1>17, <1>18 DEF Visits
<1>20. Ordered'
  <2>1. /\ Len(order) \in Nat /\ DOMAIN order = 1 .. Len(order)
        /\ DOMAIN order' = 1 .. Len(order) + 1
        /\ \A k \in 1 .. Len(order) : order'[k] = order[k]
        /\ order'[Len(order) + 1] = i
    BY <1>1, <1>2 DEF Visits, i
  <2>2. ASSUME NEW n \in ReadsOf(i) PROVE \E j \in 1 .. Len(order) : order[j] = n
    <3>1. Waits(i, done) = {}
      <4>1. indegree[i] = Cardinality(Waits(i, done)) /\ indegree[i] = 0
        BY <1>1, <1>2, <1>10 DEF Visits, done
      <4> QED BY <1>1, <1>2, <4>1, WaitsFinite
    <3>2. n \in done
      BY <3>1 DEF Waits, ReadsOf, ToSet
    <3> QED BY <2>1, <3>2 DEF done, ToSet
  <2>3. ASSUME NEW k \in DOMAIN order', NEW n \in ReadsOf(order'[k])
        PROVE  \E j \in 1 .. k - 1 : order'[j] = n
    <3>1. CASE k \in DOMAIN order
      <4>1. PICK j \in 1 .. k - 1 : order[j] = n
        BY <2>1, <2>3, <3>1 DEF AnalysisInv, Ordered
      <4> QED BY <2>1, <3>1, <4>1
    <3>2. CASE k = Len(order) + 1
      <4>1. PICK j \in 1 .. Len(order) : order[j] = n
        BY <2>1, <2>2, <2>3, <3>2
      <4> QED BY <2>1, <3>2, <4>1
    <3> QED BY <2>1, <3>1, <3>2
  <2> QED BY <1>4, <2>3 DEF Ordered
<1> QED BY <1>19, <1>20

\* A sequence without repetition lists all of 1 .. n if and only if it is as long.
LEMMA ListsAll ==
  ASSUME NEW n \in Nat, NEW s \in Seq(1 .. n), IsInjective(s)
  PROVE  Len(s) = n <=> ToSet(s) = 1 .. n
<1> DEFINE S == 1 .. n
           m == Len(s)
<1>1. m \in Nat /\ s \in [1 .. m -> S] /\ DOMAIN s = 1 .. m
  BY LenProperties
<1>2. s \in Injection(1 .. m, S)
  BY <1>1 DEF Injection, IsInjective
<1>3. /\ IsFiniteSet(S) /\ Cardinality(S) = n
      /\ Cardinality(1 .. m) = m
  <2>1. \A k \in Nat : IsFiniteSet(1 .. k) /\ Cardinality(1 .. k) = k
    BY FS_Interval
  <2> QED BY <1>1, <2>1
<1> HIDE DEF S, m
<1>4. m = n <=> s \in Surjection(1 .. m, S)
  BY <1>2, <1>3, FS_Injection
<1>5. s \in Surjection(1 .. m, S) <=> ToSet(s) = S
  <2>1. \A x \in ToSet(s) : x \in S
    BY <1>1 DEF ToSet
  <2>2. s \in Surjection(1 .. m, S) <=> \A x \in S : \E j \in 1 .. m : s[j] = x
    BY <1>1 DEF Surjection
  <2>3. (\A x \in S : \E j \in 1 .. m : s[j] = x) <=> S \subseteq ToSet(s)
    BY <1>1 DEF ToSet
  <2> QED BY <2>1, <2>2, <2>3
<1> QED BY <1>4, <1>5 DEF S, m

LEMMA OrderComplete ==
  ASSUME AnalysisInv
  PROVE  Len(order) = Len(graph.nodes) <=> ToSet(order) = Nodes
BY GraphFacts, ListsAll DEF AnalysisInv, Visits

\* The steps after analyze leave its results alone.
LEMMA AnalysisFrame ==
  ASSUME AnalysisInv, UNCHANGED <<graph, indegree, ready, order>>
  PROVE  Visits' /\ Ordered' /\ graph' \in Graphs /\ Nodes' = Nodes
<1>1. Nodes' = Nodes /\ \A k : Inputs(k)' = Inputs(k) /\ ReadsOf(k)' = ReadsOf(k)
  BY DEF Nodes, Inputs, ReadsOf, Producer, IsInput
<1>2. \A k, S : Waits(k, S)' = Waits(k, S)
  BY <1>1 DEF Waits, IsInput, Producer
<1> QED BY <1>1, <1>2 DEF AnalysisInv, Visits, Ordered

LEMMA AnalysisContinues ==
  ASSUME AnalysisInv, [Next]_vars
  PROVE  AnalysisInv'
<1>1. CASE Visit
  <2>1. CASE WellShaped(Head(ready))
    <3>1. Visits' /\ Ordered'
      BY <1>1, <2>1, VisitKeeps DEF Visit, analysis
    <3>2. phase' = "analyze" /\ UNCHANGED graph
      BY <1>1, <2>1 DEF Visit, analysis
    <3> QED BY <3>1, <3>2 DEF AnalysisInv, Outcome, Phases, Accepted
  <2>2. CASE ~WellShaped(Head(ready))
    <3>1. phase' = "ill-typed" /\ UNCHANGED <<graph, indegree, ready, order>>
      BY <1>1, <2>2 DEF Visit, analysis
    <3> QED BY <3>1, AnalysisFrame DEF AnalysisInv, Outcome, Phases, Accepted
  <2> QED BY <2>1, <2>2
<1>2. CASE EndAnalyze
  <2>1. /\ ready = <<>> /\ UNCHANGED <<graph, indegree, ready, order>>
        /\ phase' = IF Len(order) = Len(graph.nodes) THEN "form" ELSE "cyclic"
    BY <1>2 DEF EndAnalyze, analysis
  <2> QED BY <2>1, AnalysisFrame, OrderComplete DEF AnalysisInv, Outcome, Phases, Accepted
<1>3. CASE ~Visit /\ ~EndAnalyze
  <2>1. UNCHANGED <<graph, indegree, ready, order>>
    BY <1>3 DEF Next, FormRegion, EndForm, Tune, Allocate, RunUnit, UnitFails, EndRun, RunAgain,
                Done, vars, analysis
  <2>2. \/ phase' = phase
        \/ phase \notin {"analyze", "ill-typed", "cyclic"}
           /\ phase' \in Phases \ {"analyze", "ill-typed", "cyclic"}
    BY <1>3 DEF Next, FormRegion, EndForm, Tune, Allocate, RunUnit, UnitFails, EndRun, RunAgain,
                Done, vars, analysis, Phases
  <2> QED BY <2>1, <2>2, AnalysisFrame DEF AnalysisInv, Outcome, Phases, Accepted
<1> QED BY <1>1, <1>2, <1>3

LEMMA AnalysisInvariance == Spec => []AnalysisInv
BY AnalysisBegins, AnalysisContinues, PTL DEF Spec

LEMMA ToSetOfPrefix ==
  ASSUME NEW S, NEW s \in Seq(S), NEW k \in DOMAIN s
  PROVE  ToSet(SubSeq(s, 1, k - 1)) = {s[j] : j \in 1 .. k - 1}
<1>1. k \in 1 .. Len(s) /\ Len(s) \in Nat
  BY LenProperties
<1> DEFINE t == SubSeq(s, 1, k - 1)
<1>2. t \in Seq(S) /\ Len(t) = k - 1 /\ \A j \in 1 .. k - 1 : t[j] = s[j]
  BY <1>1, SubSeqProperties
<1> HIDE DEF t
<1>3. DOMAIN t = 1 .. k - 1
  BY <1>2, LenProperties
<1>4. ToSet(t) = {s[j] : j \in 1 .. k - 1}
  BY <1>2, <1>3 DEF ToSet
<1> QED BY <1>4 DEF t

\* Where the traversal ends before it has seen every node, each node that is
\* left reads another that is left; one of least depth contradicts the depths.
LEMMA NoDepthsOfCycle ==
  ASSUME AnalysisInv, phase = "cyclic", NEW depth \in [Nodes -> Nodes]
  PROVE  \E i \in Nodes : \E k \in ReadsOf(i) : depth[k] >= depth[i]
<1>1. Nodes \subseteq Nat /\ graph \in Graphs
  BY GraphFacts DEF AnalysisInv
<1> DEFINE Left == Nodes \ ToSet(order)
           Depths == {depth[i] : i \in Left}
<1>2. ToSet(order) \subseteq Nodes
  BY DEF AnalysisInv, Visits, ToSet
<1>3. Left # {}
  BY <1>2 DEF AnalysisInv, Outcome
<1>4. Depths \subseteq Nat /\ Depths # {}
  BY <1>1, <1>3
<1>5. PICK d \in Depths : \A e \in Depths : d <= e
  BY <1>4, LeastNumber
<1>6. PICK i \in Left : depth[i] = d
  BY <1>5
<1>7. Waits(i, ToSet(order)) # {}
  <2>1. ready = <<>>
    BY DEF AnalysisInv, Outcome
  <2>2. ToSet(<<>>) = {}
    BY DEF ToSet
  <2>3. indegree[i] = Cardinality(Waits(i, ToSet(order))) /\ indegree[i] # 0
    BY <1>6, <2>1, <2>2 DEF AnalysisInv, Visits
  <2> QED BY <1>1, <1>6, <2>3, WaitsFinite
<1>8. PICK a \in DOMAIN Inputs(i) :
        ~IsInput(Inputs(i)[a]) /\ Producer(Inputs(i)[a]) \notin ToSet(order)
  BY <1>7 DEF Waits
<1> DEFINE k == Producer(Inputs(i)[a])
<1>9. k \in Left
  BY <1>1, <1>8, GraphFacts, ProducerFacts
<1>10. k \in ReadsOf(i)
  BY <1>8 DEF ReadsOf, ToSet
<1>11. depth[k] \in Depths /\ depth[k] \in Nat /\ d \in Nat
  BY <1>1, <1>5, <1>9
<1>12. depth[k] >= depth[i]
  BY <1>5, <1>6, <1>11
<1> QED BY <1>6, <1>10, <1>12

\* A node that reads another comes after it in the order, however often it reads
\* it; the order has every node of a graph that is accepted, and a graph that is
\* turned away as cyclic has no order.
THEOREM Topological == Spec => []OrderIsTopological
<1>1. ASSUME AnalysisInv PROVE OrderIsTopological
  <2>1. ASSUME NEW k \in DOMAIN order
        PROVE  ReadsOf(order[k]) \subseteq ToSet(SubSeq(order, 1, k - 1))
    <3>1. ToSet(SubSeq(order, 1, k - 1)) = {order[j] : j \in 1 .. k - 1}
      BY <1>1, ToSetOfPrefix DEF AnalysisInv, Visits
    <3> QED BY <1>1, <3>1 DEF AnalysisInv, Ordered
  <2> QED BY <1>1, <2>1, NoDepthsOfCycle DEF AnalysisInv, Outcome, OrderIsTopological
<1> QED BY <1>1, AnalysisInvariance, PTL

----------------------------------------------------------------------------
(* The patterns.  An edge is exclusive when its value has one reader, which *)
(* reads it once, and is not a declared output.                             *)

LEMMA ExclusiveReader ==
  ASSUME graph \in Graphs, NEW f \in Nodes, NEW i \in Nodes, ExclusiveEdge(f, i)
  PROVE  /\ Out(f) \notin graph.outputs /\ Op(f) \notin Views
         /\ \E u \in Uses(Out(f)) : u[1] = i /\ \A w \in Uses(Out(f)) : w = u
<1> DEFINE U == Uses(Out(f))
<1>1. Cardinality(U) = 1 /\ UsesBy(Out(f), i) # {}
  BY DEF ExclusiveEdge
<1>2. PICK u \in U : u[1] = i
  BY <1>1 DEF UsesBy
<1>3. IsFiniteSet(U)
  <2>1. IsFiniteSet(Nodes)
    BY NodesFinite
  <2>2. IsFiniteSet({1} \union {2})
    BY FS_Singleton, FS_AddElement
  <2>3. 1 .. 2 = {1} \union {2}
    OBVIOUS
  <2>4. IsFiniteSet(1 .. 2)
    BY <2>2, <2>3, Zenon
  <2>5. IsFiniteSet(Nodes \X (1 .. 2))
    BY <2>1, <2>4, FS_Product
  <2>6. U \in SUBSET (Nodes \X (1 .. 2))
    BY DEF Uses
  <2> QED BY <2>5, <2>6, FS_Subset
<1> HIDE DEF U
<1>4. PICK x : U = {x}
  BY <1>1, <1>3, FS_Singleton
<1>5. \A w \in U : w = u
  BY <1>2, <1>4
<1> QED BY <1>2, <1>5 DEF U, ExclusiveEdge

\* Who reads an exclusive value is its one reader, at its one place.
LEMMA ReadExclusively ==
  ASSUME graph \in Graphs, NEW f \in Nodes, NEW i \in Nodes, ExclusiveEdge(f, i)
  PROVE  /\ \A u \in Uses(Out(f)) : u[1] = i
         /\ f \in ReadsOf(i)
         /\ \A k \in Nodes : \A a \in DOMAIN Inputs(k) : Inputs(k)[a] = Out(f) => k = i
         /\ \A a, b \in DOMAIN Inputs(i) :
              Inputs(i)[a] = Out(f) /\ Inputs(i)[b] = Out(f) => a = b
<1>1. PICK u \in Uses(Out(f)) : u[1] = i /\ \A w \in Uses(Out(f)) : w = u
  BY ExclusiveReader
<1>2. /\ u \in Nodes \X (1 .. 2) /\ u[2] \in DOMAIN Inputs(u[1])
      /\ Inputs(u[1])[u[2]] = Out(f)
  BY DEF Uses
<1>3. ~IsInput(Out(f)) /\ Producer(Out(f)) = f
  BY ProducerFacts
<1>4. f \in ReadsOf(i)
  BY <1>1, <1>2, <1>3 DEF ReadsOf, ToSet
<1>5. ASSUME NEW k \in Nodes, NEW a \in DOMAIN Inputs(k), Inputs(k)[a] = Out(f)
      PROVE  <<k, a>> = u
  <2>1. DOMAIN Inputs(k) = {1, 2} \/ DOMAIN Inputs(k) = {1}
    BY GraphFacts
  <2>2. <<k, a>> \in Uses(Out(f))
    BY <1>5, <2>1 DEF Uses
  <2> QED BY <1>1, <2>2
<1>6. \A k \in Nodes : \A a \in DOMAIN Inputs(k) : Inputs(k)[a] = Out(f) => k = u[1] /\ a = u[2]
  <2> SUFFICES ASSUME NEW k \in Nodes, NEW a \in DOMAIN Inputs(k), Inputs(k)[a] = Out(f)
               PROVE  k = u[1] /\ a = u[2]
    OBVIOUS
  <2>1. <<k, a>> = u
    BY <1>5
  <2> QED BY <2>1
<1> QED BY <1>1, <1>4, <1>6

Patterns(f) == LinearReLU(f) \union AddNorm(f) \union SiLUMul(f)

\* The nodes of a pattern are one after the other on exclusive edges.
Chain(s) ==
  /\ s \in Seq(Nodes) /\ Len(s) \in {2, 3}
  /\ \A j, k \in 1 .. Len(s) : s[j] = s[k] => j = k
  /\ \A j \in 1 .. Len(s) : HasKernel(s[j])
  /\ \A j \in 1 .. Len(s) : Op(s[j]) = "Norm" => j = 2 /\ Inputs(s[j])[1] = Out(s[1])
  /\ \A j \in 1 .. Len(s) - 1 : ExclusiveEdge(s[j], s[j + 1])

LEMMA PatternsAreChains ==
  ASSUME NEW f \in Nodes, NEW s \in Patterns(f)
  PROVE  Chain(s) /\ s[1] = f
<1>1. CASE s \in LinearReLU(f)
  <2>1. PICK a \in Nodes, r \in Nodes : s = <<f, a, r>>
    BY <1>1 DEF LinearReLU
  <2>2. /\ Op(f) = "MatMul" /\ Op(a) = "Add" /\ Op(r) = "ReLU"
        /\ ExclusiveEdge(f, a) /\ ExclusiveEdge(a, r)
    BY <1>1, <2>1 DEF LinearReLU
  <2>3. f # a /\ f # r /\ a # r
    BY <2>2
  <2>4. /\ s \in Seq(Nodes) /\ Len(s) = 3 /\ s[1] = f /\ s[2] = a /\ s[3] = r
        /\ 1 .. Len(s) = {1, 2, 3} /\ 1 .. Len(s) - 1 = {1, 2}
    BY <2>1
  <2>5. \A j \in {1, 2} : ExclusiveEdge(s[j], s[j + 1])
    BY <2>2, <2>4
  <2> QED BY <2>2, <2>3, <2>4, <2>5 DEF Chain, HasKernel, Views
<1>2. CASE s \in AddNorm(f)
  <2>1. PICK n \in Nodes : s = <<f, n>>
    BY <1>2 DEF AddNorm
  <2>2. /\ Op(f) = "Add" /\ Op(n) = "Norm"
        /\ ExclusiveEdge(f, n) /\ Inputs(n)[1] = Out(f)
    BY <1>2, <2>1 DEF AddNorm
  <2>3. f # n
    BY <2>2
  <2>4. /\ s \in Seq(Nodes) /\ Len(s) = 2 /\ s[1] = f /\ s[2] = n
        /\ 1 .. Len(s) = {1, 2} /\ 1 .. Len(s) - 1 = {1}
    BY <2>1
  <2>5. \A j \in {1} : ExclusiveEdge(s[j], s[j + 1])
    BY <2>2, <2>4
  <2> QED BY <2>2, <2>3, <2>4, <2>5 DEF Chain, HasKernel, Views
<1>3. CASE s \in SiLUMul(f)
  <2>1. PICK m \in Nodes : s = <<f, m>>
    BY <1>3 DEF SiLUMul
  <2>2. Op(f) = "SiLU" /\ Op(m) = "Mul" /\ ExclusiveEdge(f, m)
    BY <1>3, <2>1 DEF SiLUMul
  <2>3. f # m
    BY <2>2
  <2>4. /\ s \in Seq(Nodes) /\ Len(s) = 2 /\ s[1] = f /\ s[2] = m
        /\ 1 .. Len(s) = {1, 2} /\ 1 .. Len(s) - 1 = {1}
    BY <2>1
  <2>5. \A j \in {1} : ExclusiveEdge(s[j], s[j + 1])
    BY <2>2, <2>4
  <2> QED BY <2>2, <2>3, <2>4, <2>5 DEF Chain, HasKernel, Views
<1> QED BY <1>1, <1>2, <1>3 DEF Patterns

IsRegion(s) == Chain(s) \/ \E f \in Nodes : s = <<f>>

LEMMA RegionFacts ==
  ASSUME NEW s, IsRegion(s)
  PROVE  /\ s \in Seq(Nodes) /\ Len(s) \in 1 .. 3 /\ DOMAIN s = 1 .. Len(s)
         /\ \A j, k \in DOMAIN s : s[j] = s[k] => j = k
         /\ ToSet(s) \subseteq Nodes /\ Last(s) = s[Len(s)] /\ Last(s) \in ToSet(s)
<1>1. /\ s \in Seq(Nodes) /\ Len(s) \in 1 .. 3 /\ DOMAIN s = 1 .. Len(s)
      /\ \A j, k \in DOMAIN s : s[j] = s[k] => j = k
  <2>1. CASE Chain(s)
    BY <2>1 DEF Chain
  <2>2. CASE \E f \in Nodes : s = <<f>>
    BY <2>2
  <2> QED BY <2>1, <2>2 DEF IsRegion
<1>2. Last(s) = s[Len(s)]
  BY DEF Last
<1>3. ToSet(s) \subseteq Nodes
  BY <1>1 DEF ToSet
<1>4. Last(s) \in ToSet(s)
  BY <1>1, <1>2 DEF ToSet
<1> QED BY <1>1, <1>2, <1>3, <1>4

\* What a region lets out is the result of its last node.
LEMMA EscapesLast ==
  ASSUME graph \in Graphs, NEW s, IsRegion(s)
  PROVE  Escaping(s) \subseteq {Out(Last(s))} /\ RegionOutputs(s) = {Out(Last(s))}
<1>1. ASSUME NEW v \in Escaping(s) PROVE v = Out(Last(s))
  <2>1. PICK j \in DOMAIN s : v = Out(s[j])
    BY DEF Escaping, ToSet
  <2>2. /\ j \in 1 .. Len(s) /\ Len(s) \in 1 .. 3 /\ s[j] \in Nodes
        /\ v \in graph.outputs \/ \E u \in Uses(v) : u[1] \notin ToSet(s)
    BY <2>1, RegionFacts DEF Escaping
  <2>3. CASE j = Len(s)
    BY <2>1, <2>3, RegionFacts
  <2>4. CASE j # Len(s)
    <3>1. Chain(s)
      <4>1. ASSUME NEW f \in Nodes, s = <<f>> PROVE FALSE
        BY <2>2, <2>4, <4>1
      <4> QED BY <4>1 DEF IsRegion
    <3>2. /\ ExclusiveEdge(s[j], s[j + 1]) /\ s[j + 1] \in Nodes /\ j + 1 \in DOMAIN s
      BY <2>2, <2>4, <3>1, RegionFacts DEF Chain
    <3>3. Out(s[j]) \notin graph.outputs /\ \A u \in Uses(Out(s[j])) : u[1] = s[j + 1]
      BY <2>2, <3>2, ExclusiveReader, ReadExclusively
    <3>4. s[j + 1] \in ToSet(s)
      BY <3>2 DEF ToSet
    <3> QED BY <2>1, <2>2, <3>3, <3>4
  <2> QED BY <2>3, <2>4
<1> QED BY <1>1 DEF RegionOutputs

\* Node a comes before node b.
Before(a, b) == \E j, k \in DOMAIN order : j < k /\ order[j] = a /\ order[k] = b

LEMMA BeforeOrders ==
  ASSUME AnalysisInv
  PROVE  /\ \A a, b : Before(a, b) => ~Before(b, a)
         /\ \A a, b, c : Before(a, b) /\ Before(b, c) => Before(a, c)
         /\ ToSet(order) = Nodes =>
              \A i \in Nodes : \A n \in ReadsOf(i) : Before(n, i)
<1>1. /\ \A j, k \in DOMAIN order : order[j] = order[k] => j = k
      /\ DOMAIN order = 1 .. Len(order) /\ Len(order) \in Nat
  BY DEF AnalysisInv, Visits, IsInjective
<1>2. ASSUME ToSet(order) = Nodes, NEW i \in Nodes, NEW n \in ReadsOf(i)
      PROVE  Before(n, i)
  <2>1. PICK k \in DOMAIN order : order[k] = i
    BY <1>2 DEF ToSet
  <2>2. PICK j \in 1 .. k - 1 : order[j] = n
    BY <1>2, <2>1 DEF AnalysisInv, Ordered
  <2>3. j \in DOMAIN order /\ j < k
    BY <1>1, <2>1, <2>2
  <2> QED BY <2>1, <2>2, <2>3 DEF Before
<1>3. \A a, b : Before(a, b) => ~Before(b, a)
  BY <1>1 DEF Before
<1>4. ASSUME NEW a, NEW b, NEW c, Before(a, b), Before(b, c) PROVE Before(a, c)
  <2>1. PICK i \in DOMAIN order, j \in DOMAIN order : i < j /\ order[i] = a /\ order[j] = b
    BY <1>4 DEF Before
  <2>2. PICK k \in DOMAIN order, l \in DOMAIN order : k < l /\ order[k] = b /\ order[l] = c
    BY <1>4 DEF Before
  <2>3. j = k /\ i < l
    BY <1>1, <2>1, <2>2
  <2> QED BY <2>1, <2>2, <2>3 DEF Before
<1> QED BY <1>2, <1>3, <1>4

\* The nodes of a chain are in the order of analyze.
LEMMA ChainInOrder ==
  ASSUME AnalysisInv, ToSet(order) = Nodes, NEW s, Chain(s)
  PROVE  \A j, k \in 1 .. Len(s) : j < k => Before(s[j], s[k])
<1>1. graph \in Graphs
  BY DEF AnalysisInv
<1>2. Len(s) \in {2, 3} /\ \A j \in 1 .. Len(s) : s[j] \in Nodes
  BY DEF Chain
<1>3. ASSUME NEW j \in 1 .. Len(s) - 1 PROVE Before(s[j], s[j + 1])
  <2>1. s[j] \in Nodes /\ s[j + 1] \in Nodes /\ ExclusiveEdge(s[j], s[j + 1])
    BY <1>2 DEF Chain
  <2>2. s[j] \in ReadsOf(s[j + 1])
    BY <1>1, <2>1, ReadExclusively
  <2> QED BY <2>1, <2>2, BeforeOrders
<1>4. ASSUME NEW j \in 1 .. Len(s), NEW k \in 1 .. Len(s), j < k
      PROVE  Before(s[j], s[k])
  <2>1. CASE k = j + 1
    BY <1>2, <1>3, <1>4, <2>1
  <2>2. CASE k # j + 1
    <3>1. j = 1 /\ k = 3 /\ 1 \in 1 .. Len(s) - 1 /\ 2 \in 1 .. Len(s) - 1
      BY <1>2, <1>4, <2>2
    <3>2. Before(s[1], s[2]) /\ Before(s[2], s[3])
      <4>1. Before(s[1], s[1 + 1]) /\ Before(s[2], s[2 + 1])
        BY <1>3, <3>1
      <4> QED BY <4>1
    <3> QED BY <3>1, <3>2, BeforeOrders
  <2> QED BY <2>1, <2>2
<1> QED BY <1>4

\* What a node of a region reads of the region is from the node just before it:
\* else the graph would have a cycle or the edge would be read twice.
LEMMA ReadsInRegion ==
  ASSUME AnalysisInv, ToSet(order) = Nodes, NEW s, IsRegion(s),
         NEW k \in 1 .. Len(s), NEW v \in ToSet(Inputs(s[k])),
         ~IsInput(v), Producer(v) \in ToSet(s)
  PROVE  k # 1 /\ v = Out(s[k - 1])
<1>1. graph \in Graphs
  BY DEF AnalysisInv
<1>2. /\ s \in Seq(Nodes) /\ Len(s) \in 1 .. 3 /\ DOMAIN s = 1 .. Len(s)
      /\ \A j \in 1 .. Len(s) : s[j] \in Nodes
      /\ \A j, l \in 1 .. Len(s) : s[j] = s[l] => j = l
  BY RegionFacts
<1>3. PICK a \in DOMAIN Inputs(s[k]) : v = Inputs(s[k])[a]
  BY DEF ToSet
<1>4. v \in Values /\ Out(Producer(v)) = v
  BY <1>1, <1>2, <1>3, GraphFacts, ProducerFacts
<1>5. PICK j \in 1 .. Len(s) : Producer(v) = s[j]
  BY <1>2 DEF ToSet
<1>6. v = Out(s[j])
  BY <1>4, <1>5
<1>7. s[j] \in ReadsOf(s[k])
  BY <1>5 DEF ReadsOf
<1>8. Before(s[j], s[k])
  BY <1>2, <1>7, BeforeOrders
<1>9. ~Before(s[k], s[j])
  BY <1>8, BeforeOrders
<1>10. j # k
  BY <1>8, <1>9
<1>11. Chain(s)
  <2>1. ASSUME NEW f \in Nodes, s = <<f>> PROVE FALSE
    <3>1. Len(s) = 1
      BY <2>1
    <3> QED BY <3>1, <1>5, <1>10
  <2> QED BY <2>1 DEF IsRegion
<1>12. j < k
  <2>1. ~(k < j)
    BY <1>9, <1>11, ChainInOrder
  <2> QED BY <1>10, <2>1, <1>2
<1>13. s[k] = s[j + 1]
  <2>1. /\ j \in 1 .. Len(s) - 1 /\ j + 1 \in 1 .. Len(s)
    BY <1>2, <1>12
  <2>2. ExclusiveEdge(s[j], s[j + 1])
    BY <1>11, <2>1 DEF Chain
  <2>3. s[j] \in Nodes /\ s[j + 1] \in Nodes /\ s[k] \in Nodes
    BY <1>2, <2>1
  <2>4. Inputs(s[k])[a] = Out(s[j])
    BY <1>3, <1>6
  <2> QED BY <1>1, <2>2, <2>3, <2>4, ReadExclusively
<1>14. k = j + 1
  BY <1>2, <1>12, <1>13
<1> QED BY <1>2, <1>6, <1>14

\* A fused kernel can be emitted: what it takes from outside is no node of its
\* own.
LEMMA OperandsAreInputs ==
  ASSUME AnalysisInv, ToSet(order) = Nodes, NEW s, Chain(s)
  PROVE  Operands(s) \subseteq RegionInputs(s)
<1>1. graph \in Graphs
  BY DEF AnalysisInv
<1>2. /\ s \in Seq(Nodes) /\ Len(s) \in {2, 3} /\ DOMAIN s = 1 .. Len(s)
      /\ \A j \in 1 .. Len(s) : s[j] \in Nodes
      /\ \A j, k \in 1 .. Len(s) : s[j] = s[k] => j = k
  BY DEF Chain
<1>3. IsRegion(s)
  BY DEF IsRegion
<1>4. ASSUME NEW k \in 1 .. Len(s), NEW v \in ToSet(Inputs(s[k])),
             k # 1 => v # Out(s[k - 1])
      PROVE  v \in RegionInputs(s)
  <2>1. IsInput(v) \/ Producer(v) \notin ToSet(s)
    BY <1>3, <1>4, ReadsInRegion
  <2>2. s[k] \in ToSet(s)
    BY <1>2 DEF ToSet
  <2> QED BY <2>1, <2>2 DEF RegionInputs
<1>5. ToSet(Inputs(s[1])) \subseteq RegionInputs(s)
  BY <1>2, <1>4
<1>6. ASSUME NEW k \in 2 .. Len(s), Len(Inputs(s[k])) = 2
      PROVE  OtherOperand(s, k) \in RegionInputs(s)
  <2>1. k \in 1 .. Len(s) /\ k # 1 /\ k - 1 \in 1 .. Len(s) - 1 /\ (k - 1) + 1 = k
    BY <1>2
  <2>2. s[k] \in Nodes /\ s[k - 1] \in Nodes /\ ExclusiveEdge(s[k - 1], s[k])
    BY <1>2, <2>1 DEF Chain
  <2>3. DOMAIN Inputs(s[k]) = {1, 2}
    <3>1. DOMAIN Inputs(s[k]) = 1 .. 2
      BY <1>1, <1>6, <2>2, GraphFacts
    <3> QED BY <3>1
  <2>4. \A a, b \in {1, 2} :
          Inputs(s[k])[a] = Out(s[k - 1]) /\ Inputs(s[k])[b] = Out(s[k - 1]) => a = b
    BY <1>1, <2>2, <2>3, ReadExclusively
  <2>5. Op(s[k]) = "Norm" => Inputs(s[k])[1] = Out(s[k - 1])
    BY <2>1 DEF Chain
  <2>6. OtherOperand(s, k) # Out(s[k - 1])
    BY <2>4, <2>5 DEF OtherOperand
  <2>7. OtherOperand(s, k) \in ToSet(Inputs(s[k]))
    BY <2>3 DEF OtherOperand, ToSet
  <2> QED BY <1>4, <2>1, <2>6, <2>7
<1>7. \A k \in {j \in 2 .. Len(s) : Len(Inputs(s[j])) = 2} : OtherOperand(s, k) \in RegionInputs(s)
  BY <1>6
<1> QED BY <1>5, <1>7 DEF Operands

----------------------------------------------------------------------------
(* formRegions *)

Apart ==
  \A i, j \in DOMAIN regions : \A a \in DOMAIN regions[i], b \in DOMAIN regions[j] :
    regions[i][a] = regions[j][b] => i = j /\ a = b

RegionInv ==
  /\ regions \in Seq(Seq(Nodes))
  /\ \A i \in DOMAIN regions : IsRegion(regions[i])
  /\ Apart
  /\ Formed => Assigned = Nodes
  /\ phase # "malformed"
  /\ fused \in Seq(BOOLEAN) /\ Len(fused) <= Len(regions)
  /\ \A i \in DOMAIN fused : fused[i] => Chain(regions[i])
  /\ phase \in {"run", "done"} => Len(fused) = Len(regions)
  /\ phase \in {"analyze", "form"} => fused = <<>>
  /\ phase = "analyze" => regions = <<>>

\* What a region is depends on the graph only.
LEMMA RegionFrame ==
  ASSUME UNCHANGED graph
  PROVE  /\ Nodes' = Nodes
         /\ \A s : (Chain(s)' <=> Chain(s)) /\ (IsRegion(s)' <=> IsRegion(s))
<1>1. /\ Nodes' = Nodes /\ \A i : Op(i)' = Op(i) /\ Inputs(i)' = Inputs(i) /\ Out(i)' = Out(i)
  BY DEF Nodes, Op, Inputs, Out
<1>2. \A v, i : Uses(v)' = Uses(v) /\ UsesBy(v, i)' = UsesBy(v, i)
  BY <1>1 DEF Uses, UsesBy
<1>3. \A f, i : ExclusiveEdge(f, i)' <=> ExclusiveEdge(f, i)
  BY <1>1, <1>2 DEF ExclusiveEdge
<1>4. \A s : Chain(s)' <=> Chain(s)
  BY <1>1, <1>3 DEF Chain, HasKernel
<1> QED BY <1>1, <1>4 DEF IsRegion

LEMMA RegionsBegin == Init => RegionInv
<1> SUFFICES ASSUME Init PROVE RegionInv
  OBVIOUS
<1>1. regions = <<>> /\ fused = <<>> /\ phase = "analyze"
  BY DEF Init
<1> QED BY <1>1 DEF RegionInv, Apart, Formed

\* The next node is one that no region has taken.
LEMMA NextNodeIsFree ==
  ASSUME AnalysisInv, ToSet(order) # Assigned, Assigned \subseteq ToSet(order)
  PROVE  NextNode \in Nodes \ Assigned
<1> DEFINE I == {i \in 1 .. Len(order) : order[i] \notin Assigned}
<1>1. /\ order \in Seq(Nodes) /\ Len(order) \in Nat /\ DOMAIN order = 1 .. Len(order)
  BY DEF AnalysisInv, Visits
<1>2. PICK i \in DOMAIN order : order[i] \notin Assigned
  BY DEF ToSet
<1>3. I # {} /\ I \subseteq Nat
  BY <1>1, <1>2
<1>4. NextNode = order[Min(I)]
  BY <1>3 DEF NextNode, SelectInSeq
<1>5. Min(I) \in I
  BY <1>3, MinIsLeast
<1> QED BY <1>1, <1>4, <1>5

\* The region formed at the next node, of that node alone or of a pattern of
\* nodes that are free.
LEMMA RegionIsFree ==
  ASSUME NEW f \in Nodes \ Assigned, NEW s,
         s = IF Fusible(f) = {} THEN <<f>> ELSE CHOOSE p \in Fusible(f) : TRUE
  PROVE  IsRegion(s) /\ ToSet(s) \intersect Assigned = {}
<1>1. CASE Fusible(f) = {}
  <2>1. s = <<f>>
    BY <1>1
  <2>2. DOMAIN s = {1} /\ s[1] = f
    BY ONLY <2>1
  <2>3. ToSet(s) = {f}
    BY <2>2 DEF ToSet
  <2> QED BY <2>1, <2>3 DEF IsRegion
<1>2. CASE Fusible(f) # {}
  <2>1. s \in Fusible(f)
    BY <1>2
  <2>2. s \in Patterns(f) /\ ToSet(s) \intersect Assigned = {}
    BY <2>1 DEF Fusible, Patterns
  <2> QED BY <2>2, PatternsAreChains DEF IsRegion
<1> QED BY <1>1, <1>2

LEMMA RegionsEmit ==
  ASSUME graph \in Graphs, NEW s, IsRegion(s)
  PROVE  ~Malformed(s)
<1>1. Cardinality(RegionOutputs(s)) = 1
  BY EscapesLast, FS_Singleton
<1>2. ASSUME IsFusion(s) PROVE \A k \in ToSet(s) : HasKernel(k)
  <2>1. Chain(s)
    <3>1. ASSUME NEW f \in Nodes, s = <<f>> PROVE FALSE
      BY <1>2, <3>1 DEF IsFusion
    <3> QED BY <3>1 DEF IsRegion
  <2> QED BY <2>1 DEF Chain, ToSet
<1> QED BY <1>1, <1>2 DEF Malformed

LEMMA FormRegionKeeps ==
  ASSUME AnalysisInv, RegionInv, FormRegion
  PROVE  RegionInv'
<1> DEFINE f == NextNode
           s == IF Fusible(f) = {} THEN <<f>> ELSE CHOOSE p \in Fusible(f) : TRUE
<1>1. /\ phase = "form" /\ ToSet(order) # Assigned
      /\ regions' = Append(regions, s) /\ UNCHANGED <<graph, fused>>
      /\ phase' = IF Malformed(s) THEN "malformed" ELSE phase
  BY DEF FormRegion
<1>2. /\ regions \in Seq(Seq(Nodes)) /\ Len(regions) \in Nat
      /\ DOMAIN regions = 1 .. Len(regions)
      /\ \A i \in DOMAIN regions : IsRegion(regions[i])
  BY DEF RegionInv
<1>3. ToSet(order) = Nodes /\ graph \in Graphs
  BY <1>1 DEF AnalysisInv, Outcome, Accepted
<1>4. Assigned \subseteq Nodes
  BY <1>2, RegionFacts DEF Assigned
<1>5. f \in Nodes \ Assigned
  BY <1>1, <1>3, <1>4, NextNodeIsFree
<1> HIDE DEF f
<1>6. IsRegion(s) /\ ToSet(s) \intersect Assigned = {}
  BY <1>5, RegionIsFree
<1> HIDE DEF s
<1>7. ~Malformed(s) /\ phase' = "form"
  BY <1>1, <1>3, <1>6, RegionsEmit
<1>8. s \in Seq(Nodes) /\ \A j, k \in DOMAIN s : s[j] = s[k] => j = k
  BY <1>6, RegionFacts
<1>9. /\ regions' \in Seq(Seq(Nodes)) /\ DOMAIN regions' = 1 .. Len(regions) + 1
      /\ Len(regions') = Len(regions) + 1
      /\ \A i \in 1 .. Len(regions) : regions'[i] = regions[i]
      /\ regions'[Len(regions) + 1] = s
  BY <1>1, <1>2, <1>8, AppendProperties
<1>10. \A i \in DOMAIN regions' :
         \/ i \in DOMAIN regions /\ regions'[i] = regions[i]
         \/ i = Len(regions) + 1 /\ regions'[i] = s
  BY <1>2, <1>9
<1>11. \A i \in DOMAIN regions' : IsRegion(regions'[i])
  BY <1>2, <1>6, <1>10
<1>12. \A i \in DOMAIN regions : \A a \in DOMAIN regions[i], b \in DOMAIN s : regions[i][a] # s[b]
  BY <1>6 DEF Assigned, ToSet
<1>13. Apart'
  <2>1. ASSUME NEW i \in DOMAIN regions', NEW j \in DOMAIN regions',
               NEW a \in DOMAIN regions'[i], NEW b \in DOMAIN regions'[j],
               regions'[i][a] = regions'[j][b]
        PROVE  i = j /\ a = b
    <3>1. CASE i \in DOMAIN regions /\ j \in DOMAIN regions
      BY <1>2, <1>9, <2>1, <3>1 DEF RegionInv, Apart
    <3>2. CASE i = Len(regions) + 1 /\ j = Len(regions) + 1
      BY <1>8, <1>9, <2>1, <3>2
    <3>3. CASE i \in DOMAIN regions /\ j = Len(regions) + 1
      BY <1>2, <1>9, <1>12, <2>1, <3>3
    <3>4. CASE i = Len(regions) + 1 /\ j \in DOMAIN regions
      BY <1>2, <1>9, <1>12, <2>1, <3>4
    <3> QED BY <1>10, <3>1, <3>2, <3>3, <3>4
  <2> QED BY <2>1 DEF Apart
<1>14. fused' = <<>>
  BY <1>1 DEF RegionInv
<1>15. Nodes' = Nodes /\ \A i \in DOMAIN regions' : IsRegion(regions[i])'
  BY <1>1, <1>11, RegionFrame
<1>16. /\ fused' \in Seq(BOOLEAN) /\ Len(fused') <= Len(regions')
       /\ DOMAIN fused' = {}
  BY <1>2, <1>9, <1>14
<1>17. regions' \in Seq(Seq(Nodes)')
  BY <1>9, <1>15
<1> QED BY <1>7, <1>13, <1>14, <1>15, <1>16, <1>17 DEF RegionInv, Formed

LEMMA TuneKeeps ==
  ASSUME AnalysisInv, RegionInv, Tune
  PROVE  RegionInv'
<1> DEFINE n == Len(fused) + 1
           s == regions[n]
<1>1. PICK choice \in BOOLEAN :
        /\ phase = "tune" /\ Len(fused) < Len(regions)
        /\ choice => IsFusion(s)
        /\ fused' = Append(fused, choice)
        /\ phase' = IF choice /\ ~(Operands(s) \subseteq RegionInputs(s))
                    THEN "malformed" ELSE phase
        /\ UNCHANGED <<graph, regions>>
  BY DEF Tune
<1>2. /\ fused \in Seq(BOOLEAN) /\ Len(fused) \in Nat /\ DOMAIN fused = 1 .. Len(fused)
      /\ Len(regions) \in Nat /\ DOMAIN regions = 1 .. Len(regions)
      /\ Assigned = Nodes
  BY <1>1 DEF RegionInv, Formed
<1>3. n \in DOMAIN regions
  BY <1>1, <1>2
<1>4. IsRegion(s)
  BY <1>3 DEF RegionInv
<1>5. ToSet(order) = Nodes
  BY <1>1 DEF AnalysisInv, Outcome, Accepted
<1>6. choice => Chain(s)
  <2>1. ASSUME NEW f \in Nodes, s = <<f>> PROVE ~IsFusion(s)
    BY <2>1 DEF IsFusion
  <2> QED BY <1>1, <1>4, <2>1 DEF IsRegion
<1> HIDE DEF s
<1>7. phase' = "tune"
  BY <1>1, <1>5, <1>6, OperandsAreInputs
<1>8. /\ fused' \in Seq(BOOLEAN) /\ Len(fused') = n /\ DOMAIN fused' = 1 .. n
      /\ \A i \in DOMAIN fused : fused'[i] = fused[i]
      /\ fused'[n] = choice
  BY <1>1, <1>2
<1>9. ASSUME NEW i \in DOMAIN fused', fused'[i] PROVE Chain(regions[i])
  <2>1. CASE i \in DOMAIN fused
    BY <1>8, <1>9, <2>1 DEF RegionInv
  <2>2. CASE i = n
    BY <1>6, <1>8, <1>9, <2>2 DEF s
  <2> QED BY <1>2, <1>8, <2>1, <2>2
<1>10. n <= Len(regions)
  BY <1>1, <1>2
<1>11. /\ Nodes' = Nodes /\ Assigned' = Assigned
       /\ \A i \in DOMAIN regions' : IsRegion(regions[i])'
       /\ \A i \in DOMAIN fused' : fused'[i] => Chain(regions[i])'
  BY <1>1, <1>9, RegionFrame DEF Assigned, RegionInv
<1>12. Apart' /\ regions' \in Seq(Seq(Nodes)')
  BY <1>1, <1>11 DEF Apart, RegionInv
<1> HIDE DEF n
<1> QED BY <1>1, <1>2, <1>7, <1>8, <1>10, <1>11, <1>12 DEF RegionInv, Formed

LEMMA RegionsContinue ==
  ASSUME AnalysisInv, RegionInv, [Next]_vars
  PROVE  RegionInv'
<1>1. CASE FormRegion
  BY <1>1, FormRegionKeeps
<1>2. CASE Tune
  BY <1>2, TuneKeeps
<1>3. CASE ~FormRegion /\ ~Tune
  <2>1. UNCHANGED <<graph, regions, fused>>
    BY <1>3 DEF Next, Visit, EndAnalyze, EndForm, Allocate, RunUnit, UnitFails, EndRun, RunAgain,
                Done, vars
  <2>2. \/ phase' = phase
        \/ phase = "analyze" /\ phase' \in {"ill-typed", "form", "cyclic"}
        \/ phase = "form" /\ phase' = "tune" /\ Assigned = Nodes
        \/ phase = "tune" /\ phase' = "no alias base"
        \/ phase = "tune" /\ phase' = "run" /\ Len(fused) = Len(regions)
        \/ phase \in {"run", "done"} /\ phase' \in {"run", "done"}
    <3>1. CASE EndForm
      BY <3>1 DEF EndForm, AnalysisInv, Outcome, Accepted
    <3>2. CASE ~EndForm
      BY <1>3, <3>2 DEF Next, Visit, EndAnalyze, Allocate, RunUnit, UnitFails, EndRun, RunAgain,
                        Done, vars
    <3> QED BY <3>1, <3>2
  <2>3. /\ Nodes' = Nodes /\ Assigned' = Assigned
        /\ \A i \in DOMAIN regions' : IsRegion(regions[i])'
        /\ \A i \in DOMAIN fused' : fused'[i] => Chain(regions[i])'
    BY <2>1, RegionFrame DEF Assigned, RegionInv
  <2>4. Apart' /\ regions' \in Seq(Seq(Nodes)')
    BY <2>1, <2>3 DEF Apart, RegionInv
  <2> QED BY <2>1, <2>2, <2>3, <2>4 DEF RegionInv, Formed
<1> QED BY <1>1, <1>2, <1>3

LEMMA RegionInvariance == Spec => [](AnalysisInv /\ RegionInv)
BY AnalysisBegins, AnalysisContinues, RegionsBegin, RegionsContinue, PTL DEF Spec

\* Every node is in one region, at one place of it.
THEOREM Partition == Spec => []RegionsPartitionTheNodes
<1>1. RegionInv => RegionsPartitionTheNodes
  BY DEF RegionInv, Apart, RegionsPartitionTheNodes
<1> QED BY <1>1, RegionInvariance, PTL

\* Nothing outside a region reads what its fused kernel would keep in registers,
\* nor is it a declared output.
THEOREM Intermediates == Spec => []IntermediatesStayInside
<1>1. AnalysisInv /\ RegionInv => IntermediatesStayInside
  BY EscapesLast DEF AnalysisInv, RegionInv, IntermediatesStayInside
<1> QED BY <1>1, RegionInvariance, PTL

\* The checks of formRegions, planRegions and emitFusion on a region never throw:
\* a fused kernel's operands are inputs of its region.
THEOREM WellFormed == Spec => []RegionsAreWellFormed
<1>1. RegionInv => RegionsAreWellFormed
  BY DEF RegionInv, RegionsAreWellFormed
<1> QED BY <1>1, RegionInvariance, PTL

----------------------------------------------------------------------------
(* The recursive definitions of compileGraph and run: functions on 0 .. n  *)
(* whose value at j comes from that at j - 1, and Base along the order.    *)

\* after is the iteration from b of the functions E[1], .., E[n].
Iterates(after, n, b, E) ==
  after = [j \in 0 .. n |-> IF j = 0 THEN b ELSE E[j][after[j - 1]]]

LEMMA IterationExists ==
  ASSUME NEW T, NEW b \in T, NEW n \in Nat, NEW E \in [1 .. n -> [T -> T]]
  PROVE  /\ \E f : Iterates(f, n, b, E)
         /\ \A f : Iterates(f, n, b, E) => f \in [0 .. n -> T]
<1> DEFINE I == {k \in Nat : k <= n => \E f \in [0 .. k -> T] : Iterates(f, k, b, E)}
<1>1. 0 \in I
  <2> DEFINE f == [j \in 0 .. 0 |-> b]
  <2>1. f \in [0 .. 0 -> T] /\ Iterates(f, 0, b, E)
    BY DEF Iterates
  <2> QED BY <2>1
<1>2. ASSUME NEW k \in I PROVE k + 1 \in I
  <2> SUFFICES ASSUME k + 1 <= n
               PROVE  \E g \in [0 .. k + 1 -> T] : Iterates(g, k + 1, b, E)
    OBVIOUS
  <2>1. k \in Nat /\ k <= n
    OBVIOUS
  <2>2. PICK f \in [0 .. k -> T] : Iterates(f, k, b, E)
    BY <2>1
  <2> DEFINE g == [j \in 0 .. k + 1 |-> IF j = 0 THEN b ELSE E[j][f[j - 1]]]
  <2>3. \A j \in 0 .. k : f[j] = IF j = 0 THEN b ELSE E[j][f[j - 1]]
    BY <2>2 DEF Iterates
  <2>4. \A j \in 0 .. k : g[j] = f[j]
    BY <2>1, <2>3
  <2>5. \A j \in 1 .. k + 1 : j - 1 \in 0 .. k /\ E[j] \in [T -> T]
    BY <2>1
  <2>6. g \in [0 .. k + 1 -> T]
    BY <2>1, <2>2, <2>5
  <2>7. \A j \in 0 .. k + 1 : g[j] = IF j = 0 THEN b ELSE E[j][g[j - 1]]
    <3> SUFFICES ASSUME NEW j \in 0 .. k + 1
                 PROVE  g[j] = IF j = 0 THEN b ELSE E[j][g[j - 1]]
      OBVIOUS
    <3>1. CASE j = 0
      BY <3>1
    <3>2. CASE j # 0
      <4>1. j - 1 \in 0 .. k /\ j \in 0 .. k + 1
        BY <2>1, <3>2
      <4>2. g[j - 1] = f[j - 1] /\ g[j] = E[j][f[j - 1]]
        BY <2>4, <3>2, <4>1
      <4> QED BY <3>2, <4>2
    <3> QED BY <3>1, <3>2
  <2>8. g = [j \in 0 .. k + 1 |-> g[j]]
    OBVIOUS
  <2> HIDE DEF g
  <2> QED BY <2>6, <2>7, <2>8 DEF Iterates
<1>3. I = Nat
  <2> HIDE DEF I
  <2> SUFFICES I \in SUBSET Nat
    BY <1>1, <1>2, Induction
  <2> QED BY DEF I
<1>4. \E f : Iterates(f, n, b, E)
  <2>1. n \in I
    BY <1>3
  <2> QED BY <2>1
<1>5. ASSUME NEW f, Iterates(f, n, b, E) PROVE f \in [0 .. n -> T]
  <2>1. /\ \A j \in 0 .. n : f[j] = IF j = 0 THEN b ELSE E[j][f[j - 1]]
        /\ f = [j \in 0 .. n |-> f[j]]
    BY <1>5 DEF Iterates
  <2> DEFINE J == {k \in Nat : k <= n => f[k] \in T}
  <2>2. 0 \in J
    BY <2>1
  <2>3. ASSUME NEW k \in J PROVE k + 1 \in J
    <3> SUFFICES ASSUME k + 1 <= n PROVE f[k + 1] \in T
      OBVIOUS
    <3>1. k \in Nat /\ k + 1 \in 0 .. n /\ k + 1 \in 1 .. n /\ (k + 1) - 1 = k /\ f[k] \in T
      OBVIOUS
    <3>2. f[k + 1] = E[k + 1][f[k]] /\ E[k + 1] \in [T -> T]
      BY <2>1, <3>1
    <3> QED BY <3>1, <3>2
  <2>4. J = Nat
    <3> HIDE DEF J
    <3> SUFFICES J \in SUBSET Nat
      BY <2>2, <2>3, Induction
    <3> QED BY DEF J
  <2>5. \A j \in 0 .. n : f[j] \in T
    BY <2>4
  <2> QED BY <2>1, <2>5
<1> QED BY <1>4, <1>5

\* The kernels of the nodes of a sequence, one after the other.
LEMMA NodesExecute ==
  ASSUME graph \in Graphs, NEW X \in SUBSET Values, NEW s \in Seq(Nodes)
  PROVE  \E f \in [0 .. Len(s) -> SUBSET Values] :
           /\ f[0] = X /\ ExecuteNodes(X, s) = f[Len(s)]
           /\ \A j \in 1 .. Len(s) : f[j] = ExecuteNode(f[j - 1], s[j])
<1> DEFINE n == Len(s)
           T == SUBSET Values
           E == [j \in 1 .. n |-> [Y \in T |-> ExecuteNode(Y, s[j])]]
           IsRun(after) == after = [j \in 0 .. n |-> IF j = 0 THEN X ELSE ExecuteNode(after[j - 1], s[j])]
           f == CHOOSE after : IsRun(after)
<1>1. n \in Nat /\ \A j \in 1 .. n : s[j] \in Nodes
  OBVIOUS
<1>2. ASSUME NEW Y \in T, NEW k \in Nodes PROVE ExecuteNode(Y, k) \in T
  BY <1>2, ProducerFacts DEF ExecuteNode, Compute
<1>3. E \in [1 .. n -> [T -> T]]
  BY <1>1, <1>2
<1>4. ExecuteNodes(X, s) = f[n]
  BY DEF ExecuteNodes
<1>5. /\ \E g : Iterates(g, n, X, E)
      /\ \A g : Iterates(g, n, X, E) => g \in [0 .. n -> T]
  <2> HIDE DEF n, T, E
  <2> SUFFICES X \in T
    BY <1>1, <1>3, IterationExists
  <2> QED BY DEF T
<1>6. PICK g : Iterates(g, n, X, E)
  BY <1>5
<1>7. IsRun(g)
  <2>1. g \in [0 .. n -> T]
    BY <1>5, <1>6
  <2>2. \A j \in 1 .. n : E[j][g[j - 1]] = ExecuteNode(g[j - 1], s[j])
    BY <1>1, <2>1
  <2>3. /\ \A j \in 0 .. n : g[j] = IF j = 0 THEN X ELSE E[j][g[j - 1]]
        /\ g = [j \in 0 .. n |-> g[j]]
    <3> HIDE DEF E, n
    <3> QED BY <1>6 DEF Iterates
  <2>4. \A j \in 0 .. n : g[j] = IF j = 0 THEN X ELSE ExecuteNode(g[j - 1], s[j])
    <3>1. \A j \in 0 .. n : j # 0 => j \in 1 .. n
      BY <1>1
    <3> HIDE DEF E, n
    <3> QED BY <2>2, <2>3, <3>1
  <2> HIDE DEF E, n
  <2> QED BY <2>3, <2>4
<1>8. IsRun(f)
  <2> HIDE DEF IsRun
  <2> QED BY <1>7
<1>9. f = g
  <2>1. /\ \A j \in 0 .. n : f[j] = IF j = 0 THEN X ELSE ExecuteNode(f[j - 1], s[j])
        /\ \A j \in 0 .. n : g[j] = IF j = 0 THEN X ELSE ExecuteNode(g[j - 1], s[j])
        /\ f = [j \in 0 .. n |-> f[j]] /\ g = [j \in 0 .. n |-> g[j]]
    <3> HIDE DEF f, n
    <3> QED BY <1>7, <1>8
  <2> DEFINE J == {k \in Nat : k <= n => f[k] = g[k]}
  <2> HIDE DEF f, n
  <2>2. 0 \in J
    BY SMTT(40), <1>1, <2>1
  <2>3. ASSUME NEW k \in J PROVE k + 1 \in J
    <3> SUFFICES ASSUME k + 1 <= n PROVE f[k + 1] = g[k + 1]
      OBVIOUS
    <3>1. k \in 0 .. n /\ k + 1 \in 0 .. n /\ k + 1 # 0 /\ (k + 1) - 1 = k /\ f[k] = g[k]
      BY <1>1
    <3> QED BY ZenonT(60), <2>1, <3>1
  <2>4. J = Nat
    <3> HIDE DEF J
    <3> SUFFICES J \in SUBSET Nat
      BY <2>2, <2>3, Induction
    <3> QED BY DEF J
  <2>5. \A j \in 0 .. n : f[j] = g[j]
    BY <1>1, <2>4
  <2> QED BY <2>1, <2>5
<1>10. g \in [0 .. n -> T]
  BY <1>5, <1>6
<1>11. g[0] = X /\ \A j \in 1 .. n : g[j] = ExecuteNode(g[j - 1], s[j])
  <2>1. \A j \in 0 .. n : g[j] = IF j = 0 THEN X ELSE ExecuteNode(g[j - 1], s[j])
    <3> HIDE DEF n
    <3> QED BY <1>7
  <2>2. 0 \in 0 .. n /\ \A j \in 1 .. n : j \in 0 .. n /\ j # 0
    BY <1>1
  <2> HIDE DEF n
  <2> QED BY <2>1, <2>2
<1> HIDE DEF f
<1> QED BY <1>4, <1>9, <1>10, <1>11

\* What holds of the inputs, and of the result of a node when it holds of what
\* the node reads, holds of every value.
LEMMA AlongTheOrder ==
  ASSUME AnalysisInv, ToSet(order) = Nodes, NEW P,
         \A v \in Values : IsInput(v) => v \in P,
         \A i \in Nodes : (\A a \in DOMAIN Inputs(i) : Inputs(i)[a] \in P) => Out(i) \in P
  PROVE  \A v \in Values : v \in P
<1> DEFINE T == {k \in DOMAIN order : Out(order[k]) \notin P}
<1>1. /\ graph \in Graphs /\ order \in Seq(Nodes)
      /\ DOMAIN order = 1 .. Len(order) /\ Len(order) \in Nat
      /\ \A k \in DOMAIN order : order[k] \in Nodes
  BY DEF AnalysisInv, Visits
<1>2. T = {}
  <2> SUFFICES ASSUME T # {} PROVE FALSE
    OBVIOUS
  <2>1. T \subseteq Nat
    BY <1>1
  <2>2. PICK k \in T : \A j \in T : k <= j
    BY <2>1, LeastNumber
  <2>3. PICK a \in DOMAIN Inputs(order[k]) : Inputs(order[k])[a] \notin P
    BY <1>1
  <2> DEFINE v == Inputs(order[k])[a]
  <2>4. v \in Values /\ ~IsInput(v)
    BY <1>1, <2>3, GraphFacts
  <2>5. Producer(v) \in ReadsOf(order[k]) /\ Out(Producer(v)) = v
    BY <1>1, <2>4, ProducerFacts DEF ReadsOf, ToSet
  <2>6. PICK j \in 1 .. k - 1 : order[j] = Producer(v)
    BY <2>5 DEF AnalysisInv, Ordered
  <2>7. j \in T /\ j < k
    BY <1>1, <2>3, <2>5, <2>6
  <2> QED BY <1>1, <2>2, <2>7
<1>3. ASSUME NEW v \in Values PROVE v \in P
  <2>1. CASE IsInput(v)
    BY <2>1
  <2>2. CASE ~IsInput(v)
    <3>1. Producer(v) \in Nodes /\ Out(Producer(v)) = v
      BY <1>1, <2>2, ProducerFacts
    <3>2. PICK k \in DOMAIN order : order[k] = Producer(v)
      BY <3>1 DEF ToSet
    <3> QED BY <1>2, <3>1, <3>2
  <2> QED BY <2>1, <2>2
<1> QED BY <1>3

BaseStep(B, v) == IF ViewOf(v) THEN B[Inputs(Producer(v))[1]] ELSE v

\* The chain of views that ends in the base of a value follows the order.
LEMMA BaseExists ==
  ASSUME AnalysisInv, ToSet(order) = Nodes
  PROVE  \E B : B = [v \in Values |-> BaseStep(B, v)]
<1>1. /\ graph \in Graphs /\ order \in Seq(Nodes)
      /\ DOMAIN order = 1 .. Len(order) /\ Len(order) \in Nat
      /\ \A k \in DOMAIN order : order[k] \in Nodes
      /\ \A j, k \in DOMAIN order : order[j] = order[k] => j = k
  BY DEF AnalysisInv, Visits, IsInjective
<1> DEFINE Known(k) == {v \in Values : IsInput(v) \/ \E j \in 1 .. k : order[j] = Producer(v)}
           Fits(B, k) == /\ B = [v \in Values |-> B[v]]
                         /\ \A v \in Known(k) : B[v] = BaseStep(B, v)
           I == {k \in Nat : k <= Len(order) => \E B : Fits(B, k)}
<1>2. ASSUME NEW k \in DOMAIN order, NEW a \in DOMAIN Inputs(order[k])
      PROVE  Inputs(order[k])[a] \in Known(k - 1)
  <2> DEFINE v == Inputs(order[k])[a]
  <2>1. v \in Values
    BY <1>1, GraphFacts
  <2>2. CASE ~IsInput(v)
    <3>1. Producer(v) \in ReadsOf(order[k])
      BY <1>1, <2>2 DEF ReadsOf, ToSet
    <3> QED BY <2>1, <3>1 DEF AnalysisInv, Ordered
  <2> QED BY <2>1, <2>2
<1>3. ASSUME NEW i \in Nodes
      PROVE  1 \in DOMAIN Inputs(i)
  BY <1>1, GraphFacts
<1>4. 0 \in I
  <2> DEFINE B == [v \in Values |-> v]
  <2>1. \A v \in Known(0) : ~ViewOf(v)
    BY DEF ViewOf
  <2>2. Fits(B, 0)
    BY <2>1 DEF BaseStep
  <2> QED BY <2>2
<1>5. ASSUME NEW k \in I PROVE k + 1 \in I
  <2> SUFFICES ASSUME k + 1 <= Len(order) PROVE \E B : Fits(B, k + 1)
    OBVIOUS
  <2>1. /\ k \in Nat /\ k + 1 \in DOMAIN order /\ (k + 1) - 1 = k
        /\ \A j \in 1 .. k + 1 : j \in 1 .. k \/ j = k + 1
        /\ \A j \in 1 .. k : j \in DOMAIN order /\ j # k + 1
    BY <1>1
  <2>2. PICK A : Fits(A, k)
    BY <1>1, <2>1
  <2> DEFINE w == Out(order[k + 1])
             B == [v \in Values |-> IF v = w THEN BaseStep(A, w) ELSE A[v]]
  <2>3. order[k + 1] \in Nodes /\ w \in Values /\ ~IsInput(w) /\ Producer(w) = order[k + 1]
    BY <1>1, <2>1, ProducerFacts
  <2>4. w \notin Known(k)
    BY <1>1, <2>1, <2>3
  <2>5. \A v \in Known(k + 1) : v \in Known(k) \/ v = w
    BY <1>1, <2>1, <2>3, ProducerFacts
  <2>6. ASSUME NEW v \in Known(k + 1), ViewOf(v)
        PROVE  Inputs(Producer(v))[1] \in Known(k)
    <3>1. PICK j \in 1 .. k + 1 : order[j] = Producer(v)
      BY <2>6 DEF ViewOf
    <3>2. j \in DOMAIN order /\ order[j] \in Nodes
      BY <1>1, <2>1
    <3>3. Inputs(order[j])[1] \in Known(j - 1)
      BY <1>2, <1>3, <3>2
    <3> QED BY <1>1, <2>1, <3>1, <3>3
  <2>7. ASSUME NEW v \in Known(k + 1) PROVE B[v] = BaseStep(B, v)
    <3> DEFINE x == Inputs(Producer(v))[1]
    <3>1. ViewOf(v) => x \in Values /\ x # w
      BY <2>4, <2>6
    <3>2. BaseStep(B, v) = BaseStep(A, v)
      BY <3>1 DEF BaseStep
    <3> QED BY <2>2, <2>5, <3>2
  <2>8. B = [v \in Values |-> B[v]]
    OBVIOUS
  <2> HIDE DEF B
  <2> QED BY <2>7, <2>8
<1>6. I = Nat
  <2> HIDE DEF I
  <2> SUFFICES I \in SUBSET Nat
    BY <1>4, <1>5, Induction
  <2> QED BY DEF I
<1>7. PICK B : Fits(B, Len(order))
  <2>1. Len(order) \in I
    BY <1>1, <1>6
  <2> QED BY <1>1, <2>1
<1>8. Known(Len(order)) = Values
  <2>1. ASSUME NEW v \in Values, ~IsInput(v) PROVE v \in Known(Len(order))
    <3>1. Producer(v) \in ToSet(order)
      BY <1>1, <2>1, ProducerFacts
    <3> QED BY <1>1, <2>1, <3>1 DEF ToSet
  <2> QED BY <2>1
<1>9. B = [v \in Values |-> BaseStep(B, v)]
  <2> HIDE DEF Known
  <2> QED BY <1>7, <1>8
<1> QED BY <1>9

\* The base of a value, and that views of views have the same.
LEMMA BaseFacts ==
  ASSUME AnalysisInv, ToSet(order) = Nodes
  PROVE  /\ \A v \in Values : ~ViewOf(v) => Base[v] = v
         /\ \A i \in Nodes : HasKernel(i) => Base[Out(i)] = Out(i)
         /\ \A i \in Nodes : ~HasKernel(i) => Base[Out(i)] = Base[Inputs(i)[1]]
<1> DEFINE IsBase(B) == B = [v \in Values |-> IF ViewOf(v) THEN B[Inputs(Producer(v))[1]] ELSE v]
<1>1. Base = CHOOSE B : IsBase(B)
  BY DEF Base
<1>2. \E B : IsBase(B)
  BY BaseExists DEF BaseStep
<1>3. IsBase(Base)
  <2> HIDE DEF IsBase
  <2> QED BY <1>1, <1>2, Zenon
<1>4. \A v \in Values : Base[v] = IF ViewOf(v) THEN Base[Inputs(Producer(v))[1]] ELSE v
  BY <1>3
<1>5. graph \in Graphs
  BY DEF AnalysisInv
<1>6. \A i \in Nodes : /\ Out(i) \in Values /\ Producer(Out(i)) = i
                       /\ ViewOf(Out(i)) <=> ~HasKernel(i)
  BY <1>5, ProducerFacts DEF ViewOf, HasKernel
<1> HIDE DEF IsBase
<1> QED BY <1>4, <1>6

LEMMA BaseType ==
  ASSUME AnalysisInv, ToSet(order) = Nodes
  PROVE  \A v \in Values : Base[v] \in Values
<1> DEFINE P == {w \in Values : Base[w] \in Values}
<1>1. graph \in Graphs
  BY DEF AnalysisInv
<1>2. \A w \in Values : IsInput(w) => w \in P
  BY BaseFacts DEF ViewOf
<1>3. ASSUME NEW k \in Nodes, \A a \in DOMAIN Inputs(k) : Inputs(k)[a] \in P
      PROVE  Out(k) \in P
  <2>1. Out(k) \in Values /\ Inputs(k)[1] \in P
    BY <1>1, <1>3, ProducerFacts, GraphFacts
  <2> QED BY <2>1, BaseFacts
<1> HIDE DEF P
<1>4. \A v \in Values : v \in P
  BY <1>2, <1>3, AlongTheOrder
<1> QED BY <1>4 DEF P

\* Bases, inputs of regions and kernels depend on the graph only.
LEMMA RunFrame ==
  ASSUME UNCHANGED graph
  PROVE  /\ Values' = Values /\ Base' = Base
         /\ \A v : IsInput(v)' <=> IsInput(v)
         /\ \A s : RegionInputs(s)' = RegionInputs(s)
<1>1. /\ Nodes' = Nodes /\ Values' = Values /\ \A v : IsInput(v)' <=> IsInput(v)
      /\ \A i : Op(i)' = Op(i) /\ Inputs(i)' = Inputs(i) /\ Producer(i)' = Producer(i)
      /\ \A v : ViewOf(v)' <=> ViewOf(v)
  BY DEF Nodes, Values, IsInput, Producer, Op, Inputs, ViewOf
<1>2. Base' = Base
  BY DEF Base, Values, ViewOf, IsInput, Producer, Op, Inputs
<1>3. \A s : RegionInputs(s)' = RegionInputs(s)
  BY <1>1 DEF RegionInputs
<1> QED BY <1>1, <1>2, <1>3

----------------------------------------------------------------------------
(* CompiledGraph::run *)

\* The values that the first n regions leave in buffers, with the inputs.
Produced(n) ==
  {v \in Values :
     \/ IsInput(v)
     \/ \E i \in 1 .. n : IF fused[i] THEN v = Out(Last(regions[i]))
                          ELSE Producer(v) \in ToSet(regions[i])}

Late == \E i \in DOMAIN regions : LateOperands(i) # {}

RunInv ==
  /\ right \subseteq Values
  /\ phase \in {"run", "done"} => \A v \in Values : IsInput(v) => v \in right
  /\ pc \in 1 .. Len(regions) + 1
  /\ phase \notin {"run", "done"} => pc = 1
  /\ phase = "done" => pc = Len(regions) + 1
  /\ phase \in {"run", "done"} /\ ~Late => \A v \in Produced(pc - 1) : Base[v] \in right

\* The plan is complete once the graph runs.
LEMMA WhileRunning ==
  ASSUME AnalysisInv, RegionInv, phase \in {"run", "done"}
  PROVE  /\ graph \in Graphs /\ ToSet(order) = Nodes /\ Assigned = Nodes
         /\ Len(regions) \in Nat /\ DOMAIN regions = 1 .. Len(regions)
         /\ DOMAIN fused = DOMAIN regions /\ \A i \in DOMAIN regions : fused[i] \in BOOLEAN
         /\ \A i \in DOMAIN regions : /\ IsRegion(regions[i]) /\ regions[i] \in Seq(Nodes)
                                      /\ fused[i] => Chain(regions[i])
         /\ \A k \in Nodes : \E i \in DOMAIN regions : k \in ToSet(regions[i])
         /\ \A i, j \in DOMAIN regions :
              \A k \in ToSet(regions[i]) : k \in ToSet(regions[j]) => i = j
<1>1. graph \in Graphs /\ ToSet(order) = Nodes /\ Assigned = Nodes
  BY DEF AnalysisInv, Outcome, Accepted, RegionInv, Formed
<1>2. /\ Len(regions) \in Nat /\ DOMAIN regions = 1 .. Len(regions)
      /\ DOMAIN fused = DOMAIN regions /\ \A i \in DOMAIN regions : fused[i] \in BOOLEAN
  BY DEF RegionInv
<1>3. \A i \in DOMAIN regions : IsRegion(regions[i]) /\ (fused[i] => Chain(regions[i]))
  BY <1>2 DEF RegionInv
<1>4. \A i \in DOMAIN regions : regions[i] \in Seq(Nodes)
  BY <1>3, RegionFacts
<1>5. \A k \in Nodes : \E i \in DOMAIN regions : k \in ToSet(regions[i])
  BY <1>1 DEF Assigned
<1>6. ASSUME NEW i \in DOMAIN regions, NEW j \in DOMAIN regions,
             NEW k \in ToSet(regions[i]), k \in ToSet(regions[j])
      PROVE  i = j
  <2>1. PICK a \in DOMAIN regions[i] : k = regions[i][a]
    BY DEF ToSet
  <2>2. PICK b \in DOMAIN regions[j] : k = regions[j][b]
    BY <1>6 DEF ToSet
  <2> QED BY <2>1, <2>2 DEF RegionInv, Apart
<1> QED BY <1>1, <1>2, <1>3, <1>4, <1>5, <1>6

\* What others read of a region, or the caller asks for, is the result of its
\* last node.
LEMMA SeenOutside ==
  ASSUME graph \in Graphs, NEW s, IsRegion(s), NEW v \in Values,
         ~IsInput(v), Producer(v) \in ToSet(s),
         v \in graph.outputs \/ \E k \in Nodes \ ToSet(s) : v \in ToSet(Inputs(k))
  PROVE  v = Out(Last(s))
<1>1. Out(Producer(v)) = v
  BY ProducerFacts
<1>2. v \in {Out(k) : k \in ToSet(s)}
  BY <1>1
<1>3. ASSUME NEW k \in Nodes \ ToSet(s), v \in ToSet(Inputs(k))
      PROVE  \E u \in Uses(v) : u[1] \notin ToSet(s)
  <2>1. PICK a \in DOMAIN Inputs(k) : Inputs(k)[a] = v
    BY <1>3 DEF ToSet
  <2>2. a \in 1 .. 2
    BY SMTT(40), <2>1, GraphFacts
  <2>3. <<k, a>> \in Uses(v)
    BY <2>1, <2>2 DEF Uses
  <2> QED BY <2>3
<1>4. v \in Escaping(s)
  BY <1>2, <1>3 DEF Escaping
<1> QED BY <1>4, EscapesLast

LEMMA RegionInputsFacts ==
  ASSUME graph \in Graphs, NEW s, IsRegion(s), NEW v \in RegionInputs(s)
  PROVE  /\ v \in Values
         /\ IsInput(v) \/ Producer(v) \in Nodes \ ToSet(s)
         /\ \E k \in ToSet(s) : k \in Nodes /\ v \in ToSet(Inputs(k))
<1>1. PICK k \in ToSet(s) : v \in ToSet(Inputs(k))
  BY DEF RegionInputs
<1>2. k \in Nodes
  BY RegionFacts
<1>3. v \in Values
  BY <1>1, <1>2, GraphFacts DEF ToSet
<1> QED BY <1>1, <1>2, <1>3, ProducerFacts DEF RegionInputs

\* A region whose operands are not late finds them in buffers.
LEMMA OperandsProduced ==
  ASSUME AnalysisInv, RegionInv, phase \in {"run", "done"},
         NEW i \in DOMAIN regions, LateOperands(i) = {}, NEW v \in RegionInputs(regions[i])
  PROVE  v \in Produced(i - 1)
<1>1. /\ graph \in Graphs /\ Len(regions) \in Nat /\ DOMAIN regions = 1 .. Len(regions)
      /\ \A j \in DOMAIN regions : IsRegion(regions[j])
  BY WhileRunning
<1>2. PICK k \in ToSet(regions[i]) : k \in Nodes /\ v \in ToSet(Inputs(k))
  BY <1>1, RegionInputsFacts
<1>3. v \in Values /\ (~IsInput(v) => Producer(v) \in Nodes \ ToSet(regions[i]))
  BY <1>1, RegionInputsFacts
<1>4. CASE ~IsInput(v)
  <2>1. PICK j \in DOMAIN regions : Producer(v) \in ToSet(regions[j])
    BY <1>3, <1>4, WhileRunning
  <2>2. j # i
    BY <1>3, <1>4, <2>1
  <2>3. j \notin i + 1 .. Len(regions)
    BY <1>4, <2>1 DEF LateOperands
  <2>4. j \in 1 .. i - 1
    BY <1>1, <2>2, <2>3
  <2>5. k \notin ToSet(regions[j])
    BY <1>2, <2>2, WhileRunning
  <2>6. v = Out(Last(regions[j]))
    BY <1>1, <1>2, <1>3, <1>4, <2>1, <2>5, SeenOutside
  <2> QED BY <1>3, <2>1, <2>4, <2>6 DEF Produced
<1> QED BY <1>3, <1>4 DEF Produced

LEMMA ExecuteType ==
  ASSUME graph \in Graphs, NEW X \in SUBSET Values, NEW s, IsRegion(s), NEW asOne \in BOOLEAN,
         \A v \in Values : IsInput(v) => v \in X
  PROVE  /\ Execute(X, s, asOne) \subseteq Values
         /\ \A v \in Values : IsInput(v) => v \in Execute(X, s, asOne)
         /\ \A j \in 0 .. Len(s) :
              /\ ExecuteNodes(X, SubSeq(s, 1, j)) \subseteq Values
              /\ \A v \in Values : IsInput(v) => v \in ExecuteNodes(X, SubSeq(s, 1, j))
<1>1. ASSUME NEW t \in Seq(Nodes)
      PROVE  /\ ExecuteNodes(X, t) \subseteq Values
             /\ \A v \in Values : IsInput(v) => v \in ExecuteNodes(X, t)
  <2>1. PICK f \in [0 .. Len(t) -> SUBSET Values] :
          /\ f[0] = X /\ ExecuteNodes(X, t) = f[Len(t)]
          /\ \A j \in 1 .. Len(t) : f[j] = ExecuteNode(f[j - 1], t[j])
    BY NodesExecute
  <2>2. Len(t) \in Nat /\ \A j \in 1 .. Len(t) : t[j] \in Nodes
    OBVIOUS
  <2> DEFINE J == {k \in Nat : k <= Len(t) => \A v \in Values : IsInput(v) => v \in f[k]}
  <2>3. 0 \in J
    BY <2>1
  <2>4. ASSUME NEW k \in J PROVE k + 1 \in J
    <3> SUFFICES ASSUME k + 1 <= Len(t), NEW v \in Values, IsInput(v)
                 PROVE  v \in f[k + 1]
      OBVIOUS
    <3>1. k + 1 \in 1 .. Len(t) /\ (k + 1) - 1 = k /\ v \in f[k]
      BY <2>2
    <3>2. f[k + 1] = ExecuteNode(f[k], t[k + 1]) /\ t[k + 1] \in Nodes
      BY <2>1, <2>2, <3>1
    <3>3. v # Out(t[k + 1])
      BY <3>2, ProducerFacts
    <3> QED BY <3>1, <3>2, <3>3 DEF ExecuteNode, Compute
  <2>5. J = Nat
    <3> HIDE DEF J
    <3> SUFFICES J \in SUBSET Nat
      BY <2>3, <2>4, Induction
    <3> QED BY DEF J
  <2> QED BY <2>1, <2>2, <2>5
<1>2. s \in Seq(Nodes) /\ Last(s) \in Nodes
  BY RegionFacts
<1>3. ASSUME NEW j \in 0 .. Len(s) PROVE SubSeq(s, 1, j) \in Seq(Nodes)
  <2>1. j <= Len(s) /\ \A k \in 1 .. j : s[k] \in Nodes
    BY <1>2
  <2> QED BY <1>2, <2>1, SubSeqProperties
<1>4. RegionOutputs(s) = {Out(Last(s))}
  BY EscapesLast
<1>5. (CHOOSE v \in RegionOutputs(s) : TRUE) = Out(Last(s))
  BY <1>4
<1>6. CASE asOne
  <2>1. Execute(X, s, asOne) = Compute(X, RegionInputs(s), Out(Last(s)))
    BY <1>5, <1>6 DEF Execute
  <2>2. Out(Last(s)) \in Values /\ ~IsInput(Out(Last(s)))
    BY <1>2, ProducerFacts
  <2>3. /\ Execute(X, s, asOne) \subseteq Values
        /\ \A v \in Values : IsInput(v) => v \in Execute(X, s, asOne)
    BY <2>1, <2>2 DEF Compute
  <2> QED BY <1>1, <1>3, <2>3
<1>7. CASE ~asOne
  <2>1. Execute(X, s, asOne) = ExecuteNodes(X, s)
    BY <1>7 DEF Execute
  <2> QED BY <1>1, <1>2, <1>3, <2>1
<1> QED BY <1>6, <1>7

\* Run from right operands, the kernels of a region give right values.
LEMMA NodesGiveRight ==
  ASSUME AnalysisInv, ToSet(order) = Nodes, NEW X \in SUBSET Values, NEW s, IsRegion(s),
         \A v \in RegionInputs(s) : Base[v] \in X
  PROVE  /\ X \subseteq ExecuteNodes(X, s)
         /\ \A k \in ToSet(s) : Base[Out(k)] \in ExecuteNodes(X, s)
<1>1. /\ graph \in Graphs /\ s \in Seq(Nodes) /\ Len(s) \in Nat /\ DOMAIN s = 1 .. Len(s)
      /\ \A j \in 1 .. Len(s) : s[j] \in Nodes
  BY RegionFacts DEF AnalysisInv
<1>2. PICK f \in [0 .. Len(s) -> SUBSET Values] :
        /\ f[0] = X /\ ExecuteNodes(X, s) = f[Len(s)]
        /\ \A j \in 1 .. Len(s) : f[j] = ExecuteNode(f[j - 1], s[j])
  BY <1>1, NodesExecute
<1> DEFINE Good(j) == X \subseteq f[j] /\ \A l \in 1 .. j : Base[Out(s[l])] \in f[j]
           J == {j \in Nat : j <= Len(s) => Good(j)}
<1>3. 0 \in J
  BY <1>2
<1>4. ASSUME NEW j \in J PROVE j + 1 \in J
  <2> SUFFICES ASSUME j + 1 <= Len(s) PROVE Good(j + 1)
    OBVIOUS
  <2> DEFINE k == s[j + 1]
  <2>1. /\ j \in Nat /\ j + 1 \in 1 .. Len(s) /\ (j + 1) - 1 = j /\ Good(j)
        /\ \A l \in 1 .. j + 1 : l \in 1 .. j \/ l = j + 1
    BY <1>1
  <2>2. f[j + 1] = ExecuteNode(f[j], k) /\ k \in Nodes
    BY <1>1, <1>2, <2>1
  <2>3. ASSUME NEW v \in ToSet(Inputs(k)) PROVE Base[v] \in f[j]
    <3>1. CASE ~IsInput(v) /\ Producer(v) \in ToSet(s)
      <4>1. j + 1 # 1 /\ v = Out(s[j])
        BY <2>1, <3>1, ReadsInRegion
      <4>2. j \in 1 .. j
        BY <2>1, <4>1
      <4> QED BY <2>1, <4>1, <4>2
    <3>2. CASE IsInput(v) \/ Producer(v) \notin ToSet(s)
      <4>1. k \in ToSet(s)
        BY <1>1, <2>1 DEF ToSet
      <4>2. v \in RegionInputs(s)
        BY <3>2, <4>1 DEF RegionInputs
      <4> QED BY <2>1, <4>2
    <3> QED BY <3>1, <3>2
  <2> HIDE DEF k
  <2>4. f[j] \subseteq f[j + 1] /\ Base[Out(k)] \in f[j + 1]
    <3>1. CASE HasKernel(k)
      <4>1. f[j + 1] = f[j] \union {Out(k)}
        BY <2>2, <2>3, <3>1 DEF ExecuteNode, Compute
      <4>2. Base[Out(k)] = Out(k)
        BY <2>2, <3>1, BaseFacts
      <4> QED BY <4>1, <4>2
    <3>2. CASE ~HasKernel(k)
      <4>1. f[j + 1] = f[j]
        BY <2>2, <3>2 DEF ExecuteNode
      <4>2. Base[Out(k)] = Base[Inputs(k)[1]]
        BY <2>2, <3>2, BaseFacts
      <4>3. Inputs(k)[1] \in ToSet(Inputs(k))
        <5>1. 1 \in DOMAIN Inputs(k)
          BY <1>1, <2>2, GraphFacts
        <5> QED BY <5>1 DEF ToSet
      <4> QED BY <2>3, <4>1, <4>2, <4>3
    <3> QED BY <3>1, <3>2
  <2> QED BY <2>1, <2>4 DEF k
<1>5. J = Nat
  <2> HIDE DEF J
  <2> SUFFICES J \in SUBSET Nat
    BY <1>3, <1>4, Induction
  <2> QED BY DEF J
<1>6. Good(Len(s))
  BY <1>1, <1>5
<1> QED BY <1>1, <1>2, <1>6 DEF ToSet

LEMMA PlanFrame ==
  ASSUME UNCHANGED <<graph, regions, fused>>
  PROVE  /\ Values' = Values /\ Base' = Base /\ (Late' <=> Late)
         /\ \A v : IsInput(v)' <=> IsInput(v)
         /\ \A n : Produced(n)' = Produced(n)
<1>1. /\ Values' = Values /\ Base' = Base
      /\ \A v : IsInput(v)' <=> IsInput(v)
      /\ \A s : RegionInputs(s)' = RegionInputs(s)
  BY RunFrame
<1>2. \A i : LateOperands(i)' = LateOperands(i)
  BY <1>1 DEF LateOperands, Producer
<1>3. \A n : Produced(n)' = Produced(n)
  BY <1>1 DEF Produced, Producer, Out
<1> QED BY <1>1, <1>2, <1>3 DEF Late

\* Before the first region of a run, the inputs are all it has.
LEMMA ProducedByNone ==
  ASSUME AnalysisInv, ToSet(order) = Nodes, NEW v \in Produced(0)
  PROVE  v \in Values /\ IsInput(v) /\ Base[v] = v
<1>1. v \in Values /\ IsInput(v)
  BY DEF Produced
<1>2. ~ViewOf(v)
  BY <1>1 DEF ViewOf
<1> QED BY <1>1, <1>2, BaseFacts

LEMMA RunUnitKeeps ==
  ASSUME AnalysisInv, RegionInv, RunInv, RunUnit
  PROVE  RunInv'
<1> DEFINE s == regions[pc]
<1>1. /\ phase = "run" /\ pc <= Len(regions)
      /\ right' = Execute(right, s, fused[pc]) /\ pc' = pc + 1
      /\ UNCHANGED <<graph, phase, regions, fused>>
  BY DEF RunUnit
<1>2. /\ graph \in Graphs /\ ToSet(order) = Nodes
      /\ Len(regions) \in Nat /\ DOMAIN regions = 1 .. Len(regions)
      /\ \A i \in DOMAIN regions : IsRegion(regions[i]) /\ fused[i] \in BOOLEAN
                                   /\ (fused[i] => Chain(regions[i]))
  BY <1>1, WhileRunning
<1>3. pc \in DOMAIN regions /\ pc \in Nat /\ pc + 1 \in 1 .. Len(regions) + 1 /\ (pc + 1) - 1 = pc
  BY <1>1, <1>2 DEF RunInv
<1>4. IsRegion(s) /\ fused[pc] \in BOOLEAN /\ (fused[pc] => Chain(s))
  BY <1>2, <1>3
<1>5. /\ Values' = Values /\ Base' = Base /\ (Late' <=> Late)
      /\ \A v : IsInput(v)' <=> IsInput(v)
      /\ \A n : Produced(n)' = Produced(n)
  BY <1>1, PlanFrame
<1>6. right \in SUBSET Values /\ \A v \in Values : IsInput(v) => v \in right
  BY <1>1 DEF RunInv
<1>7. right' \subseteq Values /\ \A v \in Values : IsInput(v) => v \in right'
  <2> HIDE DEF s
  <2> QED BY <1>1, <1>2, <1>4, <1>6, ExecuteType
<1>8. ASSUME ~Late, NEW v \in Produced(pc) PROVE Base[v] \in right'
  <2>1. \A w \in Produced(pc - 1) : Base[w] \in right
    BY <1>1, <1>8 DEF RunInv
  <2>2. LateOperands(pc) = {}
    BY <1>3, <1>8 DEF Late
  <2>3. \A w \in RegionInputs(s) : Base[w] \in right
    BY <1>1, <1>3, <2>1, <2>2, OperandsProduced
  <2>4. \/ v \in Produced(pc - 1)
        \/ IF fused[pc] THEN v = Out(Last(s)) ELSE Producer(v) \in ToSet(s)
    <3>1. \A i \in 1 .. pc : i \in 1 .. pc - 1 \/ i = pc
      BY <1>3
    <3> QED BY <3>1 DEF Produced
  <2>5. v \in Values
    BY DEF Produced
  <2>6. CASE fused[pc]
    <3>1. Last(s) \in Nodes /\ HasKernel(Last(s))
      <4>1. Last(s) = s[Len(s)] /\ Len(s) \in 1 .. Len(s) /\ Last(s) \in Nodes
        BY SMTT(40), <1>4, RegionFacts
      <4> QED BY <1>4, <2>6, <4>1 DEF Chain
    <3>2. RegionOutputs(s) = {Out(Last(s))}
      BY <1>2, <1>4, EscapesLast
    <3>3. (CHOOSE w \in RegionOutputs(s) : TRUE) = Out(Last(s))
      BY <3>2
    <3>4. right' = right \union {Out(Last(s))}
      BY <1>1, <2>3, <2>6, <3>3 DEF Execute, Compute
    <3>5. Base[Out(Last(s))] = Out(Last(s))
      BY <1>2, <3>1, BaseFacts
    <3> QED BY <2>1, <2>4, <2>6, <3>4, <3>5
  <2>7. CASE ~fused[pc]
    <3>1. right' = ExecuteNodes(right, s)
      BY <1>1, <2>7 DEF Execute
    <3>2. right \subseteq right' /\ \A k \in ToSet(s) : Base[Out(k)] \in right'
      <4> HIDE DEF s
      <4> QED BY <1>2, <1>4, <1>6, <2>3, <3>1, NodesGiveRight
    <3>3. CASE v \in Produced(pc - 1)
      BY <2>1, <3>2, <3>3
    <3>4. CASE v \notin Produced(pc - 1)
      <4>1. Producer(v) \in ToSet(s) /\ ~IsInput(v)
        BY <2>4, <2>5, <2>7, <3>4 DEF Produced
      <4>2. v = Out(Producer(v))
        BY <1>2, <2>5, <4>1, ProducerFacts
      <4>3. Base[Out(Producer(v))] \in right'
        BY <3>2, <4>1
      <4> QED BY <4>2, <4>3
    <3> QED BY <3>3, <3>4
  <2> QED BY <1>4, <2>6, <2>7
<1> HIDE DEF s
<1> QED BY <1>1, <1>3, <1>5, <1>7, <1>8 DEF RunInv

\* A unit that fails leaves the buffers of the inputs, and the next run begins.
LEMMA UnitFailsKeeps ==
  ASSUME AnalysisInv, RegionInv, RunInv, UnitFails
  PROVE  RunInv'
<1> DEFINE s == regions[pc]
<1>1. /\ phase = "run" /\ pc <= Len(regions) /\ pc' = 1
      /\ right' \in IF fused[pc] THEN {right, Execute(right, s, TRUE)}
                    ELSE {ExecuteNodes(right, SubSeq(s, 1, j)) : j \in 0 .. Len(s)}
      /\ UNCHANGED <<graph, phase, regions, fused>>
  BY DEF UnitFails
<1>2. /\ graph \in Graphs /\ ToSet(order) = Nodes
      /\ Len(regions) \in Nat /\ DOMAIN regions = 1 .. Len(regions)
      /\ \A i \in DOMAIN regions : IsRegion(regions[i]) /\ fused[i] \in BOOLEAN
  BY <1>1, WhileRunning
<1>3. pc \in DOMAIN regions
  BY <1>1, <1>2 DEF RunInv
<1>4. IsRegion(s) /\ fused[pc] \in BOOLEAN
  BY <1>2, <1>3
<1>5. /\ Values' = Values /\ Base' = Base /\ (Late' <=> Late)
      /\ \A v : IsInput(v)' <=> IsInput(v)
      /\ \A n : Produced(n)' = Produced(n)
  BY <1>1, PlanFrame
<1>6. right \in SUBSET Values /\ \A v \in Values : IsInput(v) => v \in right
  BY <1>1 DEF RunInv
<1> HIDE DEF s
<1>7. right' \subseteq Values /\ \A v \in Values : IsInput(v) => v \in right'
  <2>1. /\ Execute(right, s, TRUE) \subseteq Values
        /\ \A v \in Values : IsInput(v) => v \in Execute(right, s, TRUE)
    BY <1>2, <1>4, <1>6, ExecuteType
  <2>2. \A j \in 0 .. Len(s) :
          /\ ExecuteNodes(right, SubSeq(s, 1, j)) \subseteq Values
          /\ \A v \in Values : IsInput(v) => v \in ExecuteNodes(right, SubSeq(s, 1, j))
    BY <1>2, <1>4, <1>6, ExecuteType
  <2> QED BY <1>1, <1>6, <2>1, <2>2
<1>8. \A v \in Produced(0) : Base[v] \in right'
  BY <1>2, <1>7, ProducedByNone
<1>9. 1 \in 1 .. Len(regions) + 1 /\ 1 - 1 = 0
  BY <1>2
<1> QED BY <1>1, <1>5, <1>7, <1>8, <1>9 DEF RunInv

LEMMA RunsContinue ==
  ASSUME AnalysisInv, RegionInv, RunInv, [Next]_vars
  PROVE  RunInv'
<1>1. CASE RunUnit
  BY <1>1, RunUnitKeeps
<1>2. CASE UnitFails
  BY <1>2, UnitFailsKeeps
<1>3. CASE Allocate
  <2>1. /\ phase = "tune" /\ Len(fused) = Len(regions)
        /\ UNCHANGED <<graph, regions, fused, pc>>
        /\ \/ phase' = "no alias base" /\ UNCHANGED right
           \/ phase' = "run" /\ right' = {v \in Values : IsInput(v)}
    BY <1>3 DEF Allocate
  <2>2. /\ Values' = Values /\ Base' = Base
        /\ \A v : IsInput(v)' <=> IsInput(v)
        /\ \A n : Produced(n)' = Produced(n)
    BY <2>1, PlanFrame
  <2>3. pc = 1 /\ pc' = 1 /\ 1 - 1 = 0 /\ pc' \in 1 .. Len(regions') + 1
    <3>1. pc = 1 /\ pc \in 1 .. Len(regions) + 1
      BY <2>1 DEF RunInv
    <3>2. pc' = 1 /\ Len(regions') = Len(regions)
      BY <2>1, <3>1
    <3>3. pc' \in 1 .. Len(regions') + 1
      BY <3>1, <3>2
    <3> QED BY <3>1, <3>2, <3>3
  <2>4. ToSet(order) = Nodes
    BY <2>1 DEF AnalysisInv, Outcome, Accepted
  <2>5. right' \subseteq Values
    BY <2>1 DEF RunInv
  <2>6. phase' = "run" => \A v \in Produced(0) : Base[v] \in right'
    BY <2>1, <2>4, ProducedByNone
  <2> QED BY <2>1, <2>2, <2>3, <2>5, <2>6 DEF RunInv
<1>4. CASE EndRun \/ RunAgain
  <2>1. /\ UNCHANGED <<graph, regions, fused, right>>
        /\ phase \in {"run", "done"} /\ phase' \in {"run", "done"}
        /\ \/ phase' = "done" /\ phase = "run" /\ pc > Len(regions) /\ pc' = pc
           \/ phase' = "run" /\ phase = "done" /\ pc' = 1
    BY <1>4 DEF EndRun, RunAgain
  <2>2. /\ Values' = Values /\ Base' = Base /\ (Late' <=> Late)
        /\ \A v : IsInput(v)' <=> IsInput(v)
        /\ \A n : Produced(n)' = Produced(n)
    BY <2>1, PlanFrame
  <2>3. Len(regions) \in Nat /\ ToSet(order) = Nodes
    BY <2>1, WhileRunning
  <2>4. \A v \in Produced(0) : Base[v] \in right
    BY <2>1, <2>3, ProducedByNone DEF RunInv
  <2>5. pc' \in 1 .. Len(regions') + 1 /\ (phase' = "done" => pc' = Len(regions') + 1)
    BY <2>1, <2>3 DEF RunInv
  <2>6. pc' = 1 => pc' - 1 = 0
    OBVIOUS
  <2> QED BY <2>1, <2>2, <2>4, <2>5, <2>6 DEF RunInv
<1>5. CASE FormRegion
  <2>1. /\ phase = "form" /\ phase' \in {"form", "malformed"} /\ UNCHANGED <<graph, right, pc>>
        /\ \E s : regions' = Append(regions, s)
    BY <1>5 DEF FormRegion
  <2>2. pc = 1 /\ Len(regions') \in Nat /\ Values' = Values
    <3>1. RegionInv'
      BY <1>5, FormRegionKeeps
    <3> QED BY <2>1, <3>1, RunFrame DEF RunInv, RegionInv
  <2>3. pc' \in 1 .. Len(regions') + 1
    BY <2>1, <2>2
  <2> QED BY <2>1, <2>2, <2>3 DEF RunInv
<1>6. CASE Visit \/ EndAnalyze \/ EndForm \/ Tune
  <2>1. /\ UNCHANGED <<graph, regions, right, pc>>
        /\ phase \notin {"run", "done"} /\ phase' \notin {"run", "done"}
    BY <1>6 DEF Visit, EndAnalyze, EndForm, Tune
  <2>2. Values' = Values
    BY <2>1, RunFrame
  <2> QED BY <2>1, <2>2 DEF RunInv
<1>7. CASE Done \/ UNCHANGED vars
  <2>1. UNCHANGED <<graph, phase, regions, fused, right, pc>>
    BY <1>7 DEF Done, vars
  <2> QED BY <2>1, PlanFrame DEF RunInv
<1> QED BY <1>1, <1>2, <1>3, <1>4, <1>5, <1>6, <1>7 DEF Next

LEMMA RunInvariance == Spec => [](AnalysisInv /\ RegionInv /\ RunInv)
<1>1. Init => RunInv
  <2> SUFFICES ASSUME Init PROVE RunInv
    OBVIOUS
  <2>1. right = {} /\ pc = 1 /\ phase = "analyze" /\ regions = <<>>
    BY DEF Init
  <2>2. Len(regions) = 0
    BY <2>1
  <2> QED BY <2>1, <2>2 DEF RunInv
<1> QED BY <1>1, AnalysisBegins, AnalysisContinues, RegionsBegin, RegionsContinue, RunsContinue,
           PTL DEF Spec

\* Where no region reads what a later one computes, every run that is complete
\* has right values in the buffers of the declared outputs, whichever regions
\* run as one kernel and whatever the runs before left behind.
THEOREM RightWithoutLateOperands == Spec => []RightUnlessLate
<1>1. ASSUME AnalysisInv, RegionInv, RunInv PROVE RightUnlessLate
  <2> SUFFICES ASSUME phase = "done", \A i \in DOMAIN regions : LateOperands(i) = {},
                      NEW v \in graph.outputs
               PROVE  Base[v] \in right
    BY DEF RightUnlessLate
  <2>1. /\ graph \in Graphs /\ Len(regions) \in Nat /\ DOMAIN regions = 1 .. Len(regions)
        /\ \A i \in DOMAIN regions : IsRegion(regions[i])
        /\ \A k \in Nodes : \E i \in DOMAIN regions : k \in ToSet(regions[i])
    BY <1>1, WhileRunning
  <2>2. v \in Values
    BY <2>1, GraphFacts
  <2>3. pc - 1 = Len(regions) /\ ~Late
    BY <1>1, <2>1 DEF RunInv, Late
  <2>4. v \in Produced(Len(regions))
    <3>1. CASE ~IsInput(v)
      <4>1. PICK i \in DOMAIN regions : Producer(v) \in ToSet(regions[i])
        BY <2>1, <2>2, <3>1, ProducerFacts
      <4>2. v = Out(Last(regions[i]))
        BY <2>1, <2>2, <3>1, <4>1, SeenOutside
      <4> QED BY <2>1, <2>2, <4>1, <4>2 DEF Produced
    <3> QED BY <2>2, <3>1 DEF Produced
  <2> QED BY <1>1, <2>3, <2>4 DEF RunInv
<1> QED BY <1>1, RunInvariance, PTL

----------------------------------------------------------------------------
(* A first run with fused kernels beside one without: they may differ in   *)
(* what the fused kernels keep in registers, and in nothing else.          *)

\* What the fused kernels keep in registers.
Internal ==
  {v \in Values : \E i \in DOMAIN regions :
     fused[i] /\ \E j \in 1 .. Len(regions[i]) - 1 : v = Out(regions[i][j])}

Agree(X, Y) == \A v \in Values \ Internal : v \in X <=> v \in Y

\* A value in a register is read by one node, which comes next in its region.
LEMMA InternalReader ==
  ASSUME AnalysisInv, RegionInv, phase \in {"run", "done"},
         NEW v \in Internal
  PROVE  /\ v \in Values /\ ~IsInput(v) /\ ~ViewOf(v) /\ v \notin graph.outputs
         /\ \E i \in DOMAIN regions :
              /\ fused[i] /\ Producer(v) \in ToSet(regions[i])
              /\ \A k \in Nodes : v \in ToSet(Inputs(k)) => k \in ToSet(regions[i])
<1>1. PICK i \in DOMAIN regions : fused[i] /\ \E j \in 1 .. Len(regions[i]) - 1 : v = Out(regions[i][j])
  BY DEF Internal
<1> DEFINE s == regions[i]
<1>2. PICK j \in 1 .. Len(s) - 1 : v = Out(s[j])
  BY <1>1
<1>3. graph \in Graphs /\ Chain(s) /\ IsRegion(s)
  BY <1>1, WhileRunning
<1>4. Len(s) \in {2, 3} /\ DOMAIN s = 1 .. Len(s) /\ \A l \in 1 .. Len(s) : s[l] \in Nodes
  BY <1>3 DEF Chain
<1>5. j \in 1 .. Len(s) /\ j + 1 \in 1 .. Len(s) /\ s[j] \in Nodes /\ s[j + 1] \in Nodes
  BY <1>4
<1>6. ExclusiveEdge(s[j], s[j + 1]) /\ HasKernel(s[j])
  BY <1>3, <1>5 DEF Chain
<1>7. v \in Values /\ ~IsInput(v) /\ Producer(v) = s[j]
  BY <1>2, <1>3, <1>5, ProducerFacts
<1>8. ~ViewOf(v)
  BY <1>6, <1>7 DEF ViewOf, HasKernel
<1>9. v \notin graph.outputs
  BY <1>2, <1>6 DEF ExclusiveEdge
<1>10. s[j] \in ToSet(s) /\ s[j + 1] \in ToSet(s)
  BY <1>4, <1>5 DEF ToSet
<1>11. ASSUME NEW k \in Nodes, v \in ToSet(Inputs(k)) PROVE k \in ToSet(s)
  <2>1. PICK a \in DOMAIN Inputs(k) : Inputs(k)[a] = Out(s[j])
    BY <1>2, <1>11 DEF ToSet
  <2>2. k = s[j + 1]
    BY <1>3, <1>5, <1>6, <2>1, ReadExclusively
  <2> QED BY <1>10, <2>2
<1> QED BY <1>1, <1>7, <1>8, <1>9, <1>10, <1>11

\* No view shows a value that a fused kernel keeps in a register.
LEMMA NoViewOfInternal ==
  ASSUME AnalysisInv, RegionInv, phase \in {"run", "done"},
         NEW v \in Values, Base[v] \in Internal
  PROVE  v = Base[v]
<1>1. graph \in Graphs /\ ToSet(order) = Nodes
  BY WhileRunning
<1> DEFINE P == {w \in Values : Base[w] \in Internal => w = Base[w]}
<1>2. ASSUME NEW w \in Values, IsInput(w) PROVE w \in P
  BY <1>1, <1>2, BaseFacts DEF ViewOf
<1>3. ASSUME NEW k \in Nodes, \A a \in DOMAIN Inputs(k) : Inputs(k)[a] \in P
      PROVE  Out(k) \in P
  <2>1. Out(k) \in Values
    BY <1>1, ProducerFacts
  <2>2. CASE HasKernel(k)
    BY <1>1, <2>1, <2>2, BaseFacts
  <2>3. CASE ~HasKernel(k)
    <3> DEFINE w == Inputs(k)[1]
    <3>1. 1 \in DOMAIN Inputs(k) /\ w \in P
      BY <1>1, <1>3, GraphFacts
    <3>2. Base[Out(k)] = Base[w]
      BY <1>1, <2>3, BaseFacts
    <3>3. ASSUME Base[w] \in Internal PROVE FALSE
      <4>1. w \in Internal /\ w \in ToSet(Inputs(k))
        BY <3>1, <3>3 DEF ToSet
      <4>2. PICK i \in DOMAIN regions : fused[i] /\ k \in ToSet(regions[i])
        BY <4>1, InternalReader
      <4>3. Chain(regions[i])
        BY <4>2, WhileRunning
      <4> QED BY <2>3, <4>2, <4>3 DEF Chain, ToSet
    <3> QED BY <2>1, <3>2, <3>3
  <2> QED BY <2>2, <2>3
<1> HIDE DEF P
<1>4. v \in P
  BY <1>1, <1>2, <1>3, AlongTheOrder DEF P
<1> QED BY <1>4 DEF P

\* No region takes its operands from another's registers, nor does the caller
\* its outputs.
LEMMA NoReadOfInternal ==
  ASSUME AnalysisInv, RegionInv, phase \in {"run", "done"}
  PROVE  /\ \A v \in graph.outputs : Base[v] \in Values /\ Base[v] \notin Internal
         /\ \A i \in DOMAIN regions : \A v \in RegionInputs(regions[i]) :
              Base[v] \notin Internal
         /\ \A i \in DOMAIN regions : ~fused[i] =>
              \A k \in ToSet(regions[i]) : \A v \in ToSet(Inputs(k)) : Base[v] \notin Internal
<1>1. /\ graph \in Graphs /\ ToSet(order) = Nodes
      /\ \A i \in DOMAIN regions : IsRegion(regions[i]) /\ regions[i] \in Seq(Nodes)
      /\ \A i, j \in DOMAIN regions :
           \A k \in ToSet(regions[i]) : k \in ToSet(regions[j]) => i = j
  BY WhileRunning
<1>2. \A i \in DOMAIN regions : \A k \in ToSet(regions[i]) : k \in Nodes
  BY <1>1, RegionFacts
<1>3. ASSUME NEW v \in graph.outputs PROVE Base[v] \in Values /\ Base[v] \notin Internal
  <2>1. v \in Values
    BY <1>1, GraphFacts
  <2>2. Base[v] \in Values
    BY <1>1, <2>1, BaseType
  <2> QED BY <2>1, <2>2, NoViewOfInternal, InternalReader
<1>4. ASSUME NEW i \in DOMAIN regions, NEW v \in RegionInputs(regions[i])
      PROVE  Base[v] \notin Internal
  <2> SUFFICES ASSUME Base[v] \in Internal PROVE FALSE
    OBVIOUS
  <2>1. /\ v \in Values /\ (IsInput(v) \/ Producer(v) \in Nodes \ ToSet(regions[i]))
        /\ \E k \in ToSet(regions[i]) : k \in Nodes /\ v \in ToSet(Inputs(k))
    BY <1>1, RegionInputsFacts
  <2>2. v \in Internal
    BY <2>1, NoViewOfInternal
  <2>3. PICK j \in DOMAIN regions :
          /\ Producer(v) \in ToSet(regions[j])
          /\ \A k \in Nodes : v \in ToSet(Inputs(k)) => k \in ToSet(regions[j])
    BY <2>2, InternalReader
  <2>4. i = j
    BY <1>1, <2>1, <2>3
  <2> QED BY <2>1, <2>2, <2>3, <2>4, InternalReader
<1>5. ASSUME NEW i \in DOMAIN regions, ~fused[i],
             NEW k \in ToSet(regions[i]), NEW v \in ToSet(Inputs(k))
      PROVE  Base[v] \notin Internal
  <2> SUFFICES ASSUME Base[v] \in Internal PROVE FALSE
    OBVIOUS
  <2>1. k \in Nodes
    BY <1>2
  <2>2. v \in Values
    BY <1>1, <2>1, GraphFacts DEF ToSet
  <2>3. v \in Internal
    BY <2>2, NoViewOfInternal
  <2>4. PICK j \in DOMAIN regions : fused[j] /\ k \in ToSet(regions[j])
    BY <2>1, <2>3, InternalReader
  <2> QED BY <1>1, <1>5, <2>4
<1> QED BY <1>3, <1>4, <1>5

\* An unfused region, run from buffers that agree.
LEMMA NodesAgree ==
  ASSUME AnalysisInv, RegionInv, phase \in {"run", "done"},
         NEW i \in DOMAIN regions, ~fused[i],
         NEW X \in SUBSET Values, NEW Y \in SUBSET Values, Agree(X, Y)
  PROVE  Agree(ExecuteNodes(X, regions[i]), ExecuteNodes(Y, regions[i]))
<1> DEFINE s == regions[i]
<1>1. /\ graph \in Graphs /\ ToSet(order) = Nodes /\ IsRegion(s) /\ s \in Seq(Nodes)
  BY WhileRunning
<1>2. /\ Len(s) \in Nat /\ \A j \in 1 .. Len(s) : s[j] \in Nodes /\ s[j] \in ToSet(s)
  BY <1>1, RegionFacts DEF ToSet
<1>3. PICK f \in [0 .. Len(s) -> SUBSET Values] :
        /\ f[0] = X /\ ExecuteNodes(X, s) = f[Len(s)]
        /\ \A j \in 1 .. Len(s) : f[j] = ExecuteNode(f[j - 1], s[j])
  BY ZenonT(60), <1>1, NodesExecute
<1>4. PICK g \in [0 .. Len(s) -> SUBSET Values] :
        /\ g[0] = Y /\ ExecuteNodes(Y, s) = g[Len(s)]
        /\ \A j \in 1 .. Len(s) : g[j] = ExecuteNode(g[j - 1], s[j])
  BY ZenonT(60), <1>1, NodesExecute
<1> DEFINE J == {j \in Nat : j <= Len(s) => Agree(f[j], g[j])}
<1>5. 0 \in J
  BY <1>3, <1>4
<1>6. ASSUME NEW j \in J PROVE j + 1 \in J
  <2> SUFFICES ASSUME j + 1 <= Len(s) PROVE Agree(f[j + 1], g[j + 1])
    OBVIOUS
  <2>1. /\ j \in Nat /\ j + 1 \in 1 .. Len(s) /\ (j + 1) - 1 = j /\ Agree(f[j], g[j])
    BY <1>2
  <2> DEFINE k == s[j + 1]
  <2>2. /\ k \in Nodes /\ k \in ToSet(s)
        /\ f[j + 1] = ExecuteNode(f[j], k) /\ g[j + 1] = ExecuteNode(g[j], k)
    BY <1>2, <1>3, <1>4, <2>1
  <2> HIDE DEF k
  <2>3. \A v \in ToSet(Inputs(k)) : Base[v] \in f[j] <=> Base[v] \in g[j]
    <3>1. ASSUME NEW v \in ToSet(Inputs(k)) PROVE Base[v] \in Values \ Internal
      <4>1. v \in Values
        BY <1>1, <2>2, GraphFacts DEF ToSet
      <4>2. Base[v] \in Values
        BY <1>1, <4>1, BaseType
      <4> QED BY <2>2, <4>2, NoReadOfInternal
    <3> QED BY <2>1, <3>1 DEF Agree
  <2>4. {Base[v] : v \in ToSet(Inputs(k))} \subseteq f[j]
          <=> {Base[v] : v \in ToSet(Inputs(k))} \subseteq g[j]
    BY <2>3
  <2> QED BY <2>1, <2>2, <2>4 DEF ExecuteNode, Compute, Agree
<1>7. J = Nat
  <2> HIDE DEF J
  <2> SUFFICES J \in SUBSET Nat
    BY <1>5, <1>6, Induction
  <2> QED BY DEF J
<1>8. Agree(f[Len(s)], g[Len(s)])
  BY <1>2, <1>7
<1> QED BY <1>3, <1>4, <1>8

\* A fused region: its nodes one by one give the last result right just when
\* every operand from outside is right, as one kernel does.
LEMMA FusedAgrees ==
  ASSUME AnalysisInv, RegionInv, phase \in {"run", "done"},
         NEW i \in DOMAIN regions, fused[i],
         NEW X \in SUBSET Values, NEW Y \in SUBSET Values, Agree(X, Y)
  PROVE  Agree(Execute(X, regions[i], TRUE), ExecuteNodes(Y, regions[i]))
<1> DEFINE s == regions[i]
           n == Len(s)
<1>1. /\ graph \in Graphs /\ ToSet(order) = Nodes
      /\ IsRegion(s) /\ Chain(s) /\ s \in Seq(Nodes)
  BY WhileRunning
<1>2. /\ n \in {2, 3} /\ DOMAIN s = 1 .. n
      /\ \A j \in 1 .. n : s[j] \in Nodes /\ HasKernel(s[j]) /\ s[j] \in ToSet(s)
      /\ \A j, k \in 1 .. n : s[j] = s[k] => j = k
      /\ \A j \in 1 .. n - 1 : ExclusiveEdge(s[j], s[j + 1])
      /\ Last(s) = s[n]
  BY <1>1, RegionFacts DEF Chain, ToSet
<1>3. PICK g \in [0 .. n -> SUBSET Values] :
        /\ g[0] = Y /\ ExecuteNodes(Y, s) = g[n]
        /\ \A j \in 1 .. n : g[j] = ExecuteNode(g[j - 1], s[j])
  BY <1>1, NodesExecute
<1> DEFINE Given(j) == \A l \in 1 .. j : \A v \in ToSet(Inputs(s[l])) :
                         v \in RegionInputs(s) => Base[v] \in Y
           Good(j) == /\ \A v \in Values : (\A l \in 1 .. j : v # Out(s[l])) =>
                                             (v \in g[j] <=> v \in Y)
                      /\ j # 0 => (Out(s[j]) \in g[j] <=> Given(j))
           J == {j \in Nat : j <= n => Good(j)}
<1> HIDE DEF s
<1>4. \A j \in 1 .. n - 1 : Out(s[j]) \in Internal
  <2>1. \A j \in 1 .. n - 1 : Out(s[j]) \in Values
    BY <1>1, <1>2, ProducerFacts
  <2> QED BY <2>1 DEF Internal, s
<1>5. \A v \in RegionInputs(s) : Base[v] \in Values \ Internal
  <2>1. \A v \in RegionInputs(s) : Base[v] \in Values
    BY <1>1, RegionInputsFacts, BaseType
  <2> QED BY <2>1, NoReadOfInternal DEF s
<1>6. 0 \in J
  BY <1>3
<1>7. ASSUME NEW j \in J PROVE j + 1 \in J
  <2> SUFFICES ASSUME j + 1 <= n PROVE Good(j + 1)
    OBVIOUS
  <2>1. /\ j \in Nat /\ j + 1 \in 1 .. n /\ (j + 1) - 1 = j /\ Good(j)
        /\ \A l \in 1 .. j + 1 : l \in 1 .. j \/ l = j + 1
        /\ \A l \in 1 .. j : l \in 1 .. n - 1
    BY <1>2
  <2> DEFINE k == s[j + 1]
  <2>2. k \in Nodes /\ k \in ToSet(s) /\ HasKernel(k)
        /\ g[j + 1] = ExecuteNode(g[j], k)
    BY <1>2, <1>3, <2>1
  <2>3. g[j + 1] = Compute(g[j], ToSet(Inputs(k)), Out(k))
    BY <2>2 DEF ExecuteNode
  <2>4. \A v \in Values : v # Out(k) => (v \in g[j + 1] <=> v \in g[j])
    BY <2>3 DEF Compute
  <2>5. ASSUME NEW v \in RegionInputs(s) PROVE Base[v] \in g[j] <=> Base[v] \in Y
    <3>1. Base[v] \in Values \ Internal
      BY <1>5
    <3>2. \A l \in 1 .. j : Base[v] # Out(s[l])
      BY <1>4, <2>1, <3>1
    <3> QED BY <2>1, <3>1, <3>2
  <2>6. Out(k) \in g[j + 1] <=> \A v \in ToSet(Inputs(k)) : Base[v] \in g[j]
    BY <2>3 DEF Compute
  <2>7. ASSUME NEW v \in ToSet(Inputs(k)), v \notin RegionInputs(s)
        PROVE  j # 0 /\ v = Out(s[j])
    <3>1. ~IsInput(v) /\ Producer(v) \in ToSet(s)
      BY <2>2, <2>7 DEF RegionInputs
    <3> QED BY <1>1, <2>1, <3>1, ReadsInRegion
  <2>8. j # 0 => /\ Out(s[j]) \in ToSet(Inputs(k)) /\ Base[Out(s[j])] = Out(s[j])
                 /\ Out(s[j]) \notin RegionInputs(s)
    <3> SUFFICES ASSUME j # 0
                 PROVE  /\ Out(s[j]) \in ToSet(Inputs(k)) /\ Base[Out(s[j])] = Out(s[j])
                        /\ Out(s[j]) \notin RegionInputs(s)
      OBVIOUS
    <3>1. j \in 1 .. n - 1 /\ j \in 1 .. n /\ s[j] \in Nodes /\ HasKernel(s[j]) /\ s[j] \in ToSet(s)
      BY <1>2, <2>1
    <3>2. ExclusiveEdge(s[j], k)
      BY <1>2, <3>1
    <3>3. s[j] \in ReadsOf(k)
      BY <1>1, <2>2, <3>1, <3>2, ReadExclusively
    <3>4. Out(s[j]) \in ToSet(Inputs(k))
      <4>1. PICK v \in ToSet(Inputs(k)) : ~IsInput(v) /\ Producer(v) = s[j]
        BY <3>3 DEF ReadsOf
      <4>2. v \in Values
        BY <1>1, <2>2, GraphFacts DEF ToSet
      <4>3. Out(s[j]) = v
        BY <1>1, <4>1, <4>2, ProducerFacts
      <4> QED BY <4>3
    <3>5. Base[Out(s[j])] = Out(s[j])
      BY <1>1, <3>1, BaseFacts
    <3>6. Out(s[j]) \notin RegionInputs(s)
      BY <1>1, <3>1, ProducerFacts DEF RegionInputs
    <3> QED BY <3>4, <3>5, <3>6
  <2>9. Given(j + 1) <=> /\ Given(j)
                         /\ \A v \in ToSet(Inputs(k)) : v \in RegionInputs(s) => Base[v] \in Y
    <3>1. \A l \in 1 .. j : l \in 1 .. j + 1
      BY <2>1
    <3>2. j + 1 \in 1 .. j + 1
      BY <2>1
    <3> QED BY <2>1, <3>1, <3>2
  <2>10. Given(0)
    OBVIOUS
  <2>11. Out(k) \in g[j + 1] <=> Given(j + 1)
    <3>1. j # 0 => (Out(s[j]) \in g[j] <=> Given(j))
      BY <2>1
    <3> HIDE DEF Given, k, Good, J
    <3>2. CASE j = 0
      <4>1. \A v \in ToSet(Inputs(k)) : v \in RegionInputs(s)
        BY <2>7, <3>2
      <4> QED BY <2>5, <2>6, <2>9, <2>10, <3>2, <4>1
    <3>3. CASE j # 0
      BY <2>5, <2>6, <2>7, <2>8, <2>9, <3>1, <3>3
    <3> QED BY <3>2, <3>3
  <2>12. \A v \in Values : (\A l \in 1 .. j + 1 : v # Out(s[l])) => (v \in g[j + 1] <=> v \in Y)
    <3>1. \A l \in 1 .. j : l \in 1 .. j + 1
      BY <2>1
    <3>2. j + 1 \in 1 .. j + 1
      BY <2>1
    <3> QED BY <2>1, <2>4, <3>1, <3>2
  <2> HIDE DEF Given
  <2> QED BY <2>11, <2>12
<1>8. J = Nat
  <2> HIDE DEF J
  <2> SUFFICES J \in SUBSET Nat
    BY <1>6, <1>7, Induction
  <2> QED BY DEF J
<1>9. Good(n)
  <2>1. n \in Nat /\ n <= n /\ n \in J
    BY <1>2, <1>8
  <2> HIDE DEF Good
  <2> QED BY <2>1
<1>10. Execute(X, s, TRUE) = Compute(X, RegionInputs(s), Out(s[n]))
  <2>1. RegionOutputs(s) = {Out(s[n])}
    BY <1>1, <1>2, EscapesLast
  <2>2. (CHOOSE v \in RegionOutputs(s) : TRUE) = Out(s[n])
    BY <2>1
  <2> QED BY <2>2 DEF Execute
<1>11. n # 0 /\ n \in 1 .. n /\ \A l \in 1 .. n : l \in 1 .. n - 1 \/ l = n
  <2>1. n \in Nat /\ n # 0
    BY <1>2
  <2> HIDE DEF n
  <2> QED BY <2>1
<1>12. Given(n) <=> \A v \in RegionInputs(s) : Base[v] \in X
  <2>1. Given(n) <=> \A v \in RegionInputs(s) : Base[v] \in Y
    <3>1. ASSUME NEW v \in RegionInputs(s)
          PROVE  \E l \in 1 .. n : v \in ToSet(Inputs(s[l]))
      BY <1>2 DEF RegionInputs, ToSet
    <3> QED BY <3>1
  <2>2. \A v \in RegionInputs(s) : Base[v] \in X <=> Base[v] \in Y
    BY <1>5 DEF Agree
  <2> HIDE DEF Given
  <2> QED BY <2>1, <2>2
<1>13. ASSUME NEW v \in Values \ Internal
       PROVE  v \in Execute(X, s, TRUE) <=> v \in g[n]
  <2>1. CASE v = Out(s[n])
    <3>1. v \in Execute(X, s, TRUE) <=> \A w \in RegionInputs(s) : Base[w] \in X
      BY <1>10, <2>1 DEF Compute
    <3>2. v \in g[n] <=> Given(n)
      BY <1>9, <1>11, <2>1
    <3> HIDE DEF Given
    <3> QED BY <1>12, <3>1, <3>2
  <2>2. CASE v # Out(s[n])
    <3>1. v \in Execute(X, s, TRUE) <=> v \in X
      BY <1>10, <2>2 DEF Compute
    <3>2. \A l \in 1 .. n : v # Out(s[l])
      BY <1>4, <1>11, <1>13, <2>2
    <3>3. v \in g[n] <=> v \in Y
      BY <1>9, <3>2
    <3> QED BY <1>13, <3>1, <3>3 DEF Agree
  <2> QED BY <2>1, <2>2
<1> QED BY <1>3, <1>13 DEF Agree, s

\* u is a run of the regions without a fused kernel.
IsUnfusedRun(u) ==
  u = [i \in 0 .. Len(regions) |->
         IF i = 0 THEN {v \in Values : IsInput(v)} ELSE ExecuteNodes(u[i - 1], regions[i])]

FirstRun ==
  /\ runs \in Nat
  /\ phase \notin {"run", "done"} => runs = 0
  /\ phase = "run" /\ runs = 0 => \A u : IsUnfusedRun(u) => Agree(right, u[pc - 1])
  /\ phase = "done" => runs # 0
  /\ phase = "done" /\ runs = 1 => \A u : IsUnfusedRun(u) => Agree(right, u[Len(regions)])

LEMMA ExecuteNodesType ==
  ASSUME graph \in Graphs, NEW X \in SUBSET Values, NEW s \in Seq(Nodes)
  PROVE  ExecuteNodes(X, s) \in SUBSET Values
<1>1. PICK f \in [0 .. Len(s) -> SUBSET Values] : ExecuteNodes(X, s) = f[Len(s)]
  BY NodesExecute
<1>2. Len(s) \in 0 .. Len(s)
  OBVIOUS
<1> QED BY <1>1, <1>2

LEMMA UnfusedType ==
  ASSUME graph \in Graphs, Len(regions) \in Nat,
         \A i \in 1 .. Len(regions) : regions[i] \in Seq(Nodes),
         NEW u, IsUnfusedRun(u)
  PROVE  /\ u \in [0 .. Len(regions) -> SUBSET Values]
         /\ u[0] = {v \in Values : IsInput(v)}
         /\ \A i \in 1 .. Len(regions) : u[i] = ExecuteNodes(u[i - 1], regions[i])
<1> DEFINE n == Len(regions)
           b == {v \in Values : IsInput(v)}
<1>1. /\ \A i \in 0 .. n : u[i] = IF i = 0 THEN b ELSE ExecuteNodes(u[i - 1], regions[i])
      /\ u = [i \in 0 .. n |-> u[i]]
  BY DEF IsUnfusedRun
<1>2. b \in SUBSET Values
  OBVIOUS
<1>3. u[0] = b /\ \A i \in 1 .. n : u[i] = ExecuteNodes(u[i - 1], regions[i])
  <2>1. 0 \in 0 .. n /\ \A i \in 1 .. n : i \in 0 .. n /\ i # 0
    OBVIOUS
  <2> HIDE DEF n, b
  <2> QED BY <1>1, <2>1
<1> DEFINE J == {k \in Nat : k <= n => u[k] \in SUBSET Values}
<1>4. 0 \in J
  BY <1>3
<1>5. ASSUME NEW k \in J PROVE k + 1 \in J
  <2> SUFFICES ASSUME k + 1 <= n PROVE u[k + 1] \in SUBSET Values
    OBVIOUS
  <2>1. k + 1 \in 1 .. n /\ (k + 1) - 1 = k /\ u[k] \in SUBSET Values
    OBVIOUS
  <2>2. u[k + 1] = ExecuteNodes(u[k], regions[k + 1]) /\ regions[k + 1] \in Seq(Nodes)
    BY <1>3, <2>1
  <2> QED BY <2>1, <2>2, ExecuteNodesType
<1>6. J = Nat
  <2> HIDE DEF J
  <2> SUFFICES J \in SUBSET Nat
    BY <1>4, <1>5, Induction
  <2> QED BY DEF J
<1>7. \A i \in 0 .. n : u[i] \in SUBSET Values
  BY <1>6
<1> HIDE DEF n
<1> QED BY <1>1, <1>3, <1>7 DEF n

LEMMA UnfusedRunIsRun ==
  ASSUME graph \in Graphs, Len(regions) \in Nat,
         \A i \in 1 .. Len(regions) : regions[i] \in Seq(Nodes)
  PROVE  \E u : IsUnfusedRun(u) /\ UnfusedRun(Len(regions)) = u[Len(regions)]
<1> DEFINE n == Len(regions)
           T == SUBSET Values
           b == {v \in Values : IsInput(v)}
           E == [i \in 1 .. n |-> [Y \in T |-> ExecuteNodes(Y, regions[i])]]
           u == CHOOSE w : IsUnfusedRun(w)
<1>1. UnfusedRun(n) = u[n]
  BY DEF UnfusedRun, IsUnfusedRun
<1>2. E \in [1 .. n -> [T -> T]]
  BY ExecuteNodesType
<1>3. /\ \E g : Iterates(g, n, b, E)
      /\ \A g : Iterates(g, n, b, E) => g \in [0 .. n -> T]
  <2>1. b \in T /\ n \in Nat
    OBVIOUS
  <2> HIDE DEF n, T, E, b
  <2> QED BY <1>2, <2>1, IterationExists
<1>4. PICK g : Iterates(g, n, b, E)
  BY <1>3
<1>5. IsUnfusedRun(g)
  <2>1. g \in [0 .. n -> T]
    BY <1>3, <1>4
  <2>2. \A i \in 1 .. n : E[i][g[i - 1]] = ExecuteNodes(g[i - 1], regions[i])
    BY <2>1
  <2>3. /\ \A i \in 0 .. n : g[i] = IF i = 0 THEN b ELSE E[i][g[i - 1]]
        /\ g = [i \in 0 .. n |-> g[i]]
    <3> HIDE DEF E, n, b
    <3> QED BY <1>4 DEF Iterates
  <2>4. \A i \in 0 .. n : g[i] = IF i = 0 THEN b ELSE ExecuteNodes(g[i - 1], regions[i])
    <3>1. \A i \in 0 .. n : i # 0 => i \in 1 .. n
      OBVIOUS
    <3> HIDE DEF E, n, b
    <3> QED BY <2>2, <2>3, <3>1
  <2>5. g = [i \in 0 .. n |-> IF i = 0 THEN b ELSE ExecuteNodes(g[i - 1], regions[i])]
    <3> HIDE DEF E, n, b
    <3> QED BY <2>3, <2>4
  <2> QED BY <2>5 DEF IsUnfusedRun
<1>6. IsUnfusedRun(u)
  BY <1>5
<1> QED BY <1>1, <1>6

LEMMA UnfusedFrame ==
  ASSUME UNCHANGED <<graph, regions, fused>>
  PROVE  /\ \A u : IsUnfusedRun(u)' <=> IsUnfusedRun(u)
         /\ \A X, Y : Agree(X, Y)' <=> Agree(X, Y)
<1>1. /\ Values' = Values /\ Base' = Base /\ \A v : IsInput(v)' <=> IsInput(v)
  BY PlanFrame
<1>2. \A X, s : ExecuteNodes(X, s)' = ExecuteNodes(X, s)
  <2>1. \A X, k : ExecuteNode(X, k)' = ExecuteNode(X, k)
    BY <1>1 DEF ExecuteNode, Compute, HasKernel, Op, Inputs, Out
  <2> QED BY <2>1 DEF ExecuteNodes
<1>3. \A u : IsUnfusedRun(u)' <=> IsUnfusedRun(u)
  BY <1>1, <1>2 DEF IsUnfusedRun
<1>4. Internal' = Internal
  BY <1>1 DEF Internal, Out
<1>5. \A X, Y : Agree(X, Y)' <=> Agree(X, Y)
  BY <1>1, <1>4 DEF Agree
<1> QED BY <1>3, <1>5

LEMMA FirstRunContinues ==
  ASSUME AnalysisInv, RegionInv, RunInv, FirstRun, [Next]_vars
  PROVE  FirstRun'
<1>1. CASE RunUnit
  <2>1. /\ phase = "run" /\ phase' = "run" /\ pc <= Len(regions) /\ runs' = runs
        /\ right' = Execute(right, regions[pc], fused[pc]) /\ pc' = pc + 1
        /\ UNCHANGED <<graph, regions, fused>>
    BY <1>1 DEF RunUnit
  <2>2. /\ graph \in Graphs /\ Len(regions) \in Nat /\ DOMAIN regions = 1 .. Len(regions)
        /\ \A i \in DOMAIN regions : regions[i] \in Seq(Nodes) /\ fused[i] \in BOOLEAN
    BY <2>1, WhileRunning
  <2>3. pc \in DOMAIN regions /\ pc - 1 \in 0 .. Len(regions) /\ (pc + 1) - 1 = pc /\ pc \in 1 .. Len(regions)
    BY <2>1, <2>2 DEF RunInv
  <2>4. ASSUME runs = 0, NEW u, IsUnfusedRun(u) PROVE Agree(right', u[pc])
    <3>1. u[pc] = ExecuteNodes(u[pc - 1], regions[pc]) /\ u[pc - 1] \in SUBSET Values
      BY <2>2, <2>3, <2>4, UnfusedType
    <3>2. Agree(right, u[pc - 1]) /\ right \in SUBSET Values
      BY <2>1, <2>4 DEF FirstRun, RunInv
    <3>3. CASE fused[pc]
      <4>1. right' = Execute(right, regions[pc], TRUE)
        BY <2>1, <3>3 DEF Execute
      <4> QED BY <2>1, <2>3, <3>1, <3>2, <3>3, <4>1, FusedAgrees
    <3>4. CASE ~fused[pc]
      <4>1. right' = ExecuteNodes(right, regions[pc])
        BY <2>1, <3>4 DEF Execute
      <4> QED BY <2>1, <2>3, <3>1, <3>2, <3>4, <4>1, NodesAgree
    <3> QED BY <3>3, <3>4
  <2>5. /\ \A u : IsUnfusedRun(u)' <=> IsUnfusedRun(u)
        /\ \A X, Y : Agree(X, Y)' <=> Agree(X, Y)
    BY <2>1, UnfusedFrame
  <2>6. runs' = 0 => \A u : IsUnfusedRun(u)' => Agree(right, u[pc - 1])'
    <3>1. pc' - 1 = pc
      BY <2>1, <2>3
    <3>2. ASSUME runs' = 0, NEW u, IsUnfusedRun(u)' PROVE Agree(right, u[pc - 1])'
      <4>1. Agree(right', u[pc])
        BY <2>1, <2>4, <2>5, <3>2
      <4>2. Agree(right, u[pc - 1])' <=> Agree(right', u[pc' - 1])
        BY <2>1, UnfusedFrame DEF Agree, Internal, Values, Nodes, Out
      <4> QED BY <3>1, <4>1, <4>2
    <3> QED BY <3>2
  <2> QED BY <2>1, <2>6 DEF FirstRun
<1>2. CASE UnitFails
  <2>1. phase = "run" /\ phase' = "run" /\ runs' = runs + 1
    BY <1>2 DEF UnitFails
  <2> QED BY <2>1 DEF FirstRun
<1>3. CASE Allocate
  <2>1. /\ phase = "tune" /\ runs' = runs /\ UNCHANGED <<graph, regions, fused, pc>>
        /\ \/ phase' = "no alias base"
           \/ phase' = "run" /\ right' = {v \in Values : IsInput(v)}
    BY <1>3 DEF Allocate
  <2>2. pc' = 1 /\ runs = 0 /\ graph \in Graphs
    BY <2>1 DEF RunInv, FirstRun, AnalysisInv
  <2>3. ASSUME phase' = "run", NEW u, IsUnfusedRun(u)' PROVE Agree(right, u[pc - 1])'
    <3>1. IsUnfusedRun(u)
      BY <2>1, <2>3, UnfusedFrame
    <3>2. u[0] = {v \in Values : IsInput(v)}
      <4>1. 0 \in 0 .. Len(regions)
        BY DEF RegionInv
      <4> QED BY <3>1, <4>1 DEF IsUnfusedRun
    <3>3. pc' - 1 = 0
      BY <2>2
    <3>4. right' = u[pc' - 1]
      BY <2>1, <2>3, <3>2, <3>3
    <3> QED BY <3>4 DEF Agree
  <2> QED BY <2>1, <2>2, <2>3 DEF FirstRun
<1>4. CASE EndRun
  <2>1. /\ phase = "run" /\ phase' = "done" /\ runs' = runs + 1 /\ pc > Len(regions)
        /\ UNCHANGED <<graph, regions, fused, right>>
    BY <1>4 DEF EndRun
  <2>2. runs \in Nat /\ Len(regions) \in Nat
    BY DEF FirstRun, RegionInv
  <2>3. pc - 1 = Len(regions)
    BY <2>1, <2>2 DEF RunInv
  <2>4. ASSUME runs = 0, NEW u, IsUnfusedRun(u)' PROVE Agree(right, u[Len(regions)])'
    <3>1. Agree(right, u[Len(regions)])
      BY <2>1, <2>3, <2>4, UnfusedFrame DEF FirstRun
    <3> QED BY <2>1, <3>1, UnfusedFrame DEF Agree, Internal, Values, Nodes, Out
  <2> QED BY <2>1, <2>2, <2>4 DEF FirstRun
<1>5. CASE RunAgain
  <2>1. phase = "done" /\ phase' = "run" /\ runs' = runs
    BY <1>5 DEF RunAgain
  <2> QED BY <2>1 DEF FirstRun
<1>6. CASE Visit \/ EndAnalyze \/ FormRegion \/ EndForm \/ Tune
  <2>1. phase \notin {"run", "done"} /\ phase' \notin {"run", "done"} /\ runs' = runs
    BY <1>6 DEF Visit, EndAnalyze, FormRegion, EndForm, Tune
  <2> QED BY <2>1 DEF FirstRun
<1>7. CASE Done \/ UNCHANGED vars
  <2>1. UNCHANGED <<graph, phase, regions, fused, right, pc, runs>>
    BY <1>7 DEF Done, vars
  <2>2. /\ \A u : IsUnfusedRun(u)' <=> IsUnfusedRun(u)
        /\ \A u : Agree(right, u[pc - 1])' <=> Agree(right, u[pc - 1])
        /\ \A u : Agree(right, u[Len(regions)])' <=> Agree(right, u[Len(regions)])
    BY <2>1, UnfusedFrame DEF Agree, Internal, Values, Nodes, Out
  <2> QED BY <2>1, <2>2 DEF FirstRun
<1> QED BY <1>1, <1>2, <1>3, <1>4, <1>5, <1>6, <1>7 DEF Next

LEMMA FirstRunInvariance == Spec => [](AnalysisInv /\ RegionInv /\ RunInv /\ FirstRun)
<1>1. Init => FirstRun
  BY DEF Init, FirstRun
<1> QED BY <1>1, RunInvariance, FirstRunContinues, PTL DEF Spec

\* A first run gives the same declared outputs right as it would without any
\* fused kernel, late operands or not.
THEOREM FusionIsInvisible == Spec => []FusionKeepsOutputs
<1>1. ASSUME AnalysisInv, RegionInv, RunInv, FirstRun PROVE FusionKeepsOutputs
  <2> SUFFICES ASSUME phase = "done", runs = 1, NEW v \in graph.outputs
               PROVE  Base[v] \in right <=> Base[v] \in UnfusedRun(Len(regions))
    BY DEF FusionKeepsOutputs
  <2>1. /\ graph \in Graphs /\ Len(regions) \in Nat /\ DOMAIN regions = 1 .. Len(regions)
        /\ \A i \in 1 .. Len(regions) : regions[i] \in Seq(Nodes)
    BY <1>1, WhileRunning
  <2>2. PICK u : IsUnfusedRun(u) /\ UnfusedRun(Len(regions)) = u[Len(regions)]
    BY <2>1, UnfusedRunIsRun
  <2>3. Agree(right, u[Len(regions)])
    BY <1>1, <2>2 DEF FirstRun
  <2>4. Base[v] \in Values \ Internal
    BY <1>1, NoReadOfInternal
  <2> QED BY <2>2, <2>3, <2>4 DEF Agree
<1> QED BY <1>1, FirstRunInvariance, PTL
=============================================================================
