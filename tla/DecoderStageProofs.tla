------------------------- MODULE DecoderStageProofs -------------------------
(***************************************************************************)
(* The compiler of the decoder's stages, for any number of layers, any     *)
(* lengths and every outcome of every test: both sequences of a stage      *)
(* compute the decoder, the tests of the fusions are decided by the data   *)
(* that they write, and the audit counts the steps there are.              *)
(***************************************************************************)
EXTENDS DecoderStage, TLAPS, SequenceTheorems, WellFoundedInduction

----------------------------------------------------------------------------
(* Numbers *)

\* A set of numbers that is not empty has a least one.
LEMMA LeastNumber ==
  ASSUME NEW T, T \subseteq Nat, T # {}
  PROVE  \E x \in T : \A y \in T : x <= y
<1> DEFINE L == OpToRel(<, Nat)
<1>1. IsWellFoundedOn(L, Nat)
  BY NatLessThanWellFounded
<1>2. \A x, y \in Nat : x < y => <<x, y>> \in L
  BY DEF OpToRel
<1> HIDE DEF L
<1>3. PICK x \in T : \A y \in T : ~(<<y, x>> \in L)
  BY <1>1, WFMin
<1>4. \A y \in T : ~(y < x)
  BY <1>2, <1>3
<1> QED BY <1>4

\* A set of numbers with 0 and the successor of each of its members is Nat.
LEMMA Induction ==
  ASSUME NEW S \in SUBSET Nat, 0 \in S, \A n \in S : n + 1 \in S
  PROVE  S = Nat
<1> SUFFICES ASSUME S # Nat
             PROVE  FALSE
  OBVIOUS
<1>1. PICK x \in Nat \ S : \A y \in Nat \ S : x <= y
  <2>1. Nat \ S # {}
    OBVIOUS
  <2> QED BY <2>1, LeastNumber
<1>2. x # 0 /\ x - 1 \in Nat
  OBVIOUS
<1>3. x - 1 \in S
  BY <1>1, <1>2
<1> QED BY <1>2, <1>3

----------------------------------------------------------------------------
(* Short sequences *)

\* Where the elements of a sequence stand that is built one by one.
LEMMA AppendSecond ==
  ASSUME NEW a, NEW b
  PROVE  Append(<<a>>, b) = <<a, b>>
<1> DEFINE T == {a, b}
           s == Append(<<a>>, b)
           t == <<a, b>>
<1>1. s \in Seq(T) /\ t \in Seq(T) /\ Len(s) = 2 /\ Len(t) = 2
  OBVIOUS
<1>2. \A i \in 1 .. 2 : s[i] = t[i]
  OBVIOUS
<1> HIDE DEF s, t, T
<1>3. s = t
  BY <1>1, <1>2, SeqEqual
<1> QED BY <1>3 DEF s, t

LEMMA AppendThird ==
  ASSUME NEW a, NEW b, NEW c
  PROVE  Append(<<a, b>>, c) = <<a, b, c>>
<1> DEFINE T == {a, b, c}
           s == Append(<<a, b>>, c)
           t == <<a, b, c>>
<1>1. s \in Seq(T) /\ t \in Seq(T) /\ Len(s) = 3 /\ Len(t) = 3
  OBVIOUS
<1>2. \A i \in 1 .. 3 : s[i] = t[i]
  OBVIOUS
<1> HIDE DEF s, t, T
<1>3. s = t
  BY <1>1, <1>2, SeqEqual
<1> QED BY <1>3 DEF s, t

LEMMA AppendFourth ==
  ASSUME NEW a, NEW b, NEW c, NEW d
  PROVE  Append(<<a, b, c>>, d) = <<a, b, c, d>>
<1> DEFINE T == {a, b, c, d}
           s == Append(<<a, b, c>>, d)
           t == <<a, b, c, d>>
<1>1. s \in Seq(T) /\ t \in Seq(T) /\ Len(s) = 4 /\ Len(t) = 4
  OBVIOUS
<1>2. \A i \in 1 .. 4 : s[i] = t[i]
  OBVIOUS
<1> HIDE DEF s, t, T
<1>3. s = t
  BY <1>1, <1>2, SeqEqual
<1> QED BY <1>3 DEF s, t

LEMMA AppendFifth ==
  ASSUME NEW a, NEW b, NEW c, NEW d, NEW e
  PROVE  Append(<<a, b, c, d>>, e) = <<a, b, c, d, e>>
<1> DEFINE T == {a, b, c, d, e}
           s == Append(<<a, b, c, d>>, e)
           t == <<a, b, c, d, e>>
<1>1. s \in Seq(T) /\ t \in Seq(T) /\ Len(s) = 5 /\ Len(t) = 5
  OBVIOUS
<1>2. \A i \in 1 .. 5 : s[i] = t[i]
  OBVIOUS
<1> HIDE DEF s, t, T
<1>3. s = t
  BY <1>1, <1>2, SeqEqual
<1> QED BY <1>3 DEF s, t

----------------------------------------------------------------------------
(* A sequence of steps runs one step after the other. *)

\* f[i] is the memory after the first i of the n entries of s.
Runs(f, m, s, n, rows) ==
  f = [i \in 0 .. n |-> IF i = 0 THEN m ELSE Stepped(f[i - 1], s[i].step, rows)]

\* The memories along a run of steps exist.
LEMMA RunExists ==
  ASSUME NEW m, NEW s, NEW rows, NEW n \in Nat
  PROVE  \E f : Runs(f, m, s, n, rows)
<1> DEFINE I == {k \in Nat : \E f : Runs(f, m, s, k, rows)}
           After(h, i) == IF i = 0 THEN m ELSE Stepped(h[i - 1], s[i].step, rows)
<1>1. 0 \in I
  <2> DEFINE f == [i \in 0 .. 0 |-> m]
  <2>1. f = [i \in 0 .. 0 |-> After(f, i)]
    OBVIOUS
  <2> HIDE DEF f
  <2> QED BY <2>1 DEF Runs
<1>2. ASSUME NEW k \in I PROVE k + 1 \in I
  <2>1. PICK f : Runs(f, m, s, k, rows)
    OBVIOUS
  <2> DEFINE g == [i \in 0 .. k + 1 |-> After(f, i)]
  <2>2. \A i \in 0 .. k : f[i] = After(f, i)
    BY <2>1 DEF Runs
  <2>3. k \in Nat /\ \A i \in 0 .. k + 1 : i # 0 => i - 1 \in 0 .. k
    OBVIOUS
  <2>4. \A i \in 0 .. k : g[i] = f[i]
    <3> HIDE DEF After
    <3> QED BY <2>2, <2>3
  <2>5. \A i \in 0 .. k + 1 : After(g, i) = After(f, i)
    <3> HIDE DEF g
    <3> QED BY <2>3, <2>4
  <2>6. g = [i \in 0 .. k + 1 |-> After(g, i)]
    <3>1. \A i \in 0 .. k + 1 : g[i] = After(f, i)
      <4> HIDE DEF After
      <4> QED OBVIOUS
    <3>2. g = [i \in 0 .. k + 1 |-> g[i]]
      OBVIOUS
    <3> HIDE DEF g, After
    <3> QED BY <2>5, <3>1, <3>2
  <2> HIDE DEF g
  <2>7. Runs(g, m, s, k + 1, rows)
    BY <2>6 DEF Runs
  <2> QED BY <2>3, <2>7
<1>3. I = Nat
  <2> HIDE DEF I
  <2> SUFFICES I \in SUBSET Nat
    BY <1>1, <1>2, Induction
  <2> QED BY DEF I
<1> QED BY <1>3

\* What a run has done depends on the entries it has come to only.
LEMMA RunsAgree ==
  ASSUME NEW m, NEW rows, NEW s, NEW t, NEW n \in Nat, NEW k \in Nat, n <= k,
         \A i \in 1 .. n : s[i] = t[i],
         NEW f, NEW g, Runs(f, m, s, n, rows), Runs(g, m, t, k, rows)
  PROVE  f[n] = g[n]
<1>1. /\ \A j \in 0 .. n : f[j] = IF j = 0 THEN m ELSE Stepped(f[j - 1], s[j].step, rows)
      /\ \A j \in 0 .. k : g[j] = IF j = 0 THEN m ELSE Stepped(g[j - 1], t[j].step, rows)
  BY DEF Runs
<1> DEFINE J == {j \in Nat : j <= n => f[j] = g[j]}
<1>2. 0 \in J
  BY <1>1
<1>3. ASSUME NEW j \in J PROVE j + 1 \in J
  <2> SUFFICES ASSUME j + 1 <= n PROVE f[j + 1] = g[j + 1]
    OBVIOUS
  <2>1. /\ j + 1 \in 0 .. n /\ j + 1 \in 0 .. k /\ j + 1 \in 1 .. n /\ j + 1 # 0
        /\ (j + 1) - 1 = j /\ f[j] = g[j]
    OBVIOUS
  <2>2. f[j + 1] = Stepped(f[j], s[j + 1].step, rows)
    BY <1>1, <2>1
  <2>3. g[j + 1] = Stepped(g[j], t[j + 1].step, rows)
    BY <1>1, <2>1
  <2>4. s[j + 1] = t[j + 1]
    BY <2>1
  <2> QED BY <2>1, <2>2, <2>3, <2>4
<1>4. J = Nat
  <2> HIDE DEF J
  <2> SUFFICES J \in SUBSET Nat
    BY <1>2, <1>3, Induction
  <2> QED BY DEF J
<1> QED BY <1>4

\* What a sequence of steps executes is the end of its run.
LEMMA ExecuteRuns ==
  ASSUME NEW m, NEW rows, NEW s, NEW n \in Nat, Len(s) = n
  PROVE  \E f : Runs(f, m, s, n, rows) /\ Execute(m, s, rows) = f[n]
<1> DEFINE f == CHOOSE h : Runs(h, m, s, n, rows)
<1>1. Execute(m, s, rows) = f[n]
  BY DEF Execute, Runs
<1>2. Runs(f, m, s, n, rows)
  <2> HIDE DEF Runs
  <2> QED BY RunExists
<1> QED BY <1>1, <1>2

\* No step changes nothing.
LEMMA ExecuteNothing ==
  ASSUME NEW m, NEW rows
  PROVE  Execute(m, <<>>, rows) = m
<1>1. Len(<<>>) = 0
  OBVIOUS
<1>2. PICK f : Runs(f, m, <<>>, 0, rows) /\ Execute(m, <<>>, rows) = f[0]
  BY <1>1, ExecuteRuns
<1> QED BY <1>2 DEF Runs

\* A step more is a step of the memory so far.
LEMMA ExecuteAppend ==
  ASSUME NEW m, NEW rows, NEW T, NEW s \in Seq(T), NEW e \in T
  PROVE  Execute(m, Append(s, e), rows) = Stepped(Execute(m, s, rows), e.step, rows)
<1> DEFINE t == Append(s, e)
           n == Len(s)
<1>1. /\ n \in Nat /\ n + 1 \in Nat /\ Len(t) = n + 1 /\ t[n + 1] = e
      /\ \A i \in 1 .. n : s[i] = t[i]
  OBVIOUS
<1> HIDE DEF t, n
<1>2. PICK f : Runs(f, m, s, n, rows) /\ Execute(m, s, rows) = f[n]
  BY <1>1, ExecuteRuns DEF n
<1>3. PICK g : Runs(g, m, t, n + 1, rows) /\ Execute(m, t, rows) = g[n + 1]
  BY <1>1, ExecuteRuns
<1>4. f[n] = g[n]
  <2>1. n <= n + 1
    BY <1>1
  <2> QED BY <1>1, <1>2, <1>3, <2>1, RunsAgree
<1>5. g[n + 1] = Stepped(g[n], t[n + 1].step, rows)
  <2>1. n + 1 \in 0 .. n + 1 /\ n + 1 # 0 /\ (n + 1) - 1 = n
    BY <1>1
  <2>2. \A j \in 0 .. n + 1 : g[j] = IF j = 0 THEN m ELSE Stepped(g[j - 1], t[j].step, rows)
    BY <1>3 DEF Runs
  <2> QED BY <2>1, <2>2
<1> QED BY <1>1, <1>2, <1>3, <1>4, <1>5 DEF t

\* Two sequences in a row: the second one executes over what the first one left.
LEMMA ExecuteConcat ==
  ASSUME NEW m, NEW rows, NEW T, NEW s \in Seq(T), NEW t \in Seq(T)
  PROVE  Execute(m, s \o t, rows) = Execute(Execute(m, s, rows), t, rows)
<1> DEFINE U(k) == SubSeq(t, 1, k)
           K == {k \in Nat : k <= Len(t) =>
                   Execute(m, s \o U(k), rows) = Execute(Execute(m, s, rows), U(k), rows)}
<1>1. 0 \in K
  <2>1. U(0) = <<>> /\ s \o U(0) = s
    OBVIOUS
  <2> QED BY <2>1, ExecuteNothing
<1>2. ASSUME NEW k \in K PROVE k + 1 \in K
  <2> SUFFICES ASSUME k + 1 <= Len(t)
               PROVE  Execute(m, s \o U(k + 1), rows)
                        = Execute(Execute(m, s, rows), U(k + 1), rows)
    OBVIOUS
  <2>1. /\ U(k) \in Seq(T) /\ t[k + 1] \in T /\ U(k + 1) = Append(U(k), t[k + 1])
        /\ s \o U(k) \in Seq(T) /\ s \o U(k + 1) = Append(s \o U(k), t[k + 1])
        /\ Execute(m, s \o U(k), rows) = Execute(Execute(m, s, rows), U(k), rows)
    OBVIOUS
  <2> HIDE DEF U
  <2>2. Execute(m, s \o U(k + 1), rows)
          = Stepped(Execute(m, s \o U(k), rows), t[k + 1].step, rows)
    BY ZenonT(60), <2>1, ExecuteAppend
  <2>3. ASSUME NEW x PROVE Execute(x, U(k + 1), rows)
                             = Stepped(Execute(x, U(k), rows), t[k + 1].step, rows)
    <3>1. Execute(x, Append(U(k), t[k + 1]), rows)
            = Stepped(Execute(x, U(k), rows), t[k + 1].step, rows)
      BY <2>1, ExecuteAppend
    <3> QED BY <2>1, <3>1
  <2> QED BY <2>1, <2>2, <2>3
<1>3. K = Nat
  <2> HIDE DEF K
  <2> SUFFICES K \in SUBSET Nat
    BY <1>1, <1>2, Induction
  <2> QED BY DEF K
<1>4. Len(t) \in K /\ Len(t) <= Len(t) /\ U(Len(t)) = t
  BY <1>3
<1>5. Execute(m, s \o U(Len(t)), rows) = Execute(Execute(m, s, rows), U(Len(t)), rows)
  BY <1>4
<1> QED BY <1>4, <1>5

----------------------------------------------------------------------------
(* A step leaves all but its outputs alone. *)

IsMemory(m) == m = [b \in Buffers |-> m[b]]

\* Memory a is m but for buffer o, which holds v.
Written(m, a, o, v) == /\ IsMemory(a) /\ a[o] = v
                       /\ \A b \in Buffers : b # o => a[b] = m[b]

\* What a step with the contents a of its inputs and `old' of its outputs makes.
LEMMA OneOutput ==
  ASSUME NEW m, NEW kernel, NEW in, NEW o \in Buffers, NEW rows, NEW v,
         Results(kernel, [i \in DOMAIN in |-> m[in[i]]], [i \in 1 .. 1 |-> m[o]], rows)[1] = v
  PROVE  Written(m, Stepped(m, Step(kernel, in, <<o>>), rows), o, v)
<1> DEFINE s == Step(kernel, in, <<o>>)
           old == [i \in DOMAIN s.out |-> m[s.out[i]]]
           R == Results(s.kernel, [i \in DOMAIN s.in |-> m[s.in[i]]], old, rows)
           D == {i \in DOMAIN s.out : s.out[i] = o}
           a == Stepped(m, s, rows)
<1>1. s.kernel = kernel /\ s.in = in /\ s.out = <<o>> /\ DOMAIN s.out = 1 .. 1 /\ s.out[1] = o
  BY DEF Step
<1>2. old = [i \in 1 .. 1 |-> m[o]]
  BY <1>1
<1>3. R[1] = v
  BY <1>1, <1>2
<1>4. \A b \in Buffers : (\E i \in DOMAIN s.out : s.out[i] = b) <=> b = o
  BY <1>1
<1>5. (CHOOSE i \in DOMAIN s.out : s.out[i] = o) = 1
  BY <1>1
<1>6. a = [b \in Buffers |-> IF \E i \in DOMAIN s.out : s.out[i] = b
                             THEN R[CHOOSE i \in DOMAIN s.out : s.out[i] = b] ELSE m[b]]
  BY DEF Stepped
<1> HIDE DEF s, R, a
<1>7. a[o] = v /\ \A b \in Buffers : b # o => a[b] = m[b]
  BY <1>3, <1>4, <1>5, <1>6
<1>8. IsMemory(a)
  BY <1>6 DEF IsMemory
<1> QED BY <1>7, <1>8 DEF Written, a, s

\* What each kernel with one output writes.
LEMMA NormStep ==
  ASSUME NEW m, NEW x, NEW w, NEW o \in Buffers, NEW rows
  PROVE  Written(m, Stepped(m, Step("norm", <<x, w>>, <<o>>), rows), o, Norm(m[x], m[w]))
<1>1. Results("norm", [i \in DOMAIN <<x, w>> |-> m[<<x, w>>[i]]], [i \in 1 .. 1 |-> m[o]], rows)[1]
        = Norm(m[x], m[w])
  BY DEF Results, emitDecoderRMSNorm
<1> QED BY <1>1, OneOutput

LEMMA LinearStep ==
  ASSUME NEW m, NEW x, NEW w, NEW o \in Buffers, NEW rows
  PROVE  Written(m, Stepped(m, Step("linear", <<x, w>>, <<o>>), rows), o, Product(m[x], m[w]))
<1>1. Results("linear", [i \in DOMAIN <<x, w>> |-> m[<<x, w>>[i]]], [i \in 1 .. 1 |-> m[o]], rows)[1]
        = Product(m[x], m[w])
  BY DEF Results, emitLinear
<1> QED BY <1>1, OneOutput

LEMMA RoPEStep ==
  ASSUME NEW m, NEW x, NEW n, NEW o \in Buffers, NEW rows, Valid(m[n], rows)
  PROVE  Written(m, Stepped(m, Step("rope", <<x, n>>, <<o>>), rows), o, Rotated(m[x], m[n]))
<1>1. Results("rope", [i \in DOMAIN <<x, n>> |-> m[<<x, n>>[i]]], [i \in 1 .. 1 |-> m[o]], rows)[1]
        = Rotated(m[x], m[n])
  BY DEF Results, emitDecoderRoPE
<1> QED BY <1>1, OneOutput

LEMMA EmbeddingStep ==
  ASSUME NEW m, NEW x, NEW w, NEW o \in Buffers, NEW rows
  PROVE  Written(m, Stepped(m, Step("embedding", <<x, w>>, <<o>>), rows), o,
                 Embedding(m[x], m[w]))
<1>1. Results("embedding", [i \in DOMAIN <<x, w>> |-> m[<<x, w>>[i]]], [i \in 1 .. 1 |-> m[o]],
              rows)[1] = Embedding(m[x], m[w])
  BY DEF Results, emitDecoderEmbedding
<1> QED BY <1>1, OneOutput

LEMMA AppendStep ==
  ASSUME NEW m, NEW x, NEW n, NEW p, NEW o \in Buffers, NEW rows, Reachable(m[n], m[p], rows)
  PROVE  Written(m, Stepped(m, Step("append", <<x, n, p>>, <<o>>), rows), o,
                 Appended(m[o], m[x], m[n], m[p]))
<1>1. Results("append", [i \in DOMAIN <<x, n, p>> |-> m[<<x, n, p>>[i]]], [i \in 1 .. 1 |-> m[o]],
              rows)[1] = Appended(m[o], m[x], m[n], m[p])
  BY DEF Results, emitDecoderCacheAppend
<1> QED BY <1>1, OneOutput

LEMMA AttentionStep ==
  ASSUME NEW m, NEW q, NEW k, NEW v, NEW n, NEW p, NEW o \in Buffers, NEW rows,
         Reachable(m[n], m[p], rows)
  PROVE  Written(m, Stepped(m, Step("attention", <<q, k, v, n, p>>, <<o>>), rows), o,
                 Attended(m[q], m[k], m[v], m[n], m[p]))
<1>1. Results("attention", [i \in DOMAIN <<q, k, v, n, p>> |-> m[<<q, k, v, n, p>>[i]]], [i \in 1 .. 1 |-> m[o]],
              rows)[1] = Attended(m[q], m[k], m[v], m[n], m[p])
  BY DEF Results, emitKVAttention
<1> QED BY <1>1, OneOutput

LEMMA AddStep ==
  ASSUME NEW m, NEW x, NEW y, NEW o \in Buffers, NEW rows
  PROVE  Written(m, Stepped(m, Step("add", <<x, y>>, <<o>>), rows), o,
                 Added(m[x], m[y]))
<1>1. Results("add", [i \in DOMAIN <<x, y>> |-> m[<<x, y>>[i]]], [i \in 1 .. 1 |-> m[o]],
              rows)[1] = Added(m[x], m[y])
  BY DEF Results, emitDecoderAdd
<1> QED BY <1>1, OneOutput

LEMMA SiLUMulStep ==
  ASSUME NEW m, NEW x, NEW y, NEW o \in Buffers, NEW rows
  PROVE  Written(m, Stepped(m, Step("silu mul", <<x, y>>, <<o>>), rows), o,
                 Gated(m[x], m[y]))
<1>1. Results("silu mul", [i \in DOMAIN <<x, y>> |-> m[<<x, y>>[i]]], [i \in 1 .. 1 |-> m[o]],
              rows)[1] = Gated(m[x], m[y])
  BY DEF Results, emitDecoderSiLUMul
<1> QED BY <1>1, OneOutput

LEMMA GatedMLPStep ==
  ASSUME NEW m, NEW x, NEW g, NEW u, NEW o \in Buffers, NEW rows
  PROVE  Written(m, Stepped(m, Step("gated mlp", <<x, g, u>>, <<o>>), rows), o,
                 Gated(Product(m[x], m[g]), Product(m[x], m[u])))
<1>1. Results("gated mlp", [i \in DOMAIN <<x, g, u>> |-> m[<<x, g, u>>[i]]], [i \in 1 .. 1 |-> m[o]],
              rows)[1] = Gated(Product(m[x], m[g]), Product(m[x], m[u]))
  BY DEF Results, emitDecoderGatedMLP
<1> QED BY <1>1, OneOutput

LEMMA LinearResidualStep ==
  ASSUME NEW m, NEW x, NEW w, NEW y, NEW o \in Buffers, NEW rows
  PROVE  Written(m, Stepped(m, Step("linear residual", <<x, w, y>>, <<o>>), rows), o,
                 Added(m[y], Product(m[x], m[w])))
<1>1. Results("linear residual", [i \in DOMAIN <<x, w, y>> |-> m[<<x, w, y>>[i]]], [i \in 1 .. 1 |-> m[o]],
              rows)[1] = Added(m[y], Product(m[x], m[w]))
  BY DEF Results, emitLinearResidual
<1> QED BY <1>1, OneOutput

LEMMA AttentionOutputStep ==
  ASSUME NEW m, NEW q, NEW k, NEW v, NEW n, NEW p, NEW w, NEW o \in Buffers, NEW rows,
         Reachable(m[n], m[p], rows)
  PROVE  Written(m, Stepped(m, Step("attention output", <<q, k, v, n, p, w>>, <<o>>), rows), o,
                 Product(Attended(m[q], m[k], m[v], m[n], m[p]), m[w]))
<1>1. Results("attention output", [i \in DOMAIN <<q, k, v, n, p, w>> |-> m[<<q, k, v, n, p, w>>[i]]], [i \in 1 .. 1 |-> m[o]],
              rows)[1] = Product(Attended(m[q], m[k], m[v], m[n], m[p]), m[w])
  BY DEF Results, emitPagedAttentionOutputProjection
<1> QED BY <1>1, OneOutput

LEMMA ArgmaxStep ==
  ASSUME NEW m, NEW x, NEW o \in Buffers, NEW rows
  PROVE  Written(m, Stepped(m, Step("argmax", <<x>>, <<o>>), rows), o,
                 Largest(m[x]))
<1>1. Results("argmax", [i \in DOMAIN <<x>> |-> m[<<x>>[i]]], [i \in 1 .. 1 |-> m[o]],
              rows)[1] = Largest(m[x])
  BY DEF Results, emitTokenArgmax
<1> QED BY <1>1, OneOutput

\* Only values and tokens of the same logits have a largest.
LEMMA FinalArgmaxStep ==
  ASSUME NEW m, NEW x, NEW y, NEW o \in Buffers, NEW rows, NEW logits,
         m[x] = <<"values", logits>>, m[y] = <<"tokens", logits>>
  PROVE  Written(m, Stepped(m, Step("final argmax", <<x, y>>, <<o>>), rows), o, Largest(logits))
<1>1. Results("final argmax", [i \in DOMAIN <<x, y>> |-> m[<<x, y>>[i]]], [i \in 1 .. 1 |-> m[o]],
              rows)[1] = Largest(logits)
  BY DEF Results, emitLMHeadFinalArgmax
<1> QED BY <1>1, OneOutput

\* Memory a is m but for the buffers of out, which hold R.
Filled(m, a, out, R) ==
  /\ IsMemory(a) /\ \A i \in DOMAIN out : a[out[i]] = R[i]
  /\ \A b \in Buffers : (\A i \in DOMAIN out : b # out[i]) => a[b] = m[b]

LEMMA Outputs ==
  ASSUME NEW m, NEW kernel, NEW in, NEW out, NEW rows,
         \A i \in DOMAIN out : out[i] \in Buffers,
         \A i, j \in DOMAIN out : out[i] = out[j] => i = j,
         NEW R, \A j \in DOMAIN out :
                  Results(kernel, [i \in DOMAIN in |-> m[in[i]]],
                          [i \in DOMAIN out |-> m[out[i]]], rows)[j] = R[j]
  PROVE  Filled(m, Stepped(m, Step(kernel, in, out), rows), out, R)
<1> DEFINE s == Step(kernel, in, out)
           a == Stepped(m, s, rows)
           Q == Results(kernel, [i \in DOMAIN in |-> m[in[i]]],
                        [i \in DOMAIN out |-> m[out[i]]], rows)
<1>1. s.kernel = kernel /\ s.in = in /\ s.out = out
  BY DEF Step
<1>2. a = [b \in Buffers |-> IF \E i \in DOMAIN out : out[i] = b
                             THEN Q[CHOOSE i \in DOMAIN out : out[i] = b] ELSE m[b]]
  BY <1>1 DEF Stepped
<1>3. ASSUME NEW i \in DOMAIN out PROVE (CHOOSE j \in DOMAIN out : out[j] = out[i]) = i
  OBVIOUS
<1> HIDE DEF s, a, Q
<1>6. \A i \in DOMAIN out : Q[i] = R[i]
  BY DEF Q
<1>4. ASSUME NEW i \in DOMAIN out PROVE a[out[i]] = R[i]
  BY <1>2, <1>3, <1>6
<1>5. IsMemory(a) /\ \A b \in Buffers : (\A i \in DOMAIN out : b # out[i]) => a[b] = m[b]
  BY <1>2 DEF IsMemory
<1> QED BY <1>4, <1>5 DEF Filled, a, s

\* Memory a is m but for two or three buffers.
WrittenTwo(m, a, o1, v1, o2, v2) ==
  /\ IsMemory(a) /\ a[o1] = v1 /\ a[o2] = v2
  /\ \A b \in Buffers : b # o1 /\ b # o2 => a[b] = m[b]
WrittenThree(m, a, o1, v1, o2, v2, o3, v3) ==
  /\ IsMemory(a) /\ a[o1] = v1 /\ a[o2] = v2 /\ a[o3] = v3
  /\ \A b \in Buffers : b # o1 /\ b # o2 /\ b # o3 => a[b] = m[b]

\* What each kernel with two or three outputs writes.
LEMMA QueryKeyRoPEStep ==
  ASSUME NEW m, NEW x, NEW y, NEW n, NEW o1 \in Buffers, NEW o2 \in Buffers, NEW rows,
         o1 # o2, Valid(m[n], rows)
  PROVE  WrittenTwo(m, Stepped(m, Step("query key rope", <<x, y, n>>, <<o1, o2>>), rows),
                    o1, Rotated(m[x], m[n]),
                    o2, Rotated(m[y], m[n]))
<1> DEFINE in == <<x, y, n>>
           out == <<o1, o2>>
           R == Results("query key rope", [i \in DOMAIN in |-> m[in[i]]],
                        [i \in DOMAIN out |-> m[out[i]]], rows)
<1>1. /\ R[1] = Rotated(m[x], m[n])
      /\ R[2] = Rotated(m[y], m[n])
  BY DEF Results, QueryKeyRoPE, Turned
<1>2. /\ DOMAIN out = 1 .. 2 /\ out[1] = o1 /\ out[2] = o2
      /\ \A i \in DOMAIN out : out[i] \in Buffers
      /\ \A i, j \in DOMAIN out : out[i] = out[j] => i = j
  OBVIOUS
<1> DEFINE a == Stepped(m, Step("query key rope", in, out), rows)
<1> HIDE DEF R, in, out
<1>3. Filled(m, a, out, R)
  <2>1. \A j \in DOMAIN out : Results("query key rope", [i \in DOMAIN in |-> m[in[i]]],
                                     [i \in DOMAIN out |-> m[out[i]]], rows)[j] = R[j]
    BY DEF R
  <2> QED BY <1>2, <2>1, Outputs
<1> HIDE DEF a
<1>4. a[o1] = R[1] /\ a[o2] = R[2]
  <2>1. 1 \in DOMAIN out /\ 2 \in DOMAIN out
    BY <1>2
  <2> QED BY <1>2, <1>3, <2>1 DEF Filled
<1>5. \A b \in Buffers : b # o1 /\ b # o2 => a[b] = m[b]
  <2>1. \A i \in DOMAIN out : out[i] = o1 \/ out[i] = o2
    BY <1>2
  <2> QED BY <1>3, <2>1 DEF Filled
<1> QED BY <1>1, <1>3, <1>4, <1>5 DEF Filled, WrittenTwo, a, in, out

LEMMA ResidualNormStep ==
  ASSUME NEW m, NEW x, NEW y, NEW w, NEW o1 \in Buffers, NEW o2 \in Buffers, NEW rows,
         o1 # o2
  PROVE  WrittenTwo(m, Stepped(m, Step("residual norm", <<x, y, w>>, <<o1, o2>>), rows),
                    o1, Added(m[x], m[y]),
                    o2, Norm(Added(m[x], m[y]), m[w]))
<1> DEFINE in == <<x, y, w>>
           out == <<o1, o2>>
           R == Results("residual norm", [i \in DOMAIN in |-> m[in[i]]],
                        [i \in DOMAIN out |-> m[out[i]]], rows)
<1>1. /\ R[1] = Added(m[x], m[y])
      /\ R[2] = Norm(Added(m[x], m[y]), m[w])
  BY DEF Results, emitDecoderResidualRMSNorm
<1>2. /\ DOMAIN out = 1 .. 2 /\ out[1] = o1 /\ out[2] = o2
      /\ \A i \in DOMAIN out : out[i] \in Buffers
      /\ \A i, j \in DOMAIN out : out[i] = out[j] => i = j
  OBVIOUS
<1> DEFINE a == Stepped(m, Step("residual norm", in, out), rows)
<1> HIDE DEF R, in, out
<1>3. Filled(m, a, out, R)
  <2>1. \A j \in DOMAIN out : Results("residual norm", [i \in DOMAIN in |-> m[in[i]]],
                                     [i \in DOMAIN out |-> m[out[i]]], rows)[j] = R[j]
    BY DEF R
  <2> QED BY <1>2, <2>1, Outputs
<1> HIDE DEF a
<1>4. a[o1] = R[1] /\ a[o2] = R[2]
  <2>1. 1 \in DOMAIN out /\ 2 \in DOMAIN out
    BY <1>2
  <2> QED BY <1>2, <1>3, <2>1 DEF Filled
<1>5. \A b \in Buffers : b # o1 /\ b # o2 => a[b] = m[b]
  <2>1. \A i \in DOMAIN out : out[i] = o1 \/ out[i] = o2
    BY <1>2
  <2> QED BY <1>3, <2>1 DEF Filled
<1> QED BY <1>1, <1>3, <1>4, <1>5 DEF Filled, WrittenTwo, a, in, out

LEMMA PartialArgmaxStep ==
  ASSUME NEW m, NEW x, NEW w, NEW o1 \in Buffers, NEW o2 \in Buffers, NEW rows,
         o1 # o2
  PROVE  WrittenTwo(m, Stepped(m, Step("partial argmax", <<x, w>>, <<o1, o2>>), rows),
                    o1, <<"values", Product(m[x], m[w])>>,
                    o2, <<"tokens", Product(m[x], m[w])>>)
<1> DEFINE in == <<x, w>>
           out == <<o1, o2>>
           R == Results("partial argmax", [i \in DOMAIN in |-> m[in[i]]],
                        [i \in DOMAIN out |-> m[out[i]]], rows)
<1>1. /\ R[1] = <<"values", Product(m[x], m[w])>>
      /\ R[2] = <<"tokens", Product(m[x], m[w])>>
  BY DEF Results, emitLMHeadPartialArgmax
<1>2. /\ DOMAIN out = 1 .. 2 /\ out[1] = o1 /\ out[2] = o2
      /\ \A i \in DOMAIN out : out[i] \in Buffers
      /\ \A i, j \in DOMAIN out : out[i] = out[j] => i = j
  OBVIOUS
<1> DEFINE a == Stepped(m, Step("partial argmax", in, out), rows)
<1> HIDE DEF R, in, out
<1>3. Filled(m, a, out, R)
  <2>1. \A j \in DOMAIN out : Results("partial argmax", [i \in DOMAIN in |-> m[in[i]]],
                                     [i \in DOMAIN out |-> m[out[i]]], rows)[j] = R[j]
    BY DEF R
  <2> QED BY <1>2, <2>1, Outputs
<1> HIDE DEF a
<1>4. a[o1] = R[1] /\ a[o2] = R[2]
  <2>1. 1 \in DOMAIN out /\ 2 \in DOMAIN out
    BY <1>2
  <2> QED BY <1>2, <1>3, <2>1 DEF Filled
<1>5. \A b \in Buffers : b # o1 /\ b # o2 => a[b] = m[b]
  <2>1. \A i \in DOMAIN out : out[i] = o1 \/ out[i] = o2
    BY <1>2
  <2> QED BY <1>3, <2>1 DEF Filled
<1> QED BY <1>1, <1>3, <1>4, <1>5 DEF Filled, WrittenTwo, a, in, out

LEMMA NormQKVStep ==
  ASSUME NEW m, NEW x, NEW q, NEW k, NEW v, NEW w, NEW o1 \in Buffers, NEW o2 \in Buffers,
         NEW o3 \in Buffers, NEW rows,
         o1 # o2, o1 # o3, o2 # o3
  PROVE  WrittenThree(m, Stepped(m, Step("norm qkv", <<x, q, k, v, w>>, <<o1, o2, o3>>), rows),
                    o1, Product(Norm(m[x], m[w]), m[q]),
                    o2, Product(Norm(m[x], m[w]), m[k]),
                    o3, Product(Norm(m[x], m[w]), m[v]))
<1> DEFINE in == <<x, q, k, v, w>>
           out == <<o1, o2, o3>>
           R == Results("norm qkv", [i \in DOMAIN in |-> m[in[i]]],
                        [i \in DOMAIN out |-> m[out[i]]], rows)
<1>1. /\ R[1] = Product(Norm(m[x], m[w]), m[q])
      /\ R[2] = Product(Norm(m[x], m[w]), m[k])
      /\ R[3] = Product(Norm(m[x], m[w]), m[v])
  BY DEF Results, NormQKV
<1>2. /\ DOMAIN out = 1 .. 3 /\ out[1] = o1 /\ out[2] = o2 /\ out[3] = o3
      /\ \A i \in DOMAIN out : out[i] \in Buffers
      /\ \A i, j \in DOMAIN out : out[i] = out[j] => i = j
  OBVIOUS
<1> DEFINE a == Stepped(m, Step("norm qkv", in, out), rows)
<1> HIDE DEF R, in, out
<1>3. Filled(m, a, out, R)
  <2>1. \A j \in DOMAIN out : Results("norm qkv", [i \in DOMAIN in |-> m[in[i]]],
                                     [i \in DOMAIN out |-> m[out[i]]], rows)[j] = R[j]
    BY DEF R
  <2> QED BY <1>2, <2>1, Outputs
<1> HIDE DEF a
<1>4. a[o1] = R[1] /\ a[o2] = R[2] /\ a[o3] = R[3]
  <2>1. 1 \in DOMAIN out /\ 2 \in DOMAIN out /\ 3 \in DOMAIN out
    BY <1>2
  <2> QED BY <1>2, <1>3, <2>1 DEF Filled
<1>5. \A b \in Buffers : b # o1 /\ b # o2 /\ b # o3 => a[b] = m[b]
  <2>1. \A i \in DOMAIN out : out[i] = o1 \/ out[i] = o2 \/ out[i] = o3
    BY <1>2
  <2> QED BY <1>3, <2>1 DEF Filled
<1> QED BY <1>1, <1>3, <1>4, <1>5 DEF Filled, WrittenThree, a, in, out

LEMMA QKVRoPEStep ==
  ASSUME NEW m, NEW x, NEW q, NEW k, NEW v, NEW n, NEW o1 \in Buffers, NEW o2 \in Buffers,
         NEW o3 \in Buffers, NEW rows,
         o1 # o2, o1 # o3, o2 # o3, Valid(m[n], rows)
  PROVE  WrittenThree(m, Stepped(m, Step("qkv rope", <<x, q, k, v, n>>, <<o1, o2, o3>>), rows),
                    o1, Rotated(Product(m[x], m[q]), m[n]),
                    o2, Rotated(Product(m[x], m[k]), m[n]),
                    o3, Product(m[x], m[v]))
<1> DEFINE in == <<x, q, k, v, n>>
           out == <<o1, o2, o3>>
           R == Results("qkv rope", [i \in DOMAIN in |-> m[in[i]]],
                        [i \in DOMAIN out |-> m[out[i]]], rows)
<1>1. /\ R[1] = Rotated(Product(m[x], m[q]), m[n])
      /\ R[2] = Rotated(Product(m[x], m[k]), m[n])
      /\ R[3] = Product(m[x], m[v])
  BY DEF Results, QKVRoPE, Turned
<1>2. /\ DOMAIN out = 1 .. 3 /\ out[1] = o1 /\ out[2] = o2 /\ out[3] = o3
      /\ \A i \in DOMAIN out : out[i] \in Buffers
      /\ \A i, j \in DOMAIN out : out[i] = out[j] => i = j
  OBVIOUS
<1> DEFINE a == Stepped(m, Step("qkv rope", in, out), rows)
<1> HIDE DEF R, in, out
<1>3. Filled(m, a, out, R)
  <2>1. \A j \in DOMAIN out : Results("qkv rope", [i \in DOMAIN in |-> m[in[i]]],
                                     [i \in DOMAIN out |-> m[out[i]]], rows)[j] = R[j]
    BY DEF R
  <2> QED BY <1>2, <2>1, Outputs
<1> HIDE DEF a
<1>4. a[o1] = R[1] /\ a[o2] = R[2] /\ a[o3] = R[3]
  <2>1. 1 \in DOMAIN out /\ 2 \in DOMAIN out /\ 3 \in DOMAIN out
    BY <1>2
  <2> QED BY <1>2, <1>3, <2>1 DEF Filled
<1>5. \A b \in Buffers : b # o1 /\ b # o2 /\ b # o3 => a[b] = m[b]
  <2>1. \A i \in DOMAIN out : out[i] = o1 \/ out[i] = o2 \/ out[i] = o3
    BY <1>2
  <2> QED BY <1>3, <2>1 DEF Filled
<1> QED BY <1>1, <1>3, <1>4, <1>5 DEF Filled, WrittenThree, a, in, out

----------------------------------------------------------------------------
(* What the regions of a layer compute, whoever computes it. *)

LEMMA BuffersDiffer ==
  \A x, y, k, l : x # y => <<x, k>> # <<y, l>>
OBVIOUS

LEMMA BuffersOfStage ==
  /\ \A x \in Arena \union {"embedding", "finalNorm", "languageModelHead"} : <<x, 0>> \in Buffers
  /\ \A x \in Weights \union {"keys", "values", "length", "table", "gate", "up"}, l \in Layers :
       <<x, l>> \in Buffers
  /\ \A l \in Nat : Hidden(l) \in Buffers
BY DEF Buffers, Hidden

\* The buffers that the layers share but for the residual stream.
Scratch == (Arena \ {"tokens"}) \X {0} \union {"gate", "up"} \X Layers

Projected(m, a, l) ==
  LET x == NormedAt(m, m[Hidden(l - 1)], l) IN
  /\ IsMemory(a)
  /\ a[Shared("rotatedQuery")] = TurnedAt(m, Product(x, m[<<"queryWeight", l>>]), l)
  /\ a[Shared("rotatedKey")] = TurnedAt(m, Product(x, m[<<"keyWeight", l>>]), l)
  /\ a[Shared("value")] = Product(x, m[<<"valueWeight", l>>])
  /\ \A b \in Buffers \ Scratch : a[b] = m[b]

\* The template's norm, projections and rotations project.
LEMMA ProjectedByTemplate ==
  ASSUME NEW l \in Layers, NEW m, NEW m1, NEW m2, NEW m3, NEW m4, NEW m5, NEW m6,
         Written(m, m1, Shared("normalized"), Norm(m[Hidden(l - 1)], m[<<"inputNorm", l>>])),
         Written(m1, m2, Shared("query"),
                 Product(m1[Shared("normalized")], m1[<<"queryWeight", l>>])),
         Written(m2, m3, Shared("key"),
                 Product(m2[Shared("normalized")], m2[<<"keyWeight", l>>])),
         Written(m3, m4, Shared("value"),
                 Product(m3[Shared("normalized")], m3[<<"valueWeight", l>>])),
         Written(m4, m5, Shared("rotatedQuery"), Rotated(m4[Shared("query")], m4[<<"length", l>>])),
         Written(m5, m6, Shared("rotatedKey"), Rotated(m5[Shared("key")], m5[<<"length", l>>]))
  PROVE  Projected(m, m6, l)
BY BuffersDiffer, BuffersOfStage
DEF Projected, Written, NormedAt, TurnedAt, Shared, Scratch, Arena, Weights

----------------------------------------------------------------------------
(* The steps of nodes. *)

Makers == {"template", "generated"}
Kernels == {"embedding", "norm", "linear", "rope", "query key rope", "append", "attention", "add",
            "silu mul", "residual norm", "gated mlp", "norm qkv", "qkv rope", "linear residual",
            "attention output", "argmax", "partial argmax", "final argmax"}
Steps == [kernel : Kernels, in : Seq(Buffers), out : Seq(Buffers)]
Entries == [step : Steps, made : Makers]

\* Executing one, two or three steps.
LEMMA ExecuteFew ==
  ASSUME NEW m, NEW s, NEW rows
  PROVE  /\ Len(s) = 1 => Execute(m, s, rows) = Stepped(m, s[1].step, rows)
         /\ Len(s) = 2 => Execute(m, s, rows)
                            = Stepped(Stepped(m, s[1].step, rows), s[2].step, rows)
         /\ Len(s) = 3 => Execute(m, s, rows)
                            = Stepped(Stepped(Stepped(m, s[1].step, rows), s[2].step, rows),
                                      s[3].step, rows)
<1>1. ASSUME NEW n \in Nat, Len(s) = n
      PROVE  \E f : /\ f[0] = m /\ Execute(m, s, rows) = f[n]
                    /\ \A i \in 1 .. n : f[i] = Stepped(f[i - 1], s[i].step, rows)
  <2>1. PICK f : Runs(f, m, s, n, rows) /\ Execute(m, s, rows) = f[n]
    BY <1>1, ExecuteRuns
  <2>2. f[0] = m /\ \A i \in 1 .. n : f[i] = Stepped(f[i - 1], s[i].step, rows)
    BY <2>1 DEF Runs
  <2> QED BY <2>1, <2>2
<1>2. CASE Len(s) = 1
  <2>1. PICK f : /\ f[0] = m /\ Execute(m, s, rows) = f[1]
                 /\ \A i \in 1 .. 1 : f[i] = Stepped(f[i - 1], s[i].step, rows)
    BY <1>1, <1>2
  <2>2. f[1] = Stepped(f[0], s[1].step, rows)
    BY <2>1
  <2> QED BY <1>2, <2>1, <2>2
<1>3. CASE Len(s) = 2
  <2>1. PICK f : /\ f[0] = m /\ Execute(m, s, rows) = f[2]
                 /\ \A i \in 1 .. 2 : f[i] = Stepped(f[i - 1], s[i].step, rows)
    BY <1>1, <1>3
  <2>2. f[1] = Stepped(f[0], s[1].step, rows) /\ f[2] = Stepped(f[1], s[2].step, rows)
    BY <2>1
  <2> QED BY <1>3, <2>1, <2>2
<1>4. CASE Len(s) = 3
  <2>1. PICK f : /\ f[0] = m /\ Execute(m, s, rows) = f[3]
                 /\ \A i \in 1 .. 3 : f[i] = Stepped(f[i - 1], s[i].step, rows)
    BY <1>1, <1>4
  <2>2. /\ f[1] = Stepped(f[0], s[1].step, rows) /\ f[2] = Stepped(f[1], s[2].step, rows)
        /\ f[3] = Stepped(f[2], s[3].step, rows)
    BY <2>1
  <2> QED BY <1>4, <2>1, <2>2
<1> QED BY <1>2, <1>3, <1>4

\* A node's steps are those it is made of, each with what made its kernel.
LEMMA NodeFacts ==
  ASSUME NEW implementation \in Makers, NEW dispatches, NEW new \in Seq(Steps)
  PROVE  LET s == Node(implementation, dispatches, new).steps IN
         /\ s \in Seq(Entries) /\ Len(s) = Len(new)
         /\ \A i \in 1 .. Len(new) : s[i].step = new[i] /\ s[i].made = implementation
<1> DEFINE n == Len(new)
           Entry(i) == [step |-> new[i], made |-> implementation]
           s == [i \in 1 .. n |-> Entry(i)]
<1>1. n \in Nat /\ DOMAIN new = 1 .. n /\ \A i \in 1 .. n : new[i] \in Steps
  OBVIOUS
<1>2. Node(implementation, dispatches, new).steps = s
  BY <1>1 DEF Node
<1>3. \A i \in 1 .. n : Entry(i) \in Entries
  BY <1>1 DEF Entries
<1>4. \A i \in 1 .. n : Entry(i).step = new[i] /\ Entry(i).made = implementation
  OBVIOUS
<1> HIDE DEF n, Entry
<1>5. s \in Seq(Entries) /\ Len(s) = n /\ \A i \in 1 .. n : s[i] = Entry(i)
  BY <1>1, <1>3
<1> QED BY <1>2, <1>4, <1>5 DEF n

\* Executing a node's steps.
LEMMA NodeRuns ==
  ASSUME NEW m, NEW implementation, NEW dispatches, NEW rows
  PROVE  /\ \A x : Execute(m, Node(implementation, dispatches, <<x>>).steps, rows)
                     = Stepped(m, x, rows)
         /\ \A x, y : Execute(m, Node(implementation, dispatches, <<x, y>>).steps, rows)
                        = Stepped(Stepped(m, x, rows), y, rows)
         /\ \A x, y, z : Execute(m, Node(implementation, dispatches, <<x, y, z>>).steps, rows)
                           = Stepped(Stepped(Stepped(m, x, rows), y, rows), z, rows)
<1>1. ASSUME NEW x
      PROVE  Execute(m, Node(implementation, dispatches, <<x>>).steps, rows)
               = Stepped(m, x, rows)
  <2> DEFINE s == Node(implementation, dispatches, <<x>>).steps
  <2>1. Len(s) = 1 /\ s[1].step = x
    BY DEF Node
  <2> HIDE DEF s
  <2>2. Execute(m, s, rows) = Stepped(m, x, rows)
    BY <2>1, ExecuteFew
  <2> QED BY <2>2 DEF s
<1>2. ASSUME NEW x, NEW y
      PROVE  Execute(m, Node(implementation, dispatches, <<x, y>>).steps, rows)
               = Stepped(Stepped(m, x, rows), y, rows)
  <2> DEFINE s == Node(implementation, dispatches, <<x, y>>).steps
  <2>1. Len(s) = 2 /\ s[1].step = x /\ s[2].step = y
    BY DEF Node
  <2> HIDE DEF s
  <2>2. Execute(m, s, rows) = Stepped(Stepped(m, x, rows), y, rows)
    BY <2>1, ExecuteFew
  <2> QED BY <2>2 DEF s
<1>3. ASSUME NEW x, NEW y, NEW z
      PROVE  Execute(m, Node(implementation, dispatches, <<x, y, z>>).steps, rows)
               = Stepped(Stepped(Stepped(m, x, rows), y, rows), z, rows)
  <2> DEFINE s == Node(implementation, dispatches, <<x, y, z>>).steps
  <2>1. Len(s) = 3 /\ s[1].step = x /\ s[2].step = y /\ s[3].step = z
    BY DEF Node
  <2> HIDE DEF s
  <2>2. Execute(m, s, rows) = Stepped(Stepped(Stepped(m, x, rows), y, rows), z, rows)
    BY <2>1, ExecuteFew
  <2> QED BY <2>2 DEF s
<1> QED BY <1>1, <1>2, <1>3

\* f[i] joins the first i of the n sequences of s.
Joins(f, s, n) == f = [i \in 1 .. n |-> IF i = 1 THEN s[i] ELSE f[i - 1] \o s[i]]

\* A sequence of sequences has a concatenation, and only one.
LEMMA JoinExists ==
  ASSUME NEW s, NEW n \in Nat
  PROVE  \E f : Joins(f, s, n)
<1> DEFINE I == {k \in Nat : \E f : Joins(f, s, k)}
           Joined(h, i) == IF i = 1 THEN s[i] ELSE h[i - 1] \o s[i]
<1>1. 0 \in I
  <2> DEFINE f == [i \in 1 .. 0 |-> s]
  <2>1. f = [i \in 1 .. 0 |-> Joined(f, i)]
    OBVIOUS
  <2> HIDE DEF f
  <2> QED BY <2>1 DEF Joins
<1>2. ASSUME NEW k \in I PROVE k + 1 \in I
  <2>1. PICK f : Joins(f, s, k)
    OBVIOUS
  <2> DEFINE g == [i \in 1 .. k + 1 |-> Joined(f, i)]
  <2>2. \A i \in 1 .. k : f[i] = Joined(f, i)
    BY <2>1 DEF Joins
  <2>3. k \in Nat /\ \A i \in 1 .. k + 1 : i # 1 => i - 1 \in 1 .. k
    OBVIOUS
  <2>4. \A i \in 1 .. k : i \in 1 .. k + 1
    OBVIOUS
  <2>5. \A i \in 1 .. k : g[i] = f[i]
    <3> HIDE DEF Joined
    <3> QED BY <2>2, <2>4
  <2>6. \A i \in 1 .. k + 1 : Joined(g, i) = Joined(f, i)
    <3> HIDE DEF g
    <3> QED BY <2>3, <2>5
  <2>7. g = [i \in 1 .. k + 1 |-> Joined(g, i)]
    <3>1. \A i \in 1 .. k + 1 : g[i] = Joined(f, i)
      <4> HIDE DEF Joined
      <4> QED OBVIOUS
    <3>2. g = [i \in 1 .. k + 1 |-> g[i]]
      OBVIOUS
    <3> HIDE DEF g, Joined
    <3> QED BY <2>6, <3>1, <3>2
  <2> HIDE DEF g
  <2>8. Joins(g, s, k + 1)
    BY <2>7 DEF Joins
  <2> QED BY <2>3, <2>8
<1>3. I = Nat
  <2> HIDE DEF I
  <2> SUFFICES I \in SUBSET Nat
    BY <1>1, <1>2, Induction
  <2> QED BY DEF I
<1> QED BY <1>3

LEMMA JoinsAgree ==
  ASSUME NEW s, NEW t, NEW n \in Nat, NEW k \in Nat, n <= k,
         \A i \in 1 .. n : s[i] = t[i],
         NEW f, NEW g, Joins(f, s, n), Joins(g, t, k), n # 0
  PROVE  f[n] = g[n]
<1>1. /\ \A i \in 1 .. n : f[i] = IF i = 1 THEN s[i] ELSE f[i - 1] \o s[i]
      /\ \A i \in 1 .. k : g[i] = IF i = 1 THEN t[i] ELSE g[i - 1] \o t[i]
  BY DEF Joins
<1> DEFINE J == {j \in Nat : j < n => f[j + 1] = g[j + 1]}
<1>2. 0 \in J
  <2>1. 1 \in 1 .. n /\ 1 \in 1 .. k
    OBVIOUS
  <2>2. f[1] = s[1] /\ g[1] = t[1]
    BY <1>1, <2>1
  <2> QED BY <2>1, <2>2
<1>3. ASSUME NEW j \in J PROVE j + 1 \in J
  <2> SUFFICES ASSUME j + 1 < n PROVE f[(j + 1) + 1] = g[(j + 1) + 1]
    OBVIOUS
  <2> DEFINE i == (j + 1) + 1
  <2>1. i \in 1 .. n /\ i \in 1 .. k /\ i # 1 /\ i - 1 = j + 1 /\ f[j + 1] = g[j + 1]
    OBVIOUS
  <2> HIDE DEF i
  <2>2. f[i] = f[i - 1] \o s[i]
    BY <1>1, <2>1
  <2>3. g[i] = g[i - 1] \o t[i]
    BY <1>1, <2>1
  <2>4. s[i] = t[i]
    BY <2>1
  <2> QED BY <2>1, <2>2, <2>3, <2>4 DEF i
<1>4. J = Nat
  <2> HIDE DEF J
  <2> SUFFICES J \in SUBSET Nat
    BY <1>2, <1>3, Induction
  <2> QED BY DEF J
<1>5. n - 1 \in J
  <2>1. n - 1 \in Nat
    OBVIOUS
  <2> HIDE DEF J
  <2> QED BY <1>4, <2>1
<1>6. n - 1 < n /\ (n - 1) + 1 = n
  OBVIOUS
<1> QED BY <1>5, <1>6

LEMMA FlattenJoins ==
  ASSUME NEW s, NEW n \in Nat \ {0}, Len(s) = n
  PROVE  \E f : Joins(f, s, n) /\ Seqs!FlattenSeq(s) = f[n]
<1> DEFINE f == CHOOSE h : Joins(h, s, n)
<1>1. Seqs!FlattenSeq(s) = f[n]
  BY DEF Seqs!FlattenSeq, Joins
<1>2. Joins(f, s, n)
  <2> HIDE DEF Joins
  <2> QED BY JoinExists
<1> QED BY <1>1, <1>2

\* A sequence's flattening grows with it.
LEMMA FlattenAppend ==
  ASSUME NEW T, NEW s \in Seq(T), s # <<>>, NEW e \in T
  PROVE  Seqs!FlattenSeq(Append(s, e)) = Seqs!FlattenSeq(s) \o e
<1> DEFINE t == Append(s, e)
           n == Len(s)
<1>1. /\ n \in Nat \ {0} /\ n + 1 \in Nat \ {0} /\ Len(t) = n + 1 /\ t[n + 1] = e
      /\ \A i \in 1 .. n : s[i] = t[i]
  OBVIOUS
<1> HIDE DEF t
<1>2. PICK f : Joins(f, s, n) /\ Seqs!FlattenSeq(s) = f[n]
  <2> HIDE DEF n
  <2> QED BY <1>1, FlattenJoins DEF n
<1> HIDE DEF n
<1>3. PICK g : Joins(g, t, n + 1) /\ Seqs!FlattenSeq(t) = g[n + 1]
  BY <1>1, FlattenJoins
<1>4. f[n] = g[n]
  <2>1. n <= n + 1 /\ n \in Nat /\ n + 1 \in Nat /\ n # 0
    BY <1>1
  <2> QED BY <1>1, <1>2, <1>3, <2>1, JoinsAgree
<1>5. g[n + 1] = g[n] \o t[n + 1]
  <2>1. n + 1 \in 1 .. n + 1 /\ n + 1 # 1 /\ (n + 1) - 1 = n
    BY <1>1
  <2>2. \A i \in 1 .. n + 1 : g[i] = IF i = 1 THEN t[i] ELSE g[i - 1] \o t[i]
    BY <1>3 DEF Joins
  <2> QED BY <2>1, <2>2
<1> QED BY <1>1, <1>2, <1>3, <1>4, <1>5 DEF t

LEMMA FlattenOne ==
  ASSUME NEW e
  PROVE  Seqs!FlattenSeq(<<e>>) = e
<1> DEFINE s == <<e>>
<1>1. Len(s) = 1 /\ s[1] = e /\ 1 \in Nat \ {0}
  OBVIOUS
<1> HIDE DEF s
<1>2. PICK f : Joins(f, s, 1) /\ Seqs!FlattenSeq(s) = f[1]
  BY <1>1, FlattenJoins
<1>3. f[1] = s[1]
  BY <1>2 DEF Joins
<1> QED BY <1>1, <1>2, <1>3 DEF s

\* What a node makes: steps that run whatever it is tracked for.
IsNode(node) ==
  \E implementation \in Makers, new \in Seq(Steps) : node = Node(implementation, Len(new), new)

Uses == [implementation : Makers, dispatches : Nat]

\* A node has steps and a use.
LEMMA NodeIsTyped ==
  ASSUME NEW node, IsNode(node)
  PROVE  node.steps \in Seq(Entries) /\ node.use \in Uses
<1>1. PICK implementation \in Makers, new \in Seq(Steps) : node = Node(implementation, Len(new), new)
  BY DEF IsNode
<1>2. node.steps \in Seq(Entries)
  BY <1>1, NodeFacts
<1>3. Len(new) \in Nat /\ node.use = [implementation |-> implementation, dispatches |-> Len(new)]
  BY <1>1 DEF Node
<1>4. node.use \in Uses
  BY <1>3 DEF Uses
<1> QED BY <1>2, <1>4

\* The steps and uses of one, two, three and five nodes.
LEMMA StepsOfOne ==
  ASSUME NEW a
  PROVE  StepsOf(<<a>>) = a.steps /\ UsesOf(<<a>>) = <<a.use>>
<1>1. [i \in DOMAIN <<a>> |-> <<a>>[i].steps] = <<a.steps>>
  OBVIOUS
<1>2. [i \in DOMAIN <<a>> |-> <<a>>[i].use] = <<a.use>>
  OBVIOUS
<1> QED BY <1>1, <1>2, FlattenOne DEF StepsOf, UsesOf

\* One node more is its steps and its use more.
LEMMA StepsOfAppend ==
  ASSUME NEW T, NEW nodes \in Seq(T), nodes # <<>>, NEW a \in T,
         \A x \in T : x.steps \in Seq(Entries)
  PROVE  /\ StepsOf(Append(nodes, a)) = StepsOf(nodes) \o a.steps
         /\ UsesOf(Append(nodes, a)) = Append(UsesOf(nodes), a.use)
<1> DEFINE n == Len(nodes)
           s == [i \in 1 .. n |-> nodes[i].steps]
           t == [i \in 1 .. n + 1 |-> Append(nodes, a)[i].steps]
<1>1. /\ n \in Nat \ {0} /\ DOMAIN nodes = 1 .. n /\ DOMAIN Append(nodes, a) = 1 .. n + 1
      /\ \A i \in 1 .. n : nodes[i] \in T /\ Append(nodes, a)[i] = nodes[i]
      /\ Append(nodes, a)[n + 1] = a
  OBVIOUS
<1>2. StepsOf(nodes) = Seqs!FlattenSeq(s) /\ StepsOf(Append(nodes, a)) = Seqs!FlattenSeq(t)
  BY <1>1 DEF StepsOf
<1> HIDE DEF n
<1>3. s \in Seq(Seq(Entries)) /\ s # <<>>
  <2>1. \A i \in 1 .. n : nodes[i].steps \in Seq(Entries)
    BY <1>1
  <2>2. n \in Nat /\ n # 0
    BY <1>1
  <2>3. s \in Seq(Seq(Entries)) /\ Len(s) = n
    BY <2>1, <2>2
  <2> QED BY <2>2, <2>3
<1>4. t = Append(s, a.steps)
  <2>1. /\ \A i \in 1 .. n : t[i] = nodes[i].steps
        /\ t[n + 1] = a.steps
    BY <1>1
  <2>2. n \in Nat
    BY <1>1
  <2>4. Len(s) = n
    BY <2>2
  <2>5. Append(s, a.steps) \in Seq({nodes[i].steps : i \in 1 .. n} \union {a.steps})
    <3>1. s \in Seq({nodes[i].steps : i \in 1 .. n} \union {a.steps})
      BY <2>2
    <3> HIDE DEF s
    <3> QED BY <3>1
  <2>6. t \in Seq({nodes[i].steps : i \in 1 .. n} \union {a.steps})
    <3> DEFINE X == {nodes[j].steps : j \in 1 .. n} \union {a.steps}
               F(i) == Append(nodes, a)[i].steps
    <3>1. \A i \in 1 .. n + 1 : F(i) \in X
      BY <1>1, <2>2
    <3>2. n + 1 \in Nat
      BY <2>2
    <3> HIDE DEF X, F
    <3>3. [i \in 1 .. n + 1 |-> F(i)] \in Seq(X)
      BY <3>1, <3>2
    <3> QED BY <3>3 DEF X, F
  <2>7. Len(t) = n + 1 /\ Len(Append(s, a.steps)) = n + 1
    <3>1. Len(t) = n + 1
      BY <2>2
    <3> HIDE DEF s, t
    <3> QED BY <1>3, <2>2, <2>4, <3>1
  <2>8. \A i \in 1 .. n + 1 : Append(s, a.steps)[i] = t[i]
    <3>1. /\ \A i \in 1 .. n : s[i] = nodes[i].steps
      OBVIOUS
    <3> HIDE DEF s, t
    <3> QED BY <1>3, <2>1, <2>2, <2>4, <3>1
  <2> HIDE DEF s, t
  <2> QED BY <2>5, <2>6, <2>7, <2>8, SeqEqual
<1>5. Seqs!FlattenSeq(t) = Seqs!FlattenSeq(s) \o a.steps
  <2> HIDE DEF s, t
  <2> QED BY <1>3, <1>4, FlattenAppend
<1>6. UsesOf(Append(nodes, a)) = Append(UsesOf(nodes), a.use)
  <2>1. UsesOf(nodes) = [i \in 1 .. n |-> nodes[i].use]
    BY <1>1 DEF UsesOf
  <2>2. UsesOf(Append(nodes, a)) = [i \in 1 .. n + 1 |-> Append(nodes, a)[i].use]
    BY <1>1 DEF UsesOf
  <2>3. n \in Nat /\ n + 1 \in Nat
    BY <1>1
  <2>4. /\ \A i \in 1 .. n : Append(nodes, a)[i].use = nodes[i].use
        /\ Append(nodes, a)[n + 1].use = a.use
    BY <1>1
  <2> DEFINE u == [i \in 1 .. n |-> nodes[i].use]
  <2>5. Len(u) = n /\ DOMAIN u = 1 .. n
    BY <2>3
  <2>6. Append(u, a.use) = [i \in 1 .. n + 1 |-> IF i <= n THEN nodes[i].use ELSE a.use]
    BY <2>3, <2>5
  <2>7. [i \in 1 .. n + 1 |-> Append(nodes, a)[i].use]
          = [i \in 1 .. n + 1 |-> IF i <= n THEN nodes[i].use ELSE a.use]
    <3>1. \A i \in 1 .. n + 1 : Append(nodes, a)[i].use = IF i <= n THEN nodes[i].use ELSE a.use
      <4> SUFFICES ASSUME NEW i \in 1 .. n + 1
                   PROVE  Append(nodes, a)[i].use = IF i <= n THEN nodes[i].use ELSE a.use
        OBVIOUS
      <4>1. CASE i \in 1 .. n
        <5>1. Append(nodes, a)[i].use = nodes[i].use
          BY <2>4, <4>1, Zenon
        <5>2. i <= n
          BY <2>3, <4>1
        <5> QED BY <5>1, <5>2
      <4>2. CASE i \notin 1 .. n
        <5>1. i = n + 1 /\ ~(i <= n)
          BY <2>3, <4>2
        <5> QED BY <2>4, <5>1
      <4> QED BY <4>1, <4>2
    <3> QED BY <3>1
  <2> QED BY <2>1, <2>2, <2>6, <2>7
<1> QED BY <1>2, <1>5, <1>6

LEMMA StepsOfTwo ==
  ASSUME NEW a, NEW b, IsNode(a), IsNode(b)
  PROVE  StepsOf(<<a, b>>) = a.steps \o b.steps /\ UsesOf(<<a, b>>) = <<a.use, b.use>>
<1> DEFINE T == {a, b}
<1>1. \A x \in T : x.steps \in Seq(Entries)
  BY NodeIsTyped
<1>2. <<a>> \in Seq(T) /\ <<a>> # <<>> /\ b \in T
  OBVIOUS
<1> HIDE DEF T
<1>3. /\ StepsOf(Append(<<a>>, b)) = StepsOf(<<a>>) \o b.steps
      /\ UsesOf(Append(<<a>>, b)) = Append(UsesOf(<<a>>), b.use)
  BY <1>1, <1>2, StepsOfAppend
<1>4. Append(<<a>>, b) = <<a, b>> /\ Append(<<a.use>>, b.use) = <<a.use, b.use>>
  BY AppendSecond
<1> QED BY <1>3, <1>4, StepsOfOne

ThreeSteps(a, b, c) == (a.steps \o b.steps) \o c.steps
FiveSteps(a, b, c, d, e) == (ThreeSteps(a, b, c) \o d.steps) \o e.steps

LEMMA StepsOfThree ==
  ASSUME NEW a, NEW b, NEW c, IsNode(a), IsNode(b), IsNode(c)
  PROVE  /\ StepsOf(<<a, b, c>>) = ThreeSteps(a, b, c)
         /\ UsesOf(<<a, b, c>>) = <<a.use, b.use, c.use>>
<1> DEFINE T == {a, b, c}
<1>1. \A x \in T : x.steps \in Seq(Entries)
  BY NodeIsTyped
<1>2. <<a, b>> \in Seq(T) /\ <<a, b>> # <<>> /\ c \in T
  OBVIOUS
<1> HIDE DEF T
<1>3. /\ StepsOf(Append(<<a, b>>, c)) = StepsOf(<<a, b>>) \o c.steps
      /\ UsesOf(Append(<<a, b>>, c)) = Append(UsesOf(<<a, b>>), c.use)
  BY <1>1, <1>2, StepsOfAppend
<1>4. Append(<<a, b>>, c) = <<a, b, c>> /\ Append(<<a.use, b.use>>, c.use) = <<a.use, b.use, c.use>>
  BY AppendThird
<1> QED BY <1>3, <1>4, StepsOfTwo DEF ThreeSteps

LEMMA StepsOfFive ==
  ASSUME NEW a, NEW b, NEW c, NEW d, NEW e, IsNode(a), IsNode(b), IsNode(c), IsNode(d), IsNode(e)
  PROVE  /\ StepsOf(<<a, b, c, d, e>>) = FiveSteps(a, b, c, d, e)
         /\ UsesOf(<<a, b, c, d, e>>) = <<a.use, b.use, c.use, d.use, e.use>>
<1> DEFINE T == {a, b, c, d, e}
<1>1. \A x \in T : x.steps \in Seq(Entries)
  BY NodeIsTyped
<1>2. /\ <<a, b, c>> \in Seq(T) /\ <<a, b, c>> # <<>>
      /\ <<a, b, c, d>> \in Seq(T) /\ <<a, b, c, d>> # <<>>
      /\ d \in T /\ e \in T
  OBVIOUS
<1> HIDE DEF T
<1>3. /\ StepsOf(Append(<<a, b, c>>, d)) = StepsOf(<<a, b, c>>) \o d.steps
      /\ UsesOf(Append(<<a, b, c>>, d)) = Append(UsesOf(<<a, b, c>>), d.use)
  BY <1>1, <1>2, StepsOfAppend
<1>4. /\ StepsOf(Append(<<a, b, c, d>>, e)) = StepsOf(<<a, b, c, d>>) \o e.steps
      /\ UsesOf(Append(<<a, b, c, d>>, e)) = Append(UsesOf(<<a, b, c, d>>), e.use)
  BY <1>1, <1>2, StepsOfAppend
<1>5. /\ Append(<<a, b, c>>, d) = <<a, b, c, d>>
      /\ Append(<<a.use, b.use, c.use>>, d.use) = <<a.use, b.use, c.use, d.use>>
  BY AppendFourth
<1>6. /\ Append(<<a, b, c, d>>, e) = <<a, b, c, d, e>>
      /\ Append(<<a.use, b.use, c.use, d.use>>, e.use) = <<a.use, b.use, c.use, d.use, e.use>>
  BY AppendFifth
<1>7. /\ StepsOf(<<a, b, c>>) = ThreeSteps(a, b, c)
      /\ UsesOf(<<a, b, c>>) = <<a.use, b.use, c.use>>
  BY StepsOfThree
<1> QED BY <1>3, <1>4, <1>5, <1>6, <1>7 DEF FiveSteps

----------------------------------------------------------------------------
(* The audit counts what the steps dispatch. *)

Counted(tracked) ==
  Seqs!FlattenSeq([i \in DOMAIN tracked |->
                    [d \in 1 .. tracked[i].dispatches |-> tracked[i].implementation]])
Dispatched(sequence) == [i \in DOMAIN sequence |-> sequence[i].made]

Tracks(tracked, sequence) ==
  /\ tracked \in Seq(Uses) /\ sequence \in Seq(Entries)
  /\ Counted(tracked) = Dispatched(sequence)

\* The images of the elements of u.
Image(g, u) == [i \in DOMAIN u |-> g[u[i]]]

\* What is counted and dispatched of a sequence grows with it.
LEMMA ImageAppend ==
  ASSUME NEW T, NEW V, NEW g \in [T -> V], NEW u \in Seq(T), NEW e \in T
  PROVE  /\ Image(g, Append(u, e)) = Append(Image(g, u), g[e])
         /\ Image(g, u) \in Seq(V)
<1> DEFINE n == Len(u)
           w == Append(u, e)
           s == [i \in 1 .. n |-> g[u[i]]]
           t == [i \in 1 .. n + 1 |-> g[w[i]]]
<1>1. /\ n \in Nat /\ DOMAIN u = 1 .. n /\ DOMAIN w = 1 .. n + 1 /\ w[n + 1] = e
      /\ \A i \in 1 .. n : u[i] \in T /\ w[i] = u[i]
      /\ \A i \in 1 .. n + 1 : w[i] \in T
  OBVIOUS
<1> HIDE DEF n, w
<1>2. s \in Seq(V) /\ Len(s) = n
  BY <1>1
<1>3. t \in Seq(V) /\ Len(t) = n + 1
  BY <1>1
<1>4. \A i \in 1 .. n + 1 : t[i] = IF i <= n THEN s[i] ELSE g[e]
  <2>1. \A i \in 1 .. n : t[i] = s[i]
    BY <1>1
  <2>2. t[n + 1] = g[e]
    BY <1>1
  <2> HIDE DEF s, t
  <2>3. \A i \in 1 .. n + 1 : (i <= n => i \in 1 .. n) /\ (~(i <= n) => i = n + 1)
    BY <1>1
  <2> QED BY <2>1, <2>2, <2>3
<1> HIDE DEF s, t
<1>5. Append(s, g[e]) \in Seq(V) /\ Len(Append(s, g[e])) = n + 1
  BY <1>1, <1>2
<1>6. \A i \in 1 .. n + 1 : Append(s, g[e])[i] = IF i <= n THEN s[i] ELSE g[e]
  BY <1>1, <1>2
<1>7. t = Append(s, g[e])
  BY <1>3, <1>4, <1>5, <1>6, SeqEqual
<1>8. Image(g, u) = s /\ Image(g, Append(u, e)) = t
  BY <1>1 DEF Image, s, t, w
<1> QED BY <1>2, <1>7, <1>8

LEMMA FlattenPush ==
  ASSUME NEW V, NEW s \in Seq(Seq(V)), NEW e \in Seq(V)
  PROVE  Seqs!FlattenSeq(Append(s, e)) = Seqs!FlattenSeq(s) \o e
<1>1. CASE s = <<>>
  <2>1. Append(<<>>, e) = <<e>>
    OBVIOUS
  <2>2. Seqs!FlattenSeq(<<>>) = <<>>
    BY DEF Seqs!FlattenSeq
  <2>3. <<>> \o e = e
    OBVIOUS
  <2> QED BY <1>1, <2>1, <2>2, <2>3, FlattenOne
<1>2. CASE s # <<>>
  BY <1>2, FlattenAppend
<1> QED BY <1>1, <1>2

LEMMA DispatchedConcat ==
  ASSUME NEW s \in Seq(Entries), NEW t \in Seq(Entries)
  PROVE  Dispatched(s \o t) = Dispatched(s) \o Dispatched(t)
<1> DEFINE n == Len(s)
           k == Len(t)
           w == s \o t
           d == [i \in 1 .. n |-> s[i].made]
           e == [i \in 1 .. k |-> t[i].made]
           f == [i \in 1 .. n + k |-> w[i].made]
<1>1. /\ n \in Nat /\ k \in Nat /\ DOMAIN s = 1 .. n /\ DOMAIN t = 1 .. k /\ DOMAIN w = 1 .. n + k
      /\ \A i \in 1 .. n : s[i] \in Entries /\ w[i] = s[i]
      /\ \A i \in 1 .. k : t[i] \in Entries
      /\ \A i \in 1 .. n + k : w[i] \in Entries /\ (i > n => w[i] = t[i - n])
  OBVIOUS
<1> HIDE DEF n, k, w
<1>2. \A x \in Entries : x.made \in Makers
  BY DEF Entries
<1>3. /\ d \in Seq(Makers) /\ Len(d) = n /\ e \in Seq(Makers) /\ Len(e) = k
      /\ f \in Seq(Makers) /\ Len(f) = n + k
  <2>1. n + k \in Nat
    BY <1>1
  <2>2. /\ \A i \in 1 .. n : s[i].made \in Makers
        /\ \A i \in 1 .. k : t[i].made \in Makers
        /\ \A i \in 1 .. n + k : w[i].made \in Makers
    BY <1>1, <1>2
  <2>3. d \in Seq(Makers) /\ Len(d) = n
    BY <1>1, <2>2
  <2>4. e \in Seq(Makers) /\ Len(e) = k
    BY <1>1, <2>2
  <2>5. f \in Seq(Makers) /\ Len(f) = n + k
    BY <2>1, <2>2
  <2> QED BY <2>3, <2>4, <2>5
<1>4. \A i \in 1 .. n + k : f[i] = IF i <= n THEN d[i] ELSE e[i - n]
  <2> SUFFICES ASSUME NEW i \in 1 .. n + k PROVE f[i] = IF i <= n THEN d[i] ELSE e[i - n]
    OBVIOUS
  <2>1. CASE i <= n
    <3>1. i \in 1 .. n
      BY <1>1, <2>1
    <3> QED BY <1>1, <2>1, <3>1
  <2>2. CASE ~(i <= n)
    <3>1. i > n /\ i - n \in 1 .. k
      BY <1>1, <2>2
    <3> QED BY <1>1, <2>2, <3>1
  <2> QED BY <2>1, <2>2
<1> HIDE DEF d, e, f
<1>5. d \o e \in Seq(Makers) /\ Len(d \o e) = n + k
  <2>1. d \o e \in Seq(Makers) /\ Len(d \o e) = Len(d) + Len(e)
    BY <1>3, ConcatProperties
  <2> QED BY <1>3, <2>1
<1>6. \A i \in 1 .. n + k : (d \o e)[i] = IF i <= n THEN d[i] ELSE e[i - n]
  BY <1>1, <1>3
<1>7. f = d \o e
  BY ZenonT(60), <1>3, <1>4, <1>5, <1>6, SeqEqual
<1> QED BY <1>1, <1>7 DEF Dispatched, d, e, f, w

\* The audit of nothing counts nothing.
LEMMA TracksNothing == Tracks(<<>>, <<>>)
<1>1. Counted(<<>>) = <<>>
  BY DEF Counted, Seqs!FlattenSeq
<1>2. Dispatched(<<>>) = <<>>
  BY DEF Dispatched
<1> QED BY <1>1, <1>2 DEF Tracks

\* A node whose use counts its steps keeps the audit.
LEMMA TracksNode ==
  ASSUME NEW u, NEW s, Tracks(u, s), NEW node, IsNode(node)
  PROVE  Tracks(Append(u, node.use), s \o node.steps)
<1>1. PICK implementation \in Makers, new \in Seq(Steps) : node = Node(implementation, Len(new), new)
  BY DEF IsNode
<1> DEFINE C(x) == [d \in 1 .. x.dispatches |-> x.implementation]
           g == [x \in Uses |-> C(x)]
           n == Len(new)
<1>2. g \in [Uses -> Seq(Makers)]
  <2>1. \A x \in Uses : x.dispatches \in Nat /\ x.implementation \in Makers
    BY DEF Uses
  <2>2. \A x \in Uses : C(x) \in Seq(Makers)
    BY <2>1
  <2> HIDE DEF C
  <2> QED BY <2>2
<1>3. /\ u \in Seq(Uses) /\ s \in Seq(Entries) /\ node.use \in Uses /\ node.steps \in Seq(Entries)
      /\ Counted(u) = Dispatched(s)
  BY NodeIsTyped DEF Tracks
<1>4. \A v \in Seq(Uses) : Counted(v) = Seqs!FlattenSeq(Image(g, v))
  <2> SUFFICES ASSUME NEW v \in Seq(Uses)
               PROVE  Counted(v) = Seqs!FlattenSeq(Image(g, v))
    OBVIOUS
  <2>1. \A i \in DOMAIN v : v[i] \in Uses
    OBVIOUS
  <2>2. \A i \in DOMAIN v : g[v[i]] = C(v[i])
    BY <2>1
  <2> HIDE DEF g
  <2>3. [i \in DOMAIN v |-> g[v[i]]] = [i \in DOMAIN v |-> C(v[i])]
    <3> HIDE DEF C
    <3> QED BY <2>2
  <2> QED BY <2>3 DEF Counted, Image
<1>5. g[node.use] = C(node.use)
  BY <1>3
<1> HIDE DEF g
<1>6. Counted(Append(u, node.use)) = Counted(u) \o g[node.use]
  <2>1. Append(u, node.use) \in Seq(Uses)
    BY <1>3
  <2>2. /\ Image(g, Append(u, node.use)) = Append(Image(g, u), g[node.use])
        /\ Image(g, u) \in Seq(Seq(Makers))
    BY <1>2, <1>3, ImageAppend
  <2>3. g[node.use] \in Seq(Makers)
    BY <1>2, <1>3
  <2>4. Seqs!FlattenSeq(Append(Image(g, u), g[node.use]))
          = Seqs!FlattenSeq(Image(g, u)) \o g[node.use]
    BY <2>2, <2>3, FlattenPush
  <2> QED BY <1>3, <1>4, <2>1, <2>2, <2>4
<1>7. Dispatched(node.steps) = C(node.use)
  <2>1. /\ node.steps = [i \in DOMAIN new |-> [step |-> new[i], made |-> implementation]]
        /\ node.use = [implementation |-> implementation, dispatches |-> n]
        /\ DOMAIN new = 1 .. n
    BY <1>1 DEF Node
  <2>2. Dispatched(node.steps) = [i \in 1 .. n |-> implementation]
    <3> HIDE DEF n
    <3> QED BY <2>1 DEF Dispatched
  <2> QED BY <2>1, <2>2
<1>8. Dispatched(s \o node.steps) = Dispatched(s) \o Dispatched(node.steps)
  BY <1>3, DispatchedConcat
<1>9. Append(u, node.use) \in Seq(Uses) /\ s \o node.steps \in Seq(Entries)
  BY <1>3
<1> HIDE DEF C
<1> QED BY <1>3, <1>5, <1>6, <1>7, <1>8, <1>9 DEF Tracks

----------------------------------------------------------------------------
(* Where a sequence is cut. *)

Upto(s, k) == SubSeq(s, 1, k)
Beyond(s, k) == SubSeq(s, k + 1, Len(s))

\* A sequence is what comes up to a mark and what comes beyond it.
LEMMA Cut ==
  ASSUME NEW T, NEW s \in Seq(T), NEW k \in 0 .. Len(s)
  PROVE  /\ Upto(s, k) \in Seq(T) /\ Beyond(s, k) \in Seq(T)
         /\ Len(Upto(s, k)) = k
         /\ s = Upto(s, k) \o Beyond(s, k)
<1>1. 1 \in 1 .. Len(s) + 1 /\ 0 + 1 \in 1 .. Len(s) + 1
  OBVIOUS
<1>2. /\ SubSeq(s, 1, k) \in Seq(T) /\ SubSeq(s, k + 1, Len(s)) \in Seq(T)
      /\ Len(SubSeq(s, 1, k)) = k
  OBVIOUS
<1>3. SubSeq(s, 1, k) \o SubSeq(s, k + 1, Len(s)) = SubSeq(s, 1, Len(s))
  <2>1. /\ 1 \in 1 .. Len(s) + 1 /\ k \in 1 - 1 .. Len(s) /\ Len(s) \in k .. Len(s)
    OBVIOUS
  <2> QED BY <2>1, ConcatAdjacentSubSeq
<1>4. SubSeq(s, 1, Len(s)) = s
  OBVIOUS
<1> QED BY <1>2, <1>3, <1>4 DEF Upto, Beyond

LEMMA CutAt ==
  ASSUME NEW T, NEW s \in Seq(T), NEW t \in Seq(T)
  PROVE  Upto(s \o t, Len(s)) = s /\ Beyond(s \o t, Len(s)) = t
BY DEF Upto, Beyond

LEMMA CutBefore ==
  ASSUME NEW T, NEW s \in Seq(T), NEW t \in Seq(T), NEW k \in 0 .. Len(s)
  PROVE  /\ k \in 0 .. Len(s \o t)
         /\ Upto(s \o t, k) = Upto(s, k)
         /\ Beyond(s \o t, k) = Beyond(s, k) \o t
<1> DEFINE p == Upto(s, k)
           r == Beyond(s, k)
<1>1. p \in Seq(T) /\ r \in Seq(T) /\ Len(p) = k /\ s = p \o r
  BY Cut
<1> HIDE DEF p, r
<1>2. r \o t \in Seq(T) /\ s \o t = p \o (r \o t)
  BY <1>1
<1>3. Upto(p \o (r \o t), Len(p)) = p /\ Beyond(p \o (r \o t), Len(p)) = r \o t
  BY <1>1, <1>2, CutAt
<1>4. k \in 0 .. Len(s \o t)
  OBVIOUS
<1> QED BY <1>1, <1>2, <1>3, <1>4 DEF p, r

----------------------------------------------------------------------------
(* The nodes that the actions push. *)

\* The nodes that buildStage tracks are well-formed.
LEMMA StepIsTyped ==
  ASSUME NEW kernel \in Kernels, NEW in \in Seq(Buffers), NEW out \in Seq(Buffers)
  PROVE  Step(kernel, in, out) \in Steps
BY DEF Step, Steps

LEMMA FewNode ==
  ASSUME NEW implementation \in Makers
  PROVE  /\ \A x \in Steps : IsNode(Node(implementation, 1, <<x>>))
         /\ \A x, y \in Steps : IsNode(Node(implementation, 2, <<x, y>>))
         /\ \A x, y, z \in Steps : IsNode(Node(implementation, 3, <<x, y, z>>))
<1>1. \A x \in Steps : <<x>> \in Seq(Steps) /\ Len(<<x>>) = 1
  OBVIOUS
<1>2. \A x, y \in Steps : <<x, y>> \in Seq(Steps) /\ Len(<<x, y>>) = 2
  OBVIOUS
<1>3. \A x, y, z \in Steps : <<x, y, z>> \in Seq(Steps) /\ Len(<<x, y, z>>) = 3
  OBVIOUS
<1>4. ASSUME NEW x \in Steps PROVE IsNode(Node(implementation, 1, <<x>>))
  BY <1>1 DEF IsNode
<1>5. ASSUME NEW x \in Steps, NEW y \in Steps PROVE IsNode(Node(implementation, 2, <<x, y>>))
  BY <1>2 DEF IsNode
<1>6. ASSUME NEW x \in Steps, NEW y \in Steps, NEW z \in Steps
      PROVE  IsNode(Node(implementation, 3, <<x, y, z>>))
  BY <1>3 DEF IsNode
<1> QED BY <1>4, <1>5, <1>6

LEMMA BufferIsTyped ==
  ASSUME layer \in Layers
  PROVE  /\ \A x \in Arena \union {"embedding", "finalNorm", "languageModelHead"} :
              Shared(x) \in Buffers
         /\ \A x \in Weights \union {"keys", "values", "length", "table", "gate", "up"} :
              Own(x) \in Buffers
         /\ layer \in Nat /\ layer - 1 \in Nat /\ LayerCount \in Nat
         /\ current \in Buffers /\ layerOutput \in Buffers
         /\ Hidden(0) \in Buffers /\ Hidden(LayerCount) \in Buffers
         /\ length \in Buffers /\ table \in Buffers
<1>1. layer \in Nat /\ layer - 1 \in Nat /\ LayerCount \in Nat /\ 0 \in Nat
  BY DecoderStageAssumption DEF Layers
<1>2. \A l \in Nat : Hidden(l) \in Buffers
  BY BuffersOfStage
<1>3. /\ \A x \in Arena \union {"embedding", "finalNorm", "languageModelHead"} :
           Shared(x) \in Buffers
      /\ \A x \in Weights \union {"keys", "values", "length", "table", "gate", "up"} :
           Own(x) \in Buffers
  BY BuffersOfStage DEF Own, Shared
<1>4. current \in Buffers /\ layerOutput \in Buffers
  BY <1>1, <1>2 DEF current, layerOutput
<1>5. length \in Buffers /\ table \in Buffers
  BY <1>3 DEF length, table
<1> QED BY <1>1, <1>2, <1>3, <1>4, <1>5

\* Steps with up to six inputs and three outputs.
LEMMA FewBuffers ==
  /\ \A x \in Buffers : <<x>> \in Seq(Buffers)
  /\ \A x, y \in Buffers : <<x, y>> \in Seq(Buffers)
  /\ \A x, y, z \in Buffers : <<x, y, z>> \in Seq(Buffers)
  /\ \A x, y, z, v \in Buffers : <<x, y, z, v>> \in Seq(Buffers)
  /\ \A x, y, z, v, w \in Buffers : <<x, y, z, v, w>> \in Seq(Buffers)
  /\ \A x, y, z, v, w, u \in Buffers : <<x, y, z, v, w, u>> \in Seq(Buffers)
OBVIOUS

EmbeddingNode ==
  Template(1, <<Step("embedding", <<Shared("tokens"), Shared("embedding")>>, <<Hidden(0)>>)>>)
NormNode == Template(1, <<Step("norm", <<current, Own("inputNorm")>>, <<Shared("normalized")>>)>>)
ProjectionNode(implementation, weight, output) ==
  Linear(implementation, Shared("normalized"), Own(weight), Shared(output))
RotationNode(implementation) ==
  IF implementation = "generated"
    THEN Node("generated", 1,
              <<Step("query key rope", <<Shared("query"), Shared("key"), length>>,
                     <<Shared("rotatedQuery"), Shared("rotatedKey")>>)>>)
    ELSE Template(2, <<RoPE(Shared("query"), Shared("rotatedQuery")),
                       RoPE(Shared("key"), Shared("rotatedKey"))>>)
AppendNode ==
  Template(2, <<Step("append", <<Shared("rotatedKey"), length, table>>, <<Own("keys")>>),
                Step("append", <<Shared("value"), length, table>>, <<Own("values")>>)>>)
AttentionNode ==
  Template(1, <<Step("attention",
                     <<Shared("rotatedQuery"), Own("keys"), Own("values"), length, table>>,
                     <<Shared("context")>>)>>)
OutputNode(implementation) ==
  Linear(implementation, Shared("context"), Own("outputWeight"), Shared("attentionOutput"))
FusedResidualNode(implementation) ==
  Node(implementation, 1,
       <<Step("residual norm", <<current, Shared("attentionOutput"), Own("postNorm")>>,
              <<Shared("afterAttention"), Shared("postAttentionNormalized")>>)>>)
ResidualNode ==
  Template(2, <<Step("add", <<current, Shared("attentionOutput")>>, <<Shared("afterAttention")>>),
                Step("norm", <<Shared("afterAttention"), Own("postNorm")>>,
                     <<Shared("postAttentionNormalized")>>)>>)
FusedMLPNode(implementation) ==
  Node(implementation, 1,
       <<Step("gated mlp", <<Shared("postAttentionNormalized"), Own("gateWeight"), Own("upWeight")>>,
              <<Shared("gated")>>)>>)
MLPNode ==
  Template(3, <<Step("linear", <<Shared("postAttentionNormalized"), Own("gateWeight")>>,
                     <<Own("gate")>>),
                Step("linear", <<Shared("postAttentionNormalized"), Own("upWeight")>>,
                     <<Own("up")>>),
                Step("silu mul", <<Own("gate"), Own("up")>>, <<Shared("gated")>>)>>)
DownNode(implementation) ==
  Linear(implementation, Shared("gated"), Own("downWeight"), Shared("mlpOutput"))
AddNode ==
  Template(1, <<Step("add", <<Shared("afterAttention"), Shared("mlpOutput")>>, <<layerOutput>>)>>)
FinalNormNode ==
  Template(1, <<Step("norm", <<Hidden(LayerCount), Shared("finalNorm")>>, <<Shared("normalized")>>)>>)
HeadNode(implementation) ==
  Linear(implementation, Shared("normalized"), Shared("languageModelHead"), Shared("logits"))
ArgmaxNode == Template(1, <<Step("argmax", <<Shared("logits")>>, <<Shared("nextTokens")>>)>>)
TokenNode ==
  Template(2, <<Step("partial argmax", <<Shared("normalized"), Shared("languageModelHead")>>,
                     <<Shared("partialValues"), Shared("partialTokens")>>),
                Step("final argmax", <<Shared("partialValues"), Shared("partialTokens")>>,
                     <<Shared("nextTokens")>>)>>)

LEMMA GeneratedMakes ==
  ASSUME NEW pattern
  PROVE  Generated(pattern) \subseteq Makers
BY DEF Generated, Makers

\* Every node that buildStage pushes, whoever made its kernel, is well-formed.
LEMMA NodesAreTyped ==
  ASSUME layer \in Layers
  PROVE  /\ IsNode(EmbeddingNode) /\ IsNode(NormNode) /\ IsNode(AppendNode)
         /\ IsNode(AttentionNode) /\ IsNode(ResidualNode) /\ IsNode(MLPNode) /\ IsNode(AddNode)
         /\ IsNode(FinalNormNode) /\ IsNode(ArgmaxNode) /\ IsNode(TokenNode)
         /\ \A i \in Makers : /\ IsNode(RotationNode(i)) /\ IsNode(OutputNode(i))
                              /\ IsNode(FusedResidualNode(i)) /\ IsNode(FusedMLPNode(i))
                              /\ IsNode(DownNode(i)) /\ IsNode(HeadNode(i))
                              /\ IsNode(ProjectionNode(i, "queryWeight", "query"))
                              /\ IsNode(ProjectionNode(i, "keyWeight", "key"))
                              /\ IsNode(ProjectionNode(i, "valueWeight", "value"))
<1>1. "template" \in Makers /\ "generated" \in Makers
  BY DEF Makers
<1>2. /\ current \in Buffers /\ layerOutput \in Buffers /\ length \in Buffers /\ table \in Buffers
      /\ Hidden(0) \in Buffers /\ Hidden(LayerCount) \in Buffers
      /\ \A x \in Arena \union {"embedding", "finalNorm", "languageModelHead"} : Shared(x) \in Buffers
      /\ \A x \in Weights \union {"keys", "values", "length", "table", "gate", "up"} : Own(x) \in Buffers
  BY BufferIsTyped
<1>3. /\ Shared("tokens") \in Buffers /\ Shared("embedding") \in Buffers
      /\ Shared("normalized") \in Buffers /\ Shared("query") \in Buffers
      /\ Shared("key") \in Buffers /\ Shared("value") \in Buffers
      /\ Shared("rotatedQuery") \in Buffers /\ Shared("rotatedKey") \in Buffers
      /\ Shared("context") \in Buffers /\ Shared("attentionOutput") \in Buffers
      /\ Shared("afterAttention") \in Buffers /\ Shared("postAttentionNormalized") \in Buffers
      /\ Shared("gated") \in Buffers /\ Shared("mlpOutput") \in Buffers
      /\ Shared("logits") \in Buffers /\ Shared("partialValues") \in Buffers
      /\ Shared("partialTokens") \in Buffers /\ Shared("nextTokens") \in Buffers
      /\ Shared("finalNorm") \in Buffers /\ Shared("languageModelHead") \in Buffers
  BY <1>2 DEF Arena
<1>4. /\ Own("inputNorm") \in Buffers /\ Own("queryWeight") \in Buffers
      /\ Own("keyWeight") \in Buffers /\ Own("valueWeight") \in Buffers
      /\ Own("outputWeight") \in Buffers /\ Own("postNorm") \in Buffers
      /\ Own("gateWeight") \in Buffers /\ Own("upWeight") \in Buffers
      /\ Own("downWeight") \in Buffers /\ Own("keys") \in Buffers /\ Own("values") \in Buffers
      /\ Own("gate") \in Buffers /\ Own("up") \in Buffers
  BY <1>2 DEF Weights
<1>5. ASSUME NEW kernel \in Kernels, NEW o \in Buffers
      PROVE  /\ \A x \in Buffers : Step(kernel, <<x>>, <<o>>) \in Steps
             /\ \A x, y \in Buffers : Step(kernel, <<x, y>>, <<o>>) \in Steps
             /\ \A x, y, z \in Buffers : Step(kernel, <<x, y, z>>, <<o>>) \in Steps
             /\ \A x, y, z, v, w \in Buffers : Step(kernel, <<x, y, z, v, w>>, <<o>>) \in Steps
             /\ \A x, y, o2 \in Buffers : Step(kernel, <<x, y>>, <<o, o2>>) \in Steps
             /\ \A x, y, z, o2 \in Buffers : Step(kernel, <<x, y, z>>, <<o, o2>>) \in Steps
  BY FewBuffers, StepIsTyped
<1>6. ASSUME NEW i \in Makers, NEW x \in Buffers, NEW y \in Buffers, NEW o \in Buffers
      PROVE  IsNode(Linear(i, x, y, o))
  <2>1. "linear" \in Kernels
    BY DEF Kernels
  <2> QED BY <1>5, <2>1, FewNode DEF Linear
<1>7. \A x \in Steps : IsNode(Template(1, <<x>>))
  BY <1>1, FewNode DEF Template
<1>8. \A x, y \in Steps : IsNode(Template(2, <<x, y>>))
  BY <1>1, FewNode DEF Template
<1>9. /\ "embedding" \in Kernels /\ "norm" \in Kernels /\ "argmax" \in Kernels /\ "add" \in Kernels
      /\ "append" \in Kernels /\ "attention" \in Kernels /\ "partial argmax" \in Kernels
      /\ "final argmax" \in Kernels /\ "linear" \in Kernels /\ "silu mul" \in Kernels
      /\ "gated mlp" \in Kernels /\ "residual norm" \in Kernels /\ "rope" \in Kernels
      /\ "query key rope" \in Kernels
  BY DEF Kernels
<1>10. /\ IsNode(EmbeddingNode) /\ IsNode(NormNode) /\ IsNode(AppendNode)
       /\ IsNode(AttentionNode) /\ IsNode(ResidualNode) /\ IsNode(MLPNode) /\ IsNode(AddNode)
       /\ IsNode(FinalNormNode) /\ IsNode(ArgmaxNode) /\ IsNode(TokenNode)
  <2>1. IsNode(EmbeddingNode)
    <3>1. Step("embedding", <<Shared("tokens"), Shared("embedding")>>, <<Hidden(0)>>) \in Steps
      BY <1>2, <1>3, <1>4, <1>5, <1>9
    <3> QED BY <1>7, <3>1 DEF EmbeddingNode
  <2>2. IsNode(NormNode)
    <3>1. Step("norm", <<current, Own("inputNorm")>>, <<Shared("normalized")>>) \in Steps
      BY <1>2, <1>3, <1>4, <1>5, <1>9
    <3> QED BY <1>7, <3>1 DEF NormNode
  <2>3. IsNode(AttentionNode)
    <3>1. Step("attention", <<Shared("rotatedQuery"), Own("keys"), Own("values"), length, table>>, <<Shared("context")>>) \in Steps
      BY <1>2, <1>3, <1>4, <1>5, <1>9
    <3> QED BY <1>7, <3>1 DEF AttentionNode
  <2>4. IsNode(AddNode)
    <3>1. Step("add", <<Shared("afterAttention"), Shared("mlpOutput")>>, <<layerOutput>>) \in Steps
      BY <1>2, <1>3, <1>4, <1>5, <1>9
    <3> QED BY <1>7, <3>1 DEF AddNode
  <2>5. IsNode(FinalNormNode)
    <3>1. Step("norm", <<Hidden(LayerCount), Shared("finalNorm")>>, <<Shared("normalized")>>) \in Steps
      BY <1>2, <1>3, <1>4, <1>5, <1>9
    <3> QED BY <1>7, <3>1 DEF FinalNormNode
  <2>6. IsNode(ArgmaxNode)
    <3>1. Step("argmax", <<Shared("logits")>>, <<Shared("nextTokens")>>) \in Steps
      BY <1>2, <1>3, <1>4, <1>5, <1>9
    <3> QED BY <1>7, <3>1 DEF ArgmaxNode
  <2>7. IsNode(AppendNode)
    <3>1. Step("append", <<Shared("rotatedKey"), length, table>>, <<Own("keys")>>) \in Steps
      BY <1>2, <1>3, <1>4, <1>5, <1>9
    <3>2. Step("append", <<Shared("value"), length, table>>, <<Own("values")>>) \in Steps
      BY <1>2, <1>3, <1>4, <1>5, <1>9
    <3> QED BY <1>8, <3>1, <3>2 DEF AppendNode
  <2>8. IsNode(ResidualNode)
    <3>1. Step("add", <<current, Shared("attentionOutput")>>, <<Shared("afterAttention")>>) \in Steps
      BY <1>2, <1>3, <1>4, <1>5, <1>9
    <3>2. Step("norm", <<Shared("afterAttention"), Own("postNorm")>>, <<Shared("postAttentionNormalized")>>) \in Steps
      BY <1>2, <1>3, <1>4, <1>5, <1>9
    <3> QED BY <1>8, <3>1, <3>2 DEF ResidualNode
  <2>9. IsNode(TokenNode)
    <3>1. Step("partial argmax", <<Shared("normalized"), Shared("languageModelHead")>>, <<Shared("partialValues"), Shared("partialTokens")>>) \in Steps
      BY <1>2, <1>3, <1>4, <1>5, <1>9
    <3>2. Step("final argmax", <<Shared("partialValues"), Shared("partialTokens")>>, <<Shared("nextTokens")>>) \in Steps
      BY <1>2, <1>3, <1>4, <1>5, <1>9
    <3> QED BY <1>8, <3>1, <3>2 DEF TokenNode
  <2>10. IsNode(MLPNode)
    <3>1. Step("linear", <<Shared("postAttentionNormalized"), Own("gateWeight")>>, <<Own("gate")>>) \in Steps
      BY <1>2, <1>3, <1>4, <1>5, <1>9
    <3>2. Step("linear", <<Shared("postAttentionNormalized"), Own("upWeight")>>, <<Own("up")>>) \in Steps
      BY <1>2, <1>3, <1>4, <1>5, <1>9
    <3>3. Step("silu mul", <<Own("gate"), Own("up")>>, <<Shared("gated")>>) \in Steps
      BY <1>2, <1>3, <1>4, <1>5, <1>9
    <3> QED BY <1>1, <3>1, <3>2, <3>3, FewNode DEF MLPNode, Template
  <2> QED BY <2>1, <2>2, <2>3, <2>4, <2>5, <2>6, <2>7, <2>8, <2>9, <2>10
<1>11. ASSUME NEW i \in Makers
       PROVE  /\ IsNode(OutputNode(i)) /\ IsNode(DownNode(i)) /\ IsNode(HeadNode(i))
              /\ IsNode(ProjectionNode(i, "queryWeight", "query"))
              /\ IsNode(ProjectionNode(i, "keyWeight", "key"))
              /\ IsNode(ProjectionNode(i, "valueWeight", "value"))
  BY <1>3, <1>4, <1>6 DEF OutputNode, DownNode, HeadNode, ProjectionNode
<1>12. ASSUME NEW i \in Makers
       PROVE  IsNode(FusedResidualNode(i)) /\ IsNode(FusedMLPNode(i))
  <2>1. Step("residual norm", <<current, Shared("attentionOutput"), Own("postNorm")>>,
             <<Shared("afterAttention"), Shared("postAttentionNormalized")>>) \in Steps
    BY <1>2, <1>3, <1>4, <1>5, <1>9
  <2>2. Step("gated mlp", <<Shared("postAttentionNormalized"), Own("gateWeight"), Own("upWeight")>>,
             <<Shared("gated")>>) \in Steps
    BY <1>2, <1>3, <1>4, <1>5, <1>9
  <2> QED BY <2>1, <2>2, FewNode DEF FusedResidualNode, FusedMLPNode
<1>13. ASSUME NEW i \in Makers PROVE IsNode(RotationNode(i))
  <2>1. Step("query key rope", <<Shared("query"), Shared("key"), length>>,
             <<Shared("rotatedQuery"), Shared("rotatedKey")>>) \in Steps
    BY <1>2, <1>3, <1>4, <1>5, <1>9
  <2>2. /\ RoPE(Shared("query"), Shared("rotatedQuery")) \in Steps
        /\ RoPE(Shared("key"), Shared("rotatedKey")) \in Steps
    BY <1>2, <1>3, <1>4, <1>5, <1>9 DEF RoPE
  <2>3. CASE i = "generated"
    BY <1>1, <2>1, <2>3, FewNode DEF RotationNode
  <2>4. CASE i # "generated"
    BY <1>8, <2>2, <2>4 DEF RotationNode
  <2> QED BY <2>3, <2>4
<1> QED BY <1>10, <1>11, <1>12, <1>13

----------------------------------------------------------------------------
(* The candidates of the fusions. *)

NormQKVNode ==
  Template(3, <<Step("norm qkv",
                     <<current, Own("queryWeight"), Own("keyWeight"), Own("valueWeight"),
                       Own("inputNorm")>>,
                     <<Shared("query"), Shared("key"), Shared("value")>>),
                RoPE(Shared("query"), Shared("rotatedQuery")),
                RoPE(Shared("key"), Shared("rotatedKey"))>>)
QKVRoPENode ==
  Template(2, <<Step("norm", <<current, Own("inputNorm")>>, <<Shared("normalized")>>),
                Step("qkv rope",
                     <<Shared("normalized"), Own("queryWeight"), Own("keyWeight"),
                       Own("valueWeight"), length>>,
                     <<Shared("rotatedQuery"), Shared("rotatedKey"), Shared("value")>>)>>)
AttentionOutputNode ==
  Template(1, <<Step("attention output",
                     <<Shared("rotatedQuery"), Own("keys"), Own("values"), length, table,
                       Own("outputWeight")>>,
                     <<Shared("attentionOutput")>>)>>)
OutputResidualNode ==
  Template(2, <<Step("linear residual", <<Shared("context"), Own("outputWeight"), current>>,
                     <<Shared("afterAttention")>>),
                Step("norm", <<Shared("afterAttention"), Own("postNorm")>>,
                     <<Shared("postAttentionNormalized")>>)>>)
DownResidualNode ==
  Template(1, <<Step("linear residual",
                     <<Shared("gated"), Own("downWeight"), Shared("afterAttention")>>,
                     <<layerOutput>>)>>)

\* The fusions, with names for their candidates.
LEMMA FusionsOfStage ==
  /\ Fusion("rmsnorm_qkv") =
       [begin |-> marks.qkv, candidate |-> NormQKVNode, inputs |-> {current},
        outputs |-> {Shared("rotatedQuery"), Shared("rotatedKey"), Shared("value")}]
  /\ Fusion("qkv_rope") =
       [begin |-> marks.qkv, candidate |-> QKVRoPENode, inputs |-> {current},
        outputs |-> {Shared("rotatedQuery"), Shared("rotatedKey"), Shared("value")}]
  /\ Fusion("paged_attention_output_projection") =
       [begin |-> marks.attention, candidate |-> AttentionOutputNode,
        inputs |-> {Shared("rotatedQuery"), Own("keys"), Own("values")},
        outputs |-> {Shared("attentionOutput")}]
  /\ Fusion("output_projection_residual") =
       [begin |-> marks.output, candidate |-> OutputResidualNode,
        inputs |-> {Shared("context"), current},
        outputs |-> {Shared("afterAttention"), Shared("postAttentionNormalized")}]
  /\ Fusion("down_projection_residual") =
       [begin |-> marks.down, candidate |-> DownResidualNode,
        inputs |-> {Shared("gated"), Shared("afterAttention")}, outputs |-> {layerOutput}]
BY DEF Fusion, NormQKVNode, QKVRoPENode, AttentionOutputNode, OutputResidualNode, DownResidualNode

LEMMA CandidatesAreTyped ==
  ASSUME layer \in Layers
  PROVE  /\ IsNode(NormQKVNode) /\ IsNode(QKVRoPENode) /\ IsNode(AttentionOutputNode)
         /\ IsNode(OutputResidualNode) /\ IsNode(DownResidualNode)
<1>1. "template" \in Makers
  BY DEF Makers
<1>2. /\ current \in Buffers /\ layerOutput \in Buffers /\ length \in Buffers /\ table \in Buffers
      /\ \A x \in Arena \union {"embedding", "finalNorm", "languageModelHead"} : Shared(x) \in Buffers
      /\ \A x \in Weights \union {"keys", "values", "length", "table", "gate", "up"} : Own(x) \in Buffers
  BY BufferIsTyped
<1>3. /\ Shared("normalized") \in Buffers /\ Shared("query") \in Buffers
      /\ Shared("key") \in Buffers /\ Shared("value") \in Buffers
      /\ Shared("rotatedQuery") \in Buffers /\ Shared("rotatedKey") \in Buffers
      /\ Shared("context") \in Buffers /\ Shared("attentionOutput") \in Buffers
      /\ Shared("afterAttention") \in Buffers /\ Shared("postAttentionNormalized") \in Buffers
      /\ Shared("gated") \in Buffers
  BY <1>2 DEF Arena
<1>4. /\ Own("inputNorm") \in Buffers /\ Own("queryWeight") \in Buffers
      /\ Own("keyWeight") \in Buffers /\ Own("valueWeight") \in Buffers
      /\ Own("outputWeight") \in Buffers /\ Own("postNorm") \in Buffers
      /\ Own("downWeight") \in Buffers /\ Own("keys") \in Buffers /\ Own("values") \in Buffers
  BY <1>2 DEF Weights
<1>5. /\ "norm qkv" \in Kernels /\ "rope" \in Kernels /\ "norm" \in Kernels /\ "qkv rope" \in Kernels
      /\ "attention output" \in Kernels /\ "linear residual" \in Kernels
  BY DEF Kernels
<1>6. ASSUME NEW kernel \in Kernels, NEW o \in Buffers
      PROVE  /\ \A x, y \in Buffers : Step(kernel, <<x, y>>, <<o>>) \in Steps
             /\ \A x, y, z \in Buffers : Step(kernel, <<x, y, z>>, <<o>>) \in Steps
             /\ \A x, y, z, v, w, u \in Buffers :
                  Step(kernel, <<x, y, z, v, w, u>>, <<o>>) \in Steps
             /\ \A x, y, z, v, w, o2, o3 \in Buffers :
                  Step(kernel, <<x, y, z, v, w>>, <<o, o2, o3>>) \in Steps
  BY FewBuffers, StepIsTyped
<1>7. /\ RoPE(Shared("query"), Shared("rotatedQuery")) \in Steps
      /\ RoPE(Shared("key"), Shared("rotatedKey")) \in Steps
  BY <1>2, <1>3, <1>5, <1>6 DEF RoPE
<1>8. IsNode(NormQKVNode)
  <2>1. Step("norm qkv", <<current, Own("queryWeight"), Own("keyWeight"), Own("valueWeight"),
                           Own("inputNorm")>>,
             <<Shared("query"), Shared("key"), Shared("value")>>) \in Steps
    BY <1>2, <1>3, <1>4, <1>5, <1>6
  <2> QED BY <1>1, <1>7, <2>1, FewNode DEF NormQKVNode, Template
<1>9. IsNode(QKVRoPENode)
  <2>1. Step("norm", <<current, Own("inputNorm")>>, <<Shared("normalized")>>) \in Steps
    BY <1>2, <1>3, <1>4, <1>5, <1>6
  <2>2. Step("qkv rope", <<Shared("normalized"), Own("queryWeight"), Own("keyWeight"),
                           Own("valueWeight"), length>>,
             <<Shared("rotatedQuery"), Shared("rotatedKey"), Shared("value")>>) \in Steps
    BY <1>2, <1>3, <1>4, <1>5, <1>6
  <2> QED BY <1>1, <2>1, <2>2, FewNode DEF QKVRoPENode, Template
<1>10. IsNode(AttentionOutputNode)
  <2>1. Step("attention output",
             <<Shared("rotatedQuery"), Own("keys"), Own("values"), length, table,
               Own("outputWeight")>>, <<Shared("attentionOutput")>>) \in Steps
    BY <1>2, <1>3, <1>4, <1>5, <1>6
  <2> QED BY <1>1, <2>1, FewNode DEF AttentionOutputNode, Template
<1>11. IsNode(OutputResidualNode)
  <2>1. Step("linear residual", <<Shared("context"), Own("outputWeight"), current>>,
             <<Shared("afterAttention")>>) \in Steps
    BY <1>2, <1>3, <1>4, <1>5, <1>6
  <2>2. Step("norm", <<Shared("afterAttention"), Own("postNorm")>>,
             <<Shared("postAttentionNormalized")>>) \in Steps
    BY <1>2, <1>3, <1>4, <1>5, <1>6
  <2> QED BY <1>1, <2>1, <2>2, FewNode DEF OutputResidualNode, Template
<1>12. IsNode(DownResidualNode)
  <2>1. Step("linear residual", <<Shared("gated"), Own("downWeight"), Shared("afterAttention")>>,
             <<layerOutput>>) \in Steps
    BY <1>2, <1>3, <1>4, <1>5, <1>6
  <2> QED BY <1>1, <2>1, FewNode DEF DownResidualNode, Template
<1> QED BY <1>8, <1>9, <1>10, <1>11, <1>12

----------------------------------------------------------------------------
(* What the actions push. *)

\* Concatenation is associative.
LEMMA EntriesAssociate ==
  ASSUME NEW s \in Seq(Entries), NEW t \in Seq(Entries), NEW u \in Seq(Entries)
  PROVE  s \o (t \o u) = (s \o t) \o u
BY ConcatAssociative

LEMMA TracksPush ==
  ASSUME NEW u, NEW s, Tracks(u, s)
  PROVE  /\ \A a : IsNode(a) => Tracks(u \o UsesOf(<<a>>), s \o StepsOf(<<a>>))
         /\ \A a, b : IsNode(a) /\ IsNode(b) => Tracks(u \o UsesOf(<<a, b>>), s \o StepsOf(<<a, b>>))
         /\ \A a, b, c : IsNode(a) /\ IsNode(b) /\ IsNode(c) =>
              Tracks(u \o UsesOf(<<a, b, c>>), s \o StepsOf(<<a, b, c>>))
         /\ \A a, b, c, d, e : IsNode(a) /\ IsNode(b) /\ IsNode(c) /\ IsNode(d) /\ IsNode(e) =>
              Tracks(u \o UsesOf(<<a, b, c, d, e>>), s \o StepsOf(<<a, b, c, d, e>>))
<1>1. u \in Seq(Uses) /\ s \in Seq(Entries)
  BY DEF Tracks
<1>2. ASSUME NEW a, IsNode(a)
      PROVE  Tracks(u \o UsesOf(<<a>>), s \o StepsOf(<<a>>))
  <2>1. a.use \in Uses
    BY <1>2, NodeIsTyped
  <2>2. u \o <<a.use>> = Append(u, a.use)
    BY <1>1, <2>1
  <2> QED BY <1>2, <2>2, StepsOfOne, TracksNode
<1>3. ASSUME NEW a, NEW b, IsNode(a), IsNode(b)
      PROVE  Tracks(u \o UsesOf(<<a, b>>), s \o StepsOf(<<a, b>>))
  <2>1. a.use \in Uses /\ b.use \in Uses /\ a.steps \in Seq(Entries) /\ b.steps \in Seq(Entries)
    BY <1>3, NodeIsTyped
  <2>2. UsesOf(<<a, b>>) = <<a.use, b.use>> /\ StepsOf(<<a, b>>) = a.steps \o b.steps
    BY <1>3, StepsOfTwo
  <2>3. u \o <<a.use, b.use>> = Append(Append(u, a.use), b.use)
    BY <1>1, <2>1
  <2>4. s \o (a.steps \o b.steps) = (s \o a.steps) \o b.steps
    BY <1>1, <2>1, EntriesAssociate
  <2>5. Tracks(Append(u, a.use), s \o a.steps)
    BY <1>3, TracksNode
  <2>6. Tracks(Append(Append(u, a.use), b.use), (s \o a.steps) \o b.steps)
    BY <1>3, <2>5, TracksNode
  <2> QED BY <2>2, <2>3, <2>4, <2>6
<1>4. ASSUME NEW a, NEW b, NEW c, IsNode(a), IsNode(b), IsNode(c)
      PROVE  Tracks(u \o UsesOf(<<a, b, c>>), s \o StepsOf(<<a, b, c>>))
  <2>1. /\ a.use \in Uses /\ b.use \in Uses /\ c.use \in Uses
        /\ a.steps \in Seq(Entries) /\ b.steps \in Seq(Entries) /\ c.steps \in Seq(Entries)
    BY <1>4, NodeIsTyped
  <2>2. /\ UsesOf(<<a, b>>) = <<a.use, b.use>> /\ StepsOf(<<a, b>>) = a.steps \o b.steps
        /\ UsesOf(<<a, b, c>>) = <<a.use, b.use, c.use>>
        /\ StepsOf(<<a, b, c>>) = (a.steps \o b.steps) \o c.steps
    <3>1. UsesOf(<<a, b>>) = <<a.use, b.use>> /\ StepsOf(<<a, b>>) = a.steps \o b.steps
      BY <1>4, StepsOfTwo
    <3>2. StepsOf(<<a, b, c>>) = ThreeSteps(a, b, c) /\ UsesOf(<<a, b, c>>) = <<a.use, b.use, c.use>>
      BY <1>4, StepsOfThree
    <3> QED BY <3>1, <3>2 DEF ThreeSteps
  <2>3. u \o <<a.use, b.use, c.use>> = Append(u \o <<a.use, b.use>>, c.use)
    BY <1>1, <2>1
  <2>4. s \o ((a.steps \o b.steps) \o c.steps) = (s \o (a.steps \o b.steps)) \o c.steps
    <3> DEFINE r == a.steps \o b.steps
    <3>1. r \in Seq(Entries)
      BY <2>1
    <3> HIDE DEF r
    <3>2. s \o (r \o c.steps) = (s \o r) \o c.steps
      BY ZenonT(60), <1>1, <2>1, <3>1, EntriesAssociate
    <3> QED BY <3>2 DEF r
  <2>5. Tracks(u \o <<a.use, b.use>>, s \o (a.steps \o b.steps))
    BY <1>3, <1>4, <2>2
  <2>6. Tracks(Append(u \o <<a.use, b.use>>, c.use), (s \o (a.steps \o b.steps)) \o c.steps)
    BY <1>4, <2>5, TracksNode
  <2> QED BY <2>2, <2>3, <2>4, <2>6
<1>5. ASSUME NEW a, NEW b, NEW c, NEW d, NEW e, IsNode(a), IsNode(b), IsNode(c), IsNode(d), IsNode(e)
      PROVE  Tracks(u \o UsesOf(<<a, b, c, d, e>>), s \o StepsOf(<<a, b, c, d, e>>))
  <2>1. /\ a.use \in Uses /\ b.use \in Uses /\ c.use \in Uses /\ d.use \in Uses /\ e.use \in Uses
        /\ a.steps \in Seq(Entries) /\ b.steps \in Seq(Entries) /\ c.steps \in Seq(Entries)
        /\ d.steps \in Seq(Entries) /\ e.steps \in Seq(Entries)
    BY <1>5, NodeIsTyped
  <2> DEFINE r == (a.steps \o b.steps) \o c.steps
             v == <<a.use, b.use, c.use>>
  <2>2. /\ UsesOf(<<a, b, c>>) = v /\ StepsOf(<<a, b, c>>) = r
        /\ UsesOf(<<a, b, c, d, e>>) = <<a.use, b.use, c.use, d.use, e.use>>
        /\ StepsOf(<<a, b, c, d, e>>) = (r \o d.steps) \o e.steps
    <3>1. StepsOf(<<a, b, c>>) = ThreeSteps(a, b, c) /\ UsesOf(<<a, b, c>>) = v
      BY <1>5, StepsOfThree
    <3>2. /\ StepsOf(<<a, b, c, d, e>>) = FiveSteps(a, b, c, d, e)
          /\ UsesOf(<<a, b, c, d, e>>) = <<a.use, b.use, c.use, d.use, e.use>>
      BY <1>5, StepsOfFive
    <3> QED BY <3>1, <3>2 DEF ThreeSteps, FiveSteps
  <2>3. u \o <<a.use, b.use, c.use, d.use, e.use>> = Append(Append(u \o v, d.use), e.use)
    BY SMTT(40), <1>1, <2>1
  <2>4. r \in Seq(Entries) /\ r \o d.steps \in Seq(Entries)
    BY <2>1
  <2>5. Tracks(u \o v, s \o r)
    BY <1>4, <1>5, <2>2
  <2> HIDE DEF r, v
  <2>6. s \o ((r \o d.steps) \o e.steps) = ((s \o r) \o d.steps) \o e.steps
    <3>1. s \o ((r \o d.steps) \o e.steps) = (s \o (r \o d.steps)) \o e.steps
      BY ZenonT(60), <1>1, <2>1, <2>4, EntriesAssociate
    <3>2. s \o (r \o d.steps) = (s \o r) \o d.steps
      BY ZenonT(60), <1>1, <2>1, <2>4, EntriesAssociate
    <3> QED BY <3>1, <3>2
  <2>7. Tracks(Append(u \o v, d.use), (s \o r) \o d.steps)
    BY <1>5, <2>5, TracksNode
  <2>8. Tracks(Append(Append(u \o v, d.use), e.use), ((s \o r) \o d.steps) \o e.steps)
    BY <1>5, <2>7, TracksNode
  <2> QED BY <2>2, <2>3, <2>6, <2>8
<1> QED BY <1>2, <1>3, <1>4, <1>5

----------------------------------------------------------------------------
(* The marks of the regions and the uses that are tracked before them. *)

MarkIn(mark, u, s) ==
  /\ mark.steps \in 0 .. Len(s) /\ mark.uses \in 0 .. Len(u)
  /\ Tracks(Upto(u, mark.uses), Upto(s, mark.steps))

\* A mark at the end of the steps and uses is a mark of both.
LEMMA MarkBegins ==
  ASSUME NEW u, NEW s, Tracks(u, s), NEW v \in Seq(Uses), NEW t \in Seq(Entries),
         NEW mark, mark.steps = Len(s), mark.uses = Len(u)
  PROVE  MarkIn(mark, u \o v, s \o t)
<1>1. u \in Seq(Uses) /\ s \in Seq(Entries)
  BY DEF Tracks
<1>2. Upto(u \o v, mark.uses) = u /\ Upto(s \o t, mark.steps) = s
  BY <1>1, CutAt
<1>3. mark.steps \in 0 .. Len(s \o t) /\ mark.uses \in 0 .. Len(u \o v)
  BY <1>1
<1> QED BY <1>2, <1>3 DEF MarkIn

\* What is pushed after a mark keeps it.
LEMMA MarkStays ==
  ASSUME NEW u \in Seq(Uses), NEW s \in Seq(Entries), NEW v \in Seq(Uses), NEW t \in Seq(Entries),
         NEW mark, MarkIn(mark, u, s)
  PROVE  MarkIn(mark, u \o v, s \o t)
<1>1. /\ mark.uses \in 0 .. Len(u \o v) /\ Upto(u \o v, mark.uses) = Upto(u, mark.uses)
  BY CutBefore DEF MarkIn
<1>2. /\ mark.steps \in 0 .. Len(s \o t) /\ Upto(s \o t, mark.steps) = Upto(s, mark.steps)
  BY CutBefore DEF MarkIn
<1> QED BY <1>1, <1>2 DEF MarkIn

\* What replaces the steps and uses beyond a mark keeps it.
LEMMA MarkReplaced ==
  ASSUME NEW u \in Seq(Uses), NEW s \in Seq(Entries), NEW mark, MarkIn(mark, u, s),
         NEW node, IsNode(node)
  PROVE  LET v == Append(Upto(u, mark.uses), node.use)
             t == Upto(s, mark.steps) \o node.steps
         IN  Tracks(v, t) /\ MarkIn(mark, v, t)
<1> DEFINE p == Upto(u, mark.uses)
           q == Upto(s, mark.steps)
<1>1. /\ Tracks(p, q) /\ Len(p) = mark.uses /\ Len(q) = mark.steps
      /\ p \in Seq(Uses) /\ q \in Seq(Entries)
  BY Cut DEF MarkIn
<1> HIDE DEF p, q
<1>2. Tracks(Append(p, node.use), q \o node.steps)
  BY <1>1, TracksNode
<1>3. <<node.use>> \in Seq(Uses) /\ node.steps \in Seq(Entries) /\ Append(p, node.use) = p \o <<node.use>>
  BY <1>1, NodeIsTyped
<1>4. MarkIn(mark, p \o <<node.use>>, q \o node.steps)
  BY <1>1, <1>3, MarkBegins
<1> QED BY <1>2, <1>3, <1>4 DEF p, q

Regions == {"qkv", "attention", "output", "down"}
Typed ==
  /\ lengths \in Compilations /\ stage \in DOMAIN lengths /\ layer \in Layers
  /\ marks \in [Regions -> [steps : Nat, uses : Nat]]

\* The regions that a fusion may yet replace.
Open(region) ==
  CASE region = "qkv"       -> pc \in {"rmsnorm_qkv", "qkv_rope"}
    [] region = "attention" -> pc = "paged_attention_output_projection"
    [] region = "output"    -> \/ pc \in {"paged_attention_output_projection",
                                          "output_projection_residual"}
                               \/ pc = "residual" /\ MayFuseOutput
    [] region = "down"      -> pc = "down_projection_residual"

AuditInv ==
  /\ Typed
  /\ Tracks(uses, steps)
  /\ Tracks(built.uses, built.sequence) /\ Tracks(built.tokenUses, built.tokenSequence)
  /\ \A region \in Regions : Open(region) => MarkIn(marks[region], uses, steps)

\* Which regions are open where.
LEMMA OpenIs ==
  /\ Open("qkv") <=> pc \in {"rmsnorm_qkv", "qkv_rope"}
  /\ Open("attention") <=> pc = "paged_attention_output_projection"
  /\ Open("output") <=> \/ pc \in {"paged_attention_output_projection", "output_projection_residual"}
                        \/ pc = "residual" /\ MayFuseOutput
  /\ Open("down") <=> pc = "down_projection_residual"
  /\ Regions = {"qkv", "attention", "output", "down"}
BY DEF Open, Regions

\* A stage has between one token and as many as the cache holds.
LEMMA StageIsTyped ==
  ASSUME Typed
  PROVE  lengths \in Seq(1 .. Capacity) /\ Rows \in 1 .. Capacity /\ layer \in Nat /\ 1 \in Layers
BY DecoderStageAssumption DEF Typed, Rows, Layers

\* The audit begins with nothing to count.
LEMMA AuditBegins == Init => AuditInv
<1> SUFFICES ASSUME Init PROVE AuditInv
  OBVIOUS
<1>1. Begin = [steps |-> 0, uses |-> 0]
  BY DEF Init, Begin
<1>2. marks \in [Regions -> [steps : Nat, uses : Nat]]
  BY <1>1 DEF Init, Regions
<1>3. /\ lengths \in Compilations /\ lengths \in Seq(1 .. Capacity) /\ lengths # <<>>
      /\ stage = 1 /\ layer = 1
  BY DecoderStageAssumption DEF Init
<1>4. stage \in DOMAIN lengths
  BY <1>3
<1>5. layer \in Layers
  BY <1>3, DecoderStageAssumption DEF Layers
<1>6. \A region \in Regions : ~Open(region)
  BY OpenIs DEF Init
<1>7. steps = <<>> /\ uses = <<>> /\ built = Nothing
  BY DEF Init
<1> QED BY <1>2, <1>3, <1>4, <1>5, <1>6, <1>7, TracksNothing DEF AuditInv, Typed, Nothing

\* Nodes whose uses count their steps.
Countable(nodes) ==
  /\ StepsOf(nodes) \in Seq(Entries) /\ UsesOf(nodes) \in Seq(Uses)
  /\ \A u, s : Tracks(u, s) => Tracks(u \o UsesOf(nodes), s \o StepsOf(nodes))

\* Nodes that are well-formed are counted as they are pushed.
LEMMA NodesAreCountable ==
  /\ \A a : IsNode(a) => Countable(<<a>>)
  /\ \A a, b : IsNode(a) /\ IsNode(b) => Countable(<<a, b>>)
  /\ \A a, b, c : IsNode(a) /\ IsNode(b) /\ IsNode(c) => Countable(<<a, b, c>>)
  /\ \A a, b, c, d, e : IsNode(a) /\ IsNode(b) /\ IsNode(c) /\ IsNode(d) /\ IsNode(e) =>
       Countable(<<a, b, c, d, e>>)
<1>1. ASSUME NEW a, IsNode(a) PROVE Countable(<<a>>)
  <2>1. StepsOf(<<a>>) = a.steps /\ UsesOf(<<a>>) = <<a.use>>
    BY StepsOfOne
  <2>2. a.steps \in Seq(Entries) /\ <<a.use>> \in Seq(Uses)
    BY <1>1, NodeIsTyped
  <2> QED BY <1>1, <2>1, <2>2, TracksPush DEF Countable
<1>2. ASSUME NEW a, NEW b, IsNode(a), IsNode(b) PROVE Countable(<<a, b>>)
  <2>1. StepsOf(<<a, b>>) = a.steps \o b.steps /\ UsesOf(<<a, b>>) = <<a.use, b.use>>
    BY <1>2, StepsOfTwo
  <2>2. a.steps \in Seq(Entries) /\ b.steps \in Seq(Entries) /\ a.use \in Uses /\ b.use \in Uses
    BY <1>2, NodeIsTyped
  <2>3. a.steps \o b.steps \in Seq(Entries) /\ <<a.use, b.use>> \in Seq(Uses)
    BY <2>2
  <2> QED BY <1>2, <2>1, <2>3, TracksPush DEF Countable
<1>3. ASSUME NEW a, NEW b, NEW c, IsNode(a), IsNode(b), IsNode(c) PROVE Countable(<<a, b, c>>)
  <2>1. StepsOf(<<a, b, c>>) = ThreeSteps(a, b, c) /\ UsesOf(<<a, b, c>>) = <<a.use, b.use, c.use>>
    BY <1>3, StepsOfThree
  <2>2. /\ a.steps \in Seq(Entries) /\ b.steps \in Seq(Entries) /\ c.steps \in Seq(Entries)
        /\ a.use \in Uses /\ b.use \in Uses /\ c.use \in Uses
    BY <1>3, NodeIsTyped
  <2>3. ThreeSteps(a, b, c) \in Seq(Entries) /\ <<a.use, b.use, c.use>> \in Seq(Uses)
    BY <2>2 DEF ThreeSteps
  <2> QED BY <1>3, <2>1, <2>3, TracksPush DEF Countable
<1>4. ASSUME NEW a, NEW b, NEW c, NEW d, NEW e, IsNode(a), IsNode(b), IsNode(c), IsNode(d), IsNode(e)
      PROVE  Countable(<<a, b, c, d, e>>)
  <2>1. /\ StepsOf(<<a, b, c, d, e>>) = FiveSteps(a, b, c, d, e)
        /\ UsesOf(<<a, b, c, d, e>>) = <<a.use, b.use, c.use, d.use, e.use>>
    BY <1>4, StepsOfFive
  <2>2. /\ a.steps \in Seq(Entries) /\ b.steps \in Seq(Entries) /\ c.steps \in Seq(Entries)
        /\ d.steps \in Seq(Entries) /\ e.steps \in Seq(Entries)
        /\ a.use \in Uses /\ b.use \in Uses /\ c.use \in Uses /\ d.use \in Uses /\ e.use \in Uses
    BY <1>4, NodeIsTyped
  <2>3. FiveSteps(a, b, c, d, e) \in Seq(Entries)
    BY <2>2 DEF ThreeSteps, FiveSteps
  <2>4. <<a.use, b.use, c.use, d.use, e.use>> \in Seq(Uses)
    BY <2>2
  <2> QED BY <1>4, <2>1, <2>3, <2>4, TracksPush DEF Countable
<1> QED BY <1>1, <1>2, <1>3, <1>4

\* What is pushed is counted, and the regions that have begun stay.
LEMMA PushAudits ==
  ASSUME AuditInv, NEW nodes, Countable(nodes), Push(nodes)
  PROVE  /\ Tracks(uses, steps)' /\ MarkIn(Begin, uses', steps')
         /\ \A mark : MarkIn(mark, uses, steps) => MarkIn(mark, uses', steps')
<1>1. /\ uses' = uses \o UsesOf(nodes) /\ steps' = steps \o StepsOf(nodes)
      /\ UsesOf(nodes) \in Seq(Uses) /\ StepsOf(nodes) \in Seq(Entries)
      /\ uses \in Seq(Uses) /\ steps \in Seq(Entries) /\ Tracks(uses, steps)
  BY DEF Push, Countable, AuditInv, Tracks
<1>2. Tracks(uses, steps)'
  BY <1>1 DEF Countable
<1>3. MarkIn(Begin, uses', steps')
  BY <1>1, MarkBegins DEF Begin
<1>4. ASSUME NEW mark, MarkIn(mark, uses, steps) PROVE MarkIn(mark, uses', steps')
  BY <1>1, <1>4, MarkStays
<1> QED BY <1>2, <1>3, <1>4

\* A candidate takes the place of the region that its fusion names.
LEMMA ReplaceAudits ==
  ASSUME AuditInv, NEW pattern, IsNode(Fusion(pattern).candidate),
         MarkIn(Fusion(pattern).begin, uses, steps), Replace(pattern)
  PROVE  Tracks(uses, steps)' /\ MarkIn(Fusion(pattern).begin, uses', steps')
<1>1. uses \in Seq(Uses) /\ steps \in Seq(Entries)
  BY DEF AuditInv, Tracks
<1>2. /\ steps' = Upto(steps, Fusion(pattern).begin.steps) \o Fusion(pattern).candidate.steps
      /\ uses' = Append(Upto(uses, Fusion(pattern).begin.uses), Fusion(pattern).candidate.use)
  BY DEF Replace, Upto
<1> QED BY <1>1, <1>2, MarkReplaced

\* What each step of buildStage pushes, as nodes.
LEMMA NodesPushed ==
  ASSUME layer \in Layers
  PROVE  /\ Embed => Push(<<EmbeddingNode>>)
         /\ Project => \E q, k, v, r \in Makers :
              Push(<<NormNode, ProjectionNode(q, "queryWeight", "query"),
                     ProjectionNode(k, "keyWeight", "key"),
                     ProjectionNode(v, "valueWeight", "value"), RotationNode(r)>>)
         /\ Attend => \E o \in Makers : Push(<<AppendNode, AttentionNode, OutputNode(o)>>)
         /\ Residual => \/ Push(<<ResidualNode>>)
                        \/ \E r \in Makers : Push(<<FusedResidualNode(r)>>)
         /\ MLP => Push(<<MLPNode>>) \/ \E g \in Makers : Push(<<FusedMLPNode(g)>>)
         /\ Down => \E d \in Makers : Push(<<DownNode(d), AddNode>>)
<1>1. Embed => Push(<<EmbeddingNode>>)
  BY DEF Embed, EmbeddingNode
<1>2. ASSUME Project
      PROVE  \E q, k, v, r \in Makers :
               Push(<<NormNode, ProjectionNode(q, "queryWeight", "query"),
                      ProjectionNode(k, "keyWeight", "key"),
                      ProjectionNode(v, "valueWeight", "value"), RotationNode(r)>>)
  <2>1. PICK q \in Makers, k \in Makers, v \in Makers, r \in Makers :
          Push(<<NormNode>> \o Append(<<ProjectionNode(q, "queryWeight", "query"),
                                        ProjectionNode(k, "keyWeight", "key"),
                                        ProjectionNode(v, "valueWeight", "value")>>,
                                      RotationNode(r)))
    BY <1>2, GeneratedMakes DEF Project, NormNode, ProjectionNode, RotationNode
  <2>2. ASSUME NEW a, NEW b, NEW c, NEW d, NEW e
        PROVE  <<a>> \o Append(<<b, c, d>>, e) = <<a, b, c, d, e>>
    <3> DEFINE T == {a, b, c, d, e}
               s == <<b, c, d, e>>
               t == <<a>> \o s
               u == <<a, b, c, d, e>>
    <3>1. Append(<<b, c, d>>, e) = s
      BY AppendFourth
    <3>2. t \in Seq(T) /\ Len(t) = 5 /\ u \in Seq(T) /\ Len(u) = 5
      OBVIOUS
    <3>3. \A i \in 1 .. 5 : t[i] = u[i]
      OBVIOUS
    <3> HIDE DEF t, u, T
    <3>4. t = u
      BY <3>2, <3>3, SeqEqual
    <3> QED BY <3>1, <3>4 DEF t, u
  <2> DEFINE x == ProjectionNode(q, "queryWeight", "query")
             y == ProjectionNode(k, "keyWeight", "key")
             z == ProjectionNode(v, "valueWeight", "value")
  <2>3. Push(<<NormNode>> \o Append(<<x, y, z>>, RotationNode(r)))
    BY <2>1
  <2> HIDE DEF x, y, z
  <2>4. <<NormNode>> \o Append(<<x, y, z>>, RotationNode(r)) = <<NormNode, x, y, z, RotationNode(r)>>
    BY <2>2
  <2>5. Push(<<NormNode, x, y, z, RotationNode(r)>>)
    BY <2>3, <2>4
  <2> QED BY <2>5 DEF x, y, z
<1>3. ASSUME Attend PROVE \E o \in Makers : Push(<<AppendNode, AttentionNode, OutputNode(o)>>)
  BY <1>3, GeneratedMakes DEF Attend, AppendNode, AttentionNode, OutputNode
<1>4. ASSUME Residual
      PROVE  Push(<<ResidualNode>>) \/ \E r \in Makers : Push(<<FusedResidualNode(r)>>)
  BY <1>4, GeneratedMakes DEF Residual, ResidualNode, FusedResidualNode
<1>5. ASSUME MLP PROVE Push(<<MLPNode>>) \/ \E g \in Makers : Push(<<FusedMLPNode(g)>>)
  BY <1>5, GeneratedMakes DEF MLP, MLPNode, FusedMLPNode
<1>6. ASSUME Down PROVE \E d \in Makers : Push(<<DownNode(d), AddNode>>)
  BY <1>6, GeneratedMakes DEF Down, DownNode, AddNode
<1> QED BY <1>1, <1>2, <1>3, <1>4, <1>5, <1>6

----------------------------------------------------------------------------
(* Every action keeps the uses and the steps together. *)

\* The regions that are open after a step depend on where it leads.
LEMMA OpenNext ==
  \A region \in Regions : Open(region)' <=>
    CASE region = "qkv"       -> pc' \in {"rmsnorm_qkv", "qkv_rope"}
      [] region = "attention" -> pc' = "paged_attention_output_projection"
      [] region = "output"    -> \/ pc' \in {"paged_attention_output_projection",
                                             "output_projection_residual"}
                                 \/ pc' = "residual" /\ MayFuseOutput'
      [] region = "down"      -> pc' = "down_projection_residual"
BY DEF Open

LEMMA MarksAreTyped ==
  ASSUME Typed, Tracks(uses, steps)
  PROVE  /\ Begin \in [steps : Nat, uses : Nat]
         /\ [steps |-> Begin.steps + 2, uses |-> Begin.uses + 1] \in [steps : Nat, uses : Nat]
         /\ [steps |-> Begin.steps + 3, uses |-> Begin.uses + 2] \in [steps : Nat, uses : Nat]
<1>1. Len(steps) \in Nat /\ Len(uses) \in Nat
  BY DEF Tracks
<1>2. Begin \in [steps : Nat, uses : Nat] /\ Begin.steps \in Nat /\ Begin.uses \in Nat
  BY <1>1 DEF Begin
<1> QED BY <1>2

\* Each step of buildStage keeps the audit and the marks of the open regions.
LEMMA EmbedAudits ==
  ASSUME AuditInv, Embed PROVE AuditInv'
<1>1. Push(<<EmbeddingNode>>) /\ Countable(<<EmbeddingNode>>)
  BY NodesPushed, NodesAreTyped, NodesAreCountable DEF AuditInv, Typed
<1>2. Tracks(uses, steps)'
  BY <1>1, PushAudits
<1>3. Typed' /\ built' = built
  BY DEF AuditInv, Typed, Embed, Fixed
<1>4. \A region \in Regions : ~Open(region)'
  BY OpenNext DEF Embed, Regions
<1> QED BY <1>2, <1>3, <1>4 DEF AuditInv

LEMMA ProjectAudits ==
  ASSUME AuditInv, Project PROVE AuditInv'
<1>1. PICK q \in Makers, k \in Makers, v \in Makers, r \in Makers :
        Push(<<NormNode, ProjectionNode(q, "queryWeight", "query"),
               ProjectionNode(k, "keyWeight", "key"),
               ProjectionNode(v, "valueWeight", "value"), RotationNode(r)>>)
  BY NodesPushed DEF AuditInv, Typed
<1> DEFINE nodes == <<NormNode, ProjectionNode(q, "queryWeight", "query"),
                      ProjectionNode(k, "keyWeight", "key"),
                      ProjectionNode(v, "valueWeight", "value"), RotationNode(r)>>
<1>2. Countable(nodes)
  BY NodesAreTyped, NodesAreCountable DEF AuditInv, Typed
<1> HIDE DEF nodes
<1>3. Tracks(uses, steps)' /\ MarkIn(Begin, uses', steps')
  BY <1>1, <1>2, PushAudits DEF nodes
<1>4. /\ marks' = [marks EXCEPT !.qkv = Begin] /\ built' = built
      /\ pc' \in {"rmsnorm_qkv", "attend"}
      /\ UNCHANGED <<lengths, stage, layer>>
  BY DEF Project, Fixed
<1>5. Typed' /\ marks'["qkv"] = Begin
  <2>1. Begin \in [steps : Nat, uses : Nat]
    BY MarksAreTyped DEF AuditInv
  <2> QED BY <1>4, <2>1 DEF AuditInv, Typed, Regions
<1>6. \A region \in Regions : Open(region)' => region = "qkv"
  BY <1>4, OpenNext DEF Regions
<1> QED BY <1>3, <1>4, <1>5, <1>6 DEF AuditInv

LEMMA FuseNormQKVAudits ==
  ASSUME AuditInv, FuseNormQKV PROVE AuditInv'
<1>1. pc = "rmsnorm_qkv" /\ pc' = "qkv_rope" /\ marks' = marks /\ built' = built /\ Typed'
  BY DEF FuseNormQKV, AuditInv, Typed, Fixed
<1>2. MarkIn(marks.qkv, uses, steps)
  BY <1>1, OpenIs DEF AuditInv
<1>3. Tracks(uses, steps)' /\ MarkIn(marks.qkv, uses', steps')
  <2>1. CASE Kept
    BY <1>2, <2>1 DEF Kept, AuditInv, Tracks
  <2>2. CASE Replace(pc)
    <3>1. Fusion(pc).begin = marks.qkv /\ Fusion(pc).candidate = NormQKVNode
      BY <1>1, FusionsOfStage
    <3>2. IsNode(NormQKVNode)
      BY CandidatesAreTyped DEF AuditInv, Typed
    <3> QED BY <1>2, <2>2, <3>1, <3>2, ReplaceAudits
  <2> QED BY <2>1, <2>2 DEF FuseNormQKV, admitFusion, Filtered
<1>4. \A region \in Regions : Open(region)' => region = "qkv"
  BY <1>1, OpenNext DEF Regions
<1> QED BY <1>1, <1>3, <1>4 DEF AuditInv

LEMMA FuseQKVRoPEAudits ==
  ASSUME AuditInv, FuseQKVRoPE PROVE AuditInv'
<1>1. pc = "qkv_rope" /\ pc' = "attend" /\ marks' = marks /\ built' = built /\ Typed'
  BY DEF FuseQKVRoPE, AuditInv, Typed, Fixed
<1>2. MarkIn(marks.qkv, uses, steps)
  BY <1>1, OpenIs DEF AuditInv
<1>3. Tracks(uses, steps)'
  <2>1. CASE Kept
    BY <2>1 DEF Kept, AuditInv, Tracks
  <2>2. CASE Replace(pc)
    <3>1. Fusion(pc).begin = marks.qkv /\ Fusion(pc).candidate = QKVRoPENode
      BY <1>1, FusionsOfStage
    <3>2. IsNode(QKVRoPENode)
      BY CandidatesAreTyped DEF AuditInv, Typed
    <3> QED BY <1>2, <2>2, <3>1, <3>2, ReplaceAudits
  <2> QED BY <2>1, <2>2 DEF FuseQKVRoPE, admitFusion
<1>4. \A region \in Regions : ~Open(region)'
  BY <1>1, OpenNext DEF Regions
<1> QED BY <1>1, <1>3, <1>4 DEF AuditInv

LEMMA NodeLengths ==
  Len(AppendNode.steps) = 2 /\ Len(AttentionNode.steps) = 1
BY DEF AppendNode, AttentionNode, Template, Node

LEMMA ThreeUses ==
  ASSUME NEW u \in Seq(Uses), NEW x \in Uses, NEW y \in Uses, NEW z \in Uses
  PROVE  /\ u \o <<x, y, z>> = Append(u, x) \o <<y, z>>
         /\ Append(u, x) \o <<y, z>> = Append(Append(u, x), y) \o <<z>>
<1>1. u \o <<x, y, z>> = Append(u, x) \o <<y, z>>
  <2> DEFINE s == u \o <<x, y, z>>
             t == Append(u, x) \o <<y, z>>
  <2>1. s \in Seq(Uses) /\ t \in Seq(Uses) /\ Len(s) = Len(u) + 3 /\ Len(t) = Len(u) + 3
    OBVIOUS
  <2>2. \A i \in 1 .. Len(u) + 3 : s[i] = t[i]
    OBVIOUS
  <2> HIDE DEF s, t
  <2>3. s = t
    BY <2>1, <2>2, SeqEqual
  <2> QED BY <2>3 DEF s, t
<1>2. \A v \in Seq(Uses) : v \o <<y, z>> = Append(v, y) \o <<z>>
  <2> SUFFICES ASSUME NEW v \in Seq(Uses) PROVE v \o <<y, z>> = Append(v, y) \o <<z>>
    OBVIOUS
  <2> DEFINE s == v \o <<y, z>>
             t == Append(v, y) \o <<z>>
  <2>1. s \in Seq(Uses) /\ t \in Seq(Uses) /\ Len(s) = Len(v) + 2 /\ Len(t) = Len(v) + 2
    OBVIOUS
  <2>2. \A i \in 1 .. Len(v) + 2 : s[i] = t[i]
    OBVIOUS
  <2> HIDE DEF s, t
  <2>3. s = t
    BY <2>1, <2>2, SeqEqual
  <2> QED BY <2>3 DEF s, t
<1>3. Append(u, x) \in Seq(Uses)
  OBVIOUS
<1> QED BY <1>1, <1>2, <1>3

LEMMA EntriesTyped ==
  ASSUME NEW s \in Seq(Entries), NEW t \in Seq(Entries)
  PROVE  s \o t \in Seq(Entries) /\ Len(s \o t) = Len(s) + Len(t)
OBVIOUS

LEMMA UsesTyped ==
  ASSUME NEW u \in Seq(Uses), NEW x \in Uses
  PROVE  Append(u, x) \in Seq(Uses) /\ Len(Append(u, x)) = Len(u) + 1
OBVIOUS

\* A sequence with three nodes more, from the first and from the second of them on.
Splits(s, a, b, c, s1, s2) ==
  /\ s1 \in Seq(Entries) /\ s2 \in Seq(Entries)
  /\ s \o ThreeSteps(a, b, c) = s1 \o (b.steps \o c.steps)
  /\ s \o ThreeSteps(a, b, c) = s2 \o c.steps

LEMMA ThreeSplit ==
  ASSUME NEW s \in Seq(Entries), NEW a, NEW b, NEW c, IsNode(a), IsNode(b), IsNode(c)
  PROVE  Splits(s, a, b, c, s \o a.steps, (s \o a.steps) \o b.steps)
<1> DEFINE s1 == s \o a.steps
           s2 == s1 \o b.steps
           r == a.steps \o b.steps
<1>1. a.steps \in Seq(Entries) /\ b.steps \in Seq(Entries) /\ c.steps \in Seq(Entries)
  BY NodeIsTyped
<1>2. s1 \in Seq(Entries) /\ s2 \in Seq(Entries)
  BY <1>1, EntriesTyped
<1>3. r \in Seq(Entries) /\ s \o r = s2
  BY <1>1, EntriesTyped, EntriesAssociate
<1>4. s1 \o (b.steps \o c.steps) = s2 \o c.steps
  <2> HIDE DEF s1
  <2> QED BY ZenonT(60), <1>1, <1>2, EntriesAssociate
<1> HIDE DEF r, s1, s2
<1>5. s \o (r \o c.steps) = (s \o r) \o c.steps
  BY <1>1, <1>3, EntriesAssociate
<1>6. s \o (r \o c.steps) = s2 \o c.steps
  BY <1>3, <1>5
<1>7. Splits(s, a, b, c, s1, s2)
  BY <1>2, <1>4, <1>6 DEF Splits, ThreeSteps, r
<1> QED BY <1>7 DEF s1, s2

LEMMA AttendAudits ==
  ASSUME AuditInv, Attend PROVE AuditInv'
<1>1. PICK o \in Makers : Push(<<AppendNode, AttentionNode, OutputNode(o)>>)
  BY NodesPushed DEF AuditInv, Typed
<1> DEFINE a == AppendNode
           b == AttentionNode
           c == OutputNode(o)
<1>2. IsNode(a) /\ IsNode(b) /\ IsNode(c)
  BY NodesAreTyped DEF AuditInv, Typed
<1>3. Len(a.steps) = 2 /\ Len(b.steps) = 1
  BY NodeLengths
<1> HIDE DEF a, b, c
<1>4. /\ a.steps \in Seq(Entries) /\ b.steps \in Seq(Entries) /\ c.steps \in Seq(Entries)
      /\ a.use \in Uses /\ b.use \in Uses /\ c.use \in Uses
  BY <1>2, NodeIsTyped
<1>5. /\ steps' = steps \o ThreeSteps(a, b, c) /\ uses' = uses \o <<a.use, b.use, c.use>>
      /\ uses \in Seq(Uses) /\ steps \in Seq(Entries) /\ Tracks(uses, steps)
  <2>1. StepsOf(<<a, b, c>>) = ThreeSteps(a, b, c) /\ UsesOf(<<a, b, c>>) = <<a.use, b.use, c.use>>
    BY <1>2, StepsOfThree
  <2> QED BY <1>1, <2>1 DEF Push, AuditInv, Tracks, a, b, c
<1>6. Tracks(uses, steps)'
  BY <1>1, <1>2, PushAudits, NodesAreCountable DEF a, b, c
<1> DEFINE u1 == Append(uses, a.use)
           s1 == steps \o a.steps
           u2 == Append(u1, b.use)
           s2 == s1 \o b.steps
<1>7. /\ u1 \in Seq(Uses) /\ s1 \in Seq(Entries) /\ u2 \in Seq(Uses) /\ s2 \in Seq(Entries)
      /\ Len(u1) = Len(uses) + 1 /\ Len(s1) = Len(steps) + 2
      /\ Len(u2) = Len(uses) + 2 /\ Len(s2) = Len(steps) + 3
  <2>1. u1 \in Seq(Uses) /\ Len(u1) = Len(uses) + 1
    BY <1>4, <1>5, UsesTyped
  <2>2. s1 \in Seq(Entries) /\ Len(s1) = Len(steps) + 2
    <3>1. s1 \in Seq(Entries) /\ Len(s1) = Len(steps) + Len(a.steps)
      BY <1>4, <1>5, EntriesTyped
    <3> HIDE DEF s1
    <3> QED BY <1>3, <3>1
  <2> HIDE DEF u1, s1
  <2>3. u2 \in Seq(Uses) /\ Len(u2) = Len(u1) + 1
    BY <1>4, <2>1, UsesTyped
  <2>4. s2 \in Seq(Entries) /\ Len(s2) = Len(s1) + 1
    BY <1>3, <1>4, <2>2, EntriesTyped
  <2>5. Len(uses) \in Nat /\ Len(steps) \in Nat
    BY <1>5
  <2> HIDE DEF u2, s2
  <2> QED BY <2>1, <2>2, <2>3, <2>4, <2>5
<1>8. Tracks(u1, s1) /\ Tracks(u2, s2)
  BY <1>2, <1>5, TracksNode
<1>9. /\ uses' = u1 \o <<b.use, c.use>> /\ steps' = s1 \o (b.steps \o c.steps)
      /\ uses' = u2 \o <<c.use>> /\ steps' = s2 \o c.steps
  <2>1. /\ uses \o <<a.use, b.use, c.use>> = u1 \o <<b.use, c.use>>
        /\ u1 \o <<b.use, c.use>> = u2 \o <<c.use>>
    BY <1>4, <1>5, ThreeUses
  <2>2. Splits(steps, a, b, c, s1, s2)
    BY <1>2, <1>5, ThreeSplit
  <2> HIDE DEF u1, s1, u2, s2
  <2> QED BY <1>5, <2>1, <2>2 DEF Splits
<1>10. <<b.use, c.use>> \in Seq(Uses) /\ <<c.use>> \in Seq(Uses) /\ b.steps \o c.steps \in Seq(Entries)
  BY <1>4
<1>11. /\ marks' = [marks EXCEPT !.attention = [steps |-> Begin.steps + 2, uses |-> Begin.uses + 1],
                                 !.output = [steps |-> Begin.steps + 3, uses |-> Begin.uses + 2]]
       /\ built' = built /\ pc' \in {"paged_attention_output_projection", "residual"}
       /\ UNCHANGED <<lengths, stage, layer>>
  BY DEF Attend, Fixed
<1>12. /\ Typed'
       /\ marks'["attention"] = [steps |-> Len(steps) + 2, uses |-> Len(uses) + 1]
       /\ marks'["output"] = [steps |-> Len(steps) + 3, uses |-> Len(uses) + 2]
  <2>1. /\ [steps |-> Begin.steps + 2, uses |-> Begin.uses + 1] \in [steps : Nat, uses : Nat]
        /\ [steps |-> Begin.steps + 3, uses |-> Begin.uses + 2] \in [steps : Nat, uses : Nat]
    BY MarksAreTyped DEF AuditInv
  <2>2. Begin.steps = Len(steps) /\ Begin.uses = Len(uses)
    BY DEF Begin
  <2> QED BY <1>11, <2>1, <2>2 DEF AuditInv, Typed, Regions
<1> HIDE DEF u1, s1, u2, s2
<1>13. MarkIn(marks'["attention"], uses', steps')
  <2>1. MarkIn([steps |-> Len(steps) + 2, uses |-> Len(uses) + 1],
               u1 \o <<b.use, c.use>>, s1 \o (b.steps \o c.steps))
    BY <1>7, <1>8, <1>10, MarkBegins
  <2> QED BY <1>9, <1>12, <2>1
<1>14. MarkIn(marks'["output"], uses', steps')
  <2>1. MarkIn([steps |-> Len(steps) + 3, uses |-> Len(uses) + 2], u2 \o <<c.use>>, s2 \o c.steps)
    BY <1>4, <1>7, <1>8, <1>10, MarkBegins
  <2> QED BY <1>9, <1>12, <2>1
<1>15. \A region \in Regions : Open(region)' => region \in {"attention", "output"}
  BY <1>11, OpenNext DEF Regions
<1> QED BY <1>6, <1>11, <1>12, <1>13, <1>14, <1>15 DEF AuditInv

\* What a fusion does to the region that it may replace.
LEMMA FusionAudits ==
  ASSUME AuditInv, NEW pattern, IsNode(Fusion(pattern).candidate),
         MarkIn(Fusion(pattern).begin, uses, steps), Kept \/ Replace(pattern)
  PROVE  Tracks(uses, steps)' /\ MarkIn(Fusion(pattern).begin, uses', steps')
<1>1. CASE Kept
  BY <1>1 DEF Kept, AuditInv, Tracks
<1>2. CASE Replace(pattern)
  BY <1>2, ReplaceAudits
<1> QED BY <1>1, <1>2

LEMMA FusePagedAttentionAudits ==
  ASSUME AuditInv, FusePagedAttention PROVE AuditInv'
<1>1. /\ pc = "paged_attention_output_projection" /\ pc' = "residual"
      /\ marks' = marks /\ built' = built /\ Typed'
  BY DEF FusePagedAttention, AuditInv, Typed, Fixed
<1>2. MarkIn(marks.attention, uses, steps) /\ MarkIn(marks.output, uses, steps)
  BY <1>1, OpenIs DEF AuditInv
<1>3. \A region \in Regions : Open(region)' => region = "output" /\ MayFuseOutput'
  BY <1>1, OpenNext DEF Regions
<1>4. CASE Kept
  <2>1. Tracks(uses, steps)' /\ MarkIn(marks.output, uses', steps')
    BY <1>2, <1>4 DEF Kept, AuditInv, Tracks
  <2> QED BY <1>1, <1>3, <2>1 DEF AuditInv
<1>5. CASE Replace(pc) /\ pagedAttentionOutputAdmitted' = TRUE
  <2>1. Fusion(pc).begin = marks.attention /\ Fusion(pc).candidate = AttentionOutputNode
    BY <1>1, FusionsOfStage
  <2>2. IsNode(AttentionOutputNode)
    BY CandidatesAreTyped DEF AuditInv, Typed
  <2>3. Tracks(uses, steps)'
    BY <1>2, <1>5, <2>1, <2>2, FusionAudits
  <2>4. ~MayFuseOutput'
    BY <1>5 DEF MayFuseOutput
  <2> QED BY <1>1, <1>3, <2>3, <2>4 DEF AuditInv
<1> QED BY <1>4, <1>5 DEF FusePagedAttention

LEMMA ResidualAudits ==
  ASSUME AuditInv, Residual PROVE AuditInv'
<1>1. /\ pc = "residual" /\ marks' = marks /\ built' = built /\ Typed'
      /\ pc' = IF MayFuseOutput THEN "output_projection_residual" ELSE "mlp"
  BY DEF Residual, AuditInv, Typed, Fixed
<1>2. PICK nodes : Push(nodes) /\ Countable(nodes)
  <2>1. IsNode(ResidualNode) /\ \A r \in Makers : IsNode(FusedResidualNode(r))
    BY NodesAreTyped DEF AuditInv, Typed
  <2>2. Countable(<<ResidualNode>>) /\ \A r \in Makers : Countable(<<FusedResidualNode(r)>>)
    BY <2>1, NodesAreCountable
  <2>3. Push(<<ResidualNode>>) \/ \E r \in Makers : Push(<<FusedResidualNode(r)>>)
    BY NodesPushed DEF AuditInv, Typed
  <2> QED BY <2>2, <2>3
<1>3. Tracks(uses, steps)' /\ \A mark : MarkIn(mark, uses, steps) => MarkIn(mark, uses', steps')
  BY <1>2, PushAudits
<1>4. \A region \in Regions : Open(region)' => region = "output" /\ MayFuseOutput
  BY <1>1, OpenNext DEF Regions
<1>5. MayFuseOutput => MarkIn(marks.output, uses, steps)
  BY <1>1, OpenIs DEF AuditInv
<1> QED BY <1>1, <1>3, <1>4, <1>5 DEF AuditInv

LEMMA FuseOutputProjectionAudits ==
  ASSUME AuditInv, FuseOutputProjection PROVE AuditInv'
<1>1. /\ pc = "output_projection_residual" /\ pc' = "mlp"
      /\ marks' = marks /\ built' = built /\ Typed'
  BY DEF FuseOutputProjection, AuditInv, Typed, Fixed
<1>2. MarkIn(marks.output, uses, steps)
  BY <1>1, OpenIs DEF AuditInv
<1>3. Fusion(pc).begin = marks.output /\ Fusion(pc).candidate = OutputResidualNode
  BY <1>1, FusionsOfStage
<1>4. IsNode(OutputResidualNode)
  BY CandidatesAreTyped DEF AuditInv, Typed
<1>5. Tracks(uses, steps)'
  BY <1>2, <1>3, <1>4, FusionAudits DEF FuseOutputProjection, admitFusion
<1>6. \A region \in Regions : ~Open(region)'
  BY <1>1, OpenNext DEF Regions
<1> QED BY <1>1, <1>5, <1>6 DEF AuditInv

LEMMA MLPAudits ==
  ASSUME AuditInv, MLP PROVE AuditInv'
<1>1. /\ pc = "mlp" /\ pc' = "down" /\ marks' = marks /\ built' = built /\ Typed'
  BY DEF MLP, AuditInv, Typed, Fixed
<1>2. PICK nodes : Push(nodes) /\ Countable(nodes)
  <2>1. IsNode(MLPNode) /\ \A g \in Makers : IsNode(FusedMLPNode(g))
    BY NodesAreTyped DEF AuditInv, Typed
  <2>2. Countable(<<MLPNode>>) /\ \A g \in Makers : Countable(<<FusedMLPNode(g)>>)
    BY <2>1, NodesAreCountable
  <2>3. Push(<<MLPNode>>) \/ \E g \in Makers : Push(<<FusedMLPNode(g)>>)
    BY NodesPushed DEF AuditInv, Typed
  <2> QED BY <2>2, <2>3
<1>3. Tracks(uses, steps)'
  BY <1>2, PushAudits
<1>4. \A region \in Regions : ~Open(region)'
  BY <1>1, OpenNext DEF Regions
<1> QED BY <1>1, <1>3, <1>4 DEF AuditInv

LEMMA NextLayerIsTyped ==
  ASSUME layer \in Layers, NextLayer
  PROVE  layer' \in Layers /\ pc' \in {"project", "head"}
BY DecoderStageAssumption DEF NextLayer, Layers

LEMMA DownAudits ==
  ASSUME AuditInv, Down PROVE AuditInv'
<1>1. PICK d \in Makers : Push(<<DownNode(d), AddNode>>)
  BY NodesPushed DEF AuditInv, Typed
<1>2. Countable(<<DownNode(d), AddNode>>)
  BY NodesAreTyped, NodesAreCountable DEF AuditInv, Typed
<1>3. Tracks(uses, steps)' /\ MarkIn(Begin, uses', steps')
  BY <1>1, <1>2, PushAudits
<1>4. /\ marks' = [marks EXCEPT !.down = Begin] /\ built' = built
      /\ UNCHANGED <<lengths, stage>>
  BY DEF Down, Fixed
<1>5. layer' \in Layers /\ pc' \in {"down_projection_residual", "project", "head"}
  BY NextLayerIsTyped DEF Down, AuditInv, Typed
<1>6. Typed' /\ marks'["down"] = Begin
  <2>1. Begin \in [steps : Nat, uses : Nat]
    BY MarksAreTyped DEF AuditInv
  <2> QED BY <1>4, <1>5, <2>1 DEF AuditInv, Typed, Regions
<1>7. \A region \in Regions : Open(region)' => region = "down"
  BY <1>5, OpenNext DEF Regions
<1> QED BY <1>3, <1>4, <1>6, <1>7 DEF AuditInv

LEMMA FuseDownProjectionAudits ==
  ASSUME AuditInv, FuseDownProjection PROVE AuditInv'
<1>1. /\ pc = "down_projection_residual" /\ marks' = marks /\ built' = built
      /\ UNCHANGED <<lengths, stage>>
  BY DEF FuseDownProjection, Fixed
<1>2. layer' \in Layers /\ pc' \in {"project", "head"}
  BY NextLayerIsTyped DEF FuseDownProjection, AuditInv, Typed
<1>3. MarkIn(marks.down, uses, steps)
  BY <1>1, OpenIs DEF AuditInv
<1>4. Fusion(pc).begin = marks.down /\ Fusion(pc).candidate = DownResidualNode
  BY <1>1, FusionsOfStage
<1>5. IsNode(DownResidualNode)
  BY CandidatesAreTyped DEF AuditInv, Typed
<1>6. Tracks(uses, steps)'
  BY <1>3, <1>4, <1>5, FusionAudits DEF FuseDownProjection, admitFusion
<1>7. Typed'
  BY <1>1, <1>2 DEF AuditInv, Typed
<1>8. \A region \in Regions : ~Open(region)'
  BY <1>2, OpenNext DEF Regions
<1> QED BY <1>1, <1>6, <1>7, <1>8 DEF AuditInv

\* The two sequences that the head builds.
Trunk == steps \o FinalNormNode.steps
HeadBuilds(h) ==
  built' = [sequence |-> Trunk \o StepsOf(<<HeadNode(h), ArgmaxNode>>),
            uses |-> Append(uses, FinalNormNode.use) \o UsesOf(<<HeadNode(h), ArgmaxNode>>),
            tokenSequence |-> Trunk \o StepsOf(<<TokenNode>>),
            tokenUses |-> Append(uses, FinalNormNode.use) \o UsesOf(<<TokenNode>>)]

\* What the head builds, as nodes.
LEMMA HeadBuilt ==
  ASSUME LanguageModelHead
  PROVE  \E h \in Makers : HeadBuilds(h)
<1>1. PICK h \in Makers :
        built' = [sequence |-> (steps \o FinalNormNode.steps) \o StepsOf(<<HeadNode(h), ArgmaxNode>>),
                  uses |-> Append(uses, FinalNormNode.use) \o UsesOf(<<HeadNode(h), ArgmaxNode>>),
                  tokenSequence |-> (steps \o FinalNormNode.steps) \o StepsOf(<<TokenNode>>),
                  tokenUses |-> Append(uses, FinalNormNode.use) \o UsesOf(<<TokenNode>>)]
  <2>1. Generated("gemv_hidden_vocabulary") \subseteq Makers /\ {"template"} \subseteq Makers
    BY GeneratedMakes DEF Makers
  <2> QED BY <2>1 DEF LanguageModelHead, FinalNormNode, HeadNode, ArgmaxNode, TokenNode
<1> QED BY <1>1 DEF HeadBuilds, Trunk

\* The head closes both sequences with their own uses.
LEMMA LanguageModelHeadAudits ==
  ASSUME AuditInv, LanguageModelHead PROVE AuditInv'
<1>1. PICK h \in Makers : HeadBuilds(h)
  BY HeadBuilt
<1>2. /\ IsNode(FinalNormNode) /\ Countable(<<HeadNode(h), ArgmaxNode>>) /\ Countable(<<TokenNode>>)
  BY NodesAreTyped, NodesAreCountable DEF AuditInv, Typed
<1>3. Tracks(Append(uses, FinalNormNode.use), Trunk)
  BY <1>2, TracksNode DEF AuditInv, Trunk
<1>4. Tracks(built.uses, built.sequence)' /\ Tracks(built.tokenUses, built.tokenSequence)'
  BY <1>1, <1>2, <1>3 DEF HeadBuilds, Countable
<1>5. Tracks(uses, steps)'
  BY TracksNothing DEF LanguageModelHead
<1>6. Typed' /\ pc' = "built"
  BY DEF LanguageModelHead, AuditInv, Typed, Fixed
<1>7. \A region \in Regions : ~Open(region)'
  BY <1>6, OpenNext DEF Regions
<1> QED BY <1>4, <1>5, <1>6, <1>7 DEF AuditInv

LEMMA NextStageAudits ==
  ASSUME AuditInv, NextStage PROVE AuditInv'
<1>1. Tracks(uses, steps)' /\ Tracks(built.uses, built.sequence)'
      /\ Tracks(built.tokenUses, built.tokenSequence)'
  BY TracksNothing DEF NextStage, AuditInv, Nothing
<1>2. Typed' /\ pc' = "embedding"
  <2>1. lengths \in Seq(1 .. Capacity) /\ 1 \in Layers
    BY StageIsTyped DEF AuditInv
  <2>2. stage \in DOMAIN lengths /\ stage < Len(lengths)
    BY DEF NextStage, AuditInv, Typed
  <2>3. stage + 1 \in DOMAIN lengths
    BY <2>1, <2>2
  <2> QED BY <2>1, <2>3 DEF NextStage, AuditInv, Typed, Fixed
<1>3. \A region \in Regions : ~Open(region)'
  BY <1>2, OpenNext DEF Regions
<1> QED BY <1>1, <1>2, <1>3 DEF AuditInv

LEMMA FailAudits ==
  ASSUME AuditInv, Fail PROVE AuditInv'
<1>1. Tracks(uses, steps)' /\ built' = built
  BY TracksNothing DEF Fail
<1>2. Typed' /\ pc' = "failed"
  BY DEF Fail, AuditInv, Typed, Fixed
<1>3. \A region \in Regions : ~Open(region)'
  BY <1>2, OpenNext DEF Regions
<1> QED BY <1>1, <1>2, <1>3 DEF AuditInv

LEMMA StutteringAudits ==
  ASSUME AuditInv, UNCHANGED vars PROVE AuditInv'
<1>1. /\ Typed' /\ Tracks(uses, steps)' /\ built' = built /\ marks' = marks
      /\ uses' = uses /\ steps' = steps
  BY DEF vars, AuditInv, Typed, Tracks
<1>2. \A region \in Regions : Open(region)' => Open(region)
  BY DEF vars, Open, MayFuseOutput
<1> QED BY <1>1, <1>2 DEF AuditInv

\* The uses that buildStage keeps beside its steps, those that a fusion cuts
\* back with the region it replaces and those of both sequences of a built
\* stage count the dispatches there are, in order and by who made the kernel.
THEOREM AuditCounts == Spec => []AuditMatchesSteps
<1>1. Init => AuditInv
  BY AuditBegins
<1>2. AuditInv /\ [Next]_vars => AuditInv'
  BY EmbedAudits, ProjectAudits, FuseNormQKVAudits, FuseQKVRoPEAudits, AttendAudits,
     FusePagedAttentionAudits, ResidualAudits, FuseOutputProjectionAudits, MLPAudits, DownAudits,
     FuseDownProjectionAudits, LanguageModelHeadAudits, NextStageAudits, FailAudits,
     StutteringAudits
  DEF Next
<1>3. AuditInv => AuditMatchesSteps
  BY DEF AuditInv, Tracks, Counted, Dispatched, AuditMatchesSteps
<1> QED BY <1>1, <1>2, <1>3, PTL DEF Spec

----------------------------------------------------------------------------
(* What every region makes of a memory m, in terms of m alone.             *)

\* What no step of a region may change but for what the region is for.
Lasting == Buffers \ Scratch

\* Weights, caches, length, table, tokens and the residual stream last.
LEMMA LastingBuffers ==
  /\ \A x \in Weights \union {"keys", "values", "length", "table"}, l \in Layers :
       <<x, l>> \in Lasting
  /\ \A x \in {"tokens", "embedding", "finalNorm", "languageModelHead"} : <<x, 0>> \in Lasting
  /\ \A l \in Nat : Hidden(l) \in Lasting
<1>1. \A x \in Weights \union {"keys", "values", "length", "table"}, l \in Layers :
        <<x, l>> \in Lasting
  BY DEF Lasting, Buffers, Scratch, Weights, Arena
<1>2. \A x \in {"tokens", "embedding", "finalNorm", "languageModelHead"} : <<x, 0>> \in Lasting
  BY DEF Lasting, Buffers, Scratch, Arena
<1>3. ASSUME NEW l \in Nat PROVE Hidden(l) \in Lasting
  <2>1. Hidden(l) \in Buffers
    BY BuffersOfStage
  <2>2. Hidden(l) \notin Scratch
    BY DEF Hidden, Scratch, Arena
  <2> QED BY <2>1, <2>2 DEF Lasting
<1> QED BY <1>1, <1>2, <1>3

\* A layer's output is not its input and no other buffer.
LEMMA HiddenDiffers ==
  ASSUME NEW l \in Layers
  PROVE  /\ Hidden(l - 1) # Hidden(l)
         /\ \A x, k : x # "hidden" => <<x, k>> # Hidden(l)
<1>1. l \in Nat /\ l - 1 \in Nat
  BY DecoderStageAssumption DEF Layers
<1>2. (l - 1) % 2 # l % 2
  BY <1>1
<1> QED BY <1>2 DEF Hidden

Leaves(m, a) == IsMemory(a) /\ \A b \in Lasting : a[b] = m[b]

Stores(m, a, l) ==
  /\ IsMemory(a)
  /\ a[<<"keys", l>>] = AppendedAt(m, "keys", m[Shared("rotatedKey")], l)
  /\ a[<<"values", l>>] = AppendedAt(m, "values", m[Shared("value")], l)
  /\ \A b \in Buffers : b # <<"keys", l>> /\ b # <<"values", l>> => a[b] = m[b]

ContextAt(m, l) ==
  Attended(m[Shared("rotatedQuery")], m[<<"keys", l>>], m[<<"values", l>>], m[<<"length", l>>],
           m[<<"table", l>>])
Sees(m, a, l) == Leaves(m, a) /\ a[Shared("context")] = ContextAt(m, l)
Outs(m, a, l) ==
  /\ Leaves(m, a)
  /\ a[Shared("attentionOutput")] = Product(m[Shared("context")], m[<<"outputWeight", l>>])
Attends(m, a, l) ==
  /\ Leaves(m, a)
  /\ a[Shared("attentionOutput")] = Product(ContextAt(m, l), m[<<"outputWeight", l>>])

Sums(m, a, l, update) ==
  LET sum == Added(m[Hidden(l - 1)], update) IN
  /\ Leaves(m, a)
  /\ a[Shared("afterAttention")] = sum
  /\ a[Shared("postAttentionNormalized")] = Norm(sum, m[<<"postNorm", l>>])

Gates(m, a, l) ==
  LET x == m[Shared("postAttentionNormalized")] IN
  /\ Leaves(m, a)
  /\ a[Shared("afterAttention")] = m[Shared("afterAttention")]
  /\ a[Shared("gated")] = Gated(Product(x, m[<<"gateWeight", l>>]), Product(x, m[<<"upWeight", l>>]))

Feeds(m, a, l) ==
  /\ IsMemory(a)
  /\ a[Hidden(l)] = Added(m[Shared("afterAttention")],
                          Product(m[Shared("gated")], m[<<"downWeight", l>>]))
  /\ \A b \in Lasting : b # Hidden(l) => a[b] = m[b]

Does(what, m, a, l) ==
  CASE what = "project"  -> Projected(m, a, l)
    [] what = "store"    -> Stores(m, a, l)
    [] what = "see"      -> Sees(m, a, l)
    [] what = "output"   -> Outs(m, a, l)
    [] what = "attend"   -> Attends(m, a, l)
    [] what = "residual" -> Sums(m, a, l, m[Shared("attentionOutput")])
    [] what = "sum"      -> Sums(m, a, l, Product(m[Shared("context")], m[<<"outputWeight", l>>]))
    [] what = "gate"     -> Gates(m, a, l)
    [] what = "feed"     -> Feeds(m, a, l)

\* What each region is for, by name.
LEMMA DoesWhat ==
  ASSUME NEW m, NEW a, NEW l
  PROVE  /\ Does("project", m, a, l) <=> Projected(m, a, l)
         /\ Does("store", m, a, l) <=> Stores(m, a, l)
         /\ Does("see", m, a, l) <=> Sees(m, a, l)
         /\ Does("output", m, a, l) <=> Outs(m, a, l)
         /\ Does("attend", m, a, l) <=> Attends(m, a, l)
         /\ Does("residual", m, a, l) <=> Sums(m, a, l, m[Shared("attentionOutput")])
         /\ Does("sum", m, a, l)
              <=> Sums(m, a, l, Product(m[Shared("context")], m[<<"outputWeight", l>>]))
         /\ Does("gate", m, a, l) <=> Gates(m, a, l)
         /\ Does("feed", m, a, l) <=> Feeds(m, a, l)
BY DEF Does

\* What a region counts on: the kernels that look at the length and the table
\* do what they are for when these hold the rows.
Looks == {"project", "store", "see", "attend"}
Suits(what, m, l, rows) ==
  /\ IsMemory(m)
  /\ what \in Looks => Valid(m[<<"length", l>>], rows)
  /\ what \in Looks \ {"project"} => m[<<"table", l>>] # NoPages

Performs(what, s, l, rows) ==
  \A m : Suits(what, m, l, rows) => Does(what, m, Execute(m, s, rows), l)

\* Two regions in a row that are one.
LEMMA Together ==
  ASSUME NEW l \in Layers, NEW rows, NEW s \in Seq(Entries), NEW t \in Seq(Entries)
  PROVE  /\ Performs("see", s, l, rows) /\ Performs("output", t, l, rows) =>
              Performs("attend", s \o t, l, rows)
         /\ Performs("output", s, l, rows) /\ Performs("residual", t, l, rows) =>
              Performs("sum", s \o t, l, rows)
<1>1. ASSUME Performs("see", s, l, rows), Performs("output", t, l, rows), NEW m,
             Suits("attend", m, l, rows)
      PROVE  Does("attend", m, Execute(m, s \o t, rows), l)
  <2> DEFINE a == Execute(m, s, rows)
             c == Execute(a, t, rows)
  <2>1. Sees(m, a, l)
    <3>1. Suits("see", m, l, rows)
      BY <1>1 DEF Suits, Looks
    <3> QED BY <1>1, <3>1, DoesWhat DEF Performs
  <2>2. Outs(a, c, l)
    <3>1. Suits("output", a, l, rows)
      BY <2>1 DEF Suits, Sees, Leaves, Looks
    <3> QED BY <1>1, <3>1, DoesWhat DEF Performs
  <2>3. Execute(m, s \o t, rows) = c
    BY ExecuteConcat
  <2> HIDE DEF a, c
  <2>4. a[<<"outputWeight", l>>] = m[<<"outputWeight", l>>]
    BY <2>1, LastingBuffers DEF Sees, Leaves, Weights
  <2>5. Attends(m, c, l)
    BY <2>1, <2>2, <2>4 DEF Sees, Outs, Attends, Leaves
  <2> QED BY <2>3, <2>5, DoesWhat
<1>2. ASSUME Performs("output", s, l, rows), Performs("residual", t, l, rows), NEW m,
             Suits("sum", m, l, rows)
      PROVE  Does("sum", m, Execute(m, s \o t, rows), l)
  <2> DEFINE a == Execute(m, s, rows)
             c == Execute(a, t, rows)
             update == Product(m[Shared("context")], m[<<"outputWeight", l>>])
  <2>1. Outs(m, a, l)
    <3>1. Suits("output", m, l, rows)
      BY <1>2 DEF Suits, Looks
    <3> QED BY <1>2, <3>1, DoesWhat DEF Performs
  <2>2. Sums(a, c, l, a[Shared("attentionOutput")])
    <3>1. Suits("residual", a, l, rows)
      BY <2>1 DEF Suits, Outs, Leaves, Looks
    <3> QED BY <1>2, <3>1, DoesWhat DEF Performs
  <2>3. Execute(m, s \o t, rows) = c
    BY ExecuteConcat
  <2>4. a[Shared("attentionOutput")] = update
    BY <2>1 DEF Outs
  <2> HIDE DEF a, c, update
  <2>5. a[<<"postNorm", l>>] = m[<<"postNorm", l>>] /\ a[Hidden(l - 1)] = m[Hidden(l - 1)]
    <3>1. l - 1 \in Nat
      BY DecoderStageAssumption DEF Layers
    <3> QED BY <2>1, <3>1, LastingBuffers DEF Outs, Leaves, Weights
  <2>6. Sums(m, c, l, update)
    BY <2>1, <2>2, <2>4, <2>5 DEF Sums, Outs, Leaves
  <2> QED BY <2>3, <2>6, DoesWhat DEF update
<1> QED BY <1>1, <1>2 DEF Performs

----------------------------------------------------------------------------
(* The decoder's hidden rows, layer by layer. *)

\* h[l] is what layer l makes of the one before it, up to layer n.
HiddenUpto(h, m, n) ==
  h = [l \in 0 .. n |-> IF l = 0 THEN Embedding(m[<<"tokens", 0>>], m[<<"embedding", 0>>])
                        ELSE LayerAt(m, h[l - 1], l)]

\* The hidden rows of the first layers exist.
LEMMA HiddenExists ==
  ASSUME NEW m, NEW n \in Nat
  PROVE  \E h : HiddenUpto(h, m, n)
<1> DEFINE I == {k \in Nat : \E h : HiddenUpto(h, m, k)}
           first == Embedding(m[<<"tokens", 0>>], m[<<"embedding", 0>>])
           At(h, l) == IF l = 0 THEN first ELSE LayerAt(m, h[l - 1], l)
<1>1. 0 \in I
  <2> DEFINE h == [l \in 0 .. 0 |-> first]
  <2>1. h = [l \in 0 .. 0 |-> At(h, l)]
    OBVIOUS
  <2> HIDE DEF h
  <2> QED BY <2>1 DEF HiddenUpto
<1>2. ASSUME NEW k \in I PROVE k + 1 \in I
  <2>1. PICK h : HiddenUpto(h, m, k)
    OBVIOUS
  <2> DEFINE g == [l \in 0 .. k + 1 |-> At(h, l)]
  <2>2. \A l \in 0 .. k : h[l] = At(h, l)
    BY <2>1 DEF HiddenUpto
  <2>3. k \in Nat /\ \A l \in 0 .. k + 1 : l # 0 => l - 1 \in 0 .. k
    OBVIOUS
  <2>4. \A l \in 0 .. k : g[l] = h[l]
    <3> HIDE DEF At
    <3> QED BY <2>2, <2>3
  <2>5. \A l \in 0 .. k + 1 : At(g, l) = At(h, l)
    <3> HIDE DEF g
    <3> QED BY <2>3, <2>4
  <2>6. g = [l \in 0 .. k + 1 |-> At(g, l)]
    <3>1. \A l \in 0 .. k + 1 : g[l] = At(h, l)
      <4> HIDE DEF At
      <4> QED OBVIOUS
    <3>2. g = [l \in 0 .. k + 1 |-> g[l]]
      OBVIOUS
    <3> HIDE DEF g, At
    <3> QED BY <2>5, <3>1, <3>2
  <2> HIDE DEF g
  <2>7. HiddenUpto(g, m, k + 1)
    BY <2>6 DEF HiddenUpto
  <2> QED BY <2>3, <2>7
<1>3. I = Nat
  <2> HIDE DEF I
  <2> SUFFICES I \in SUBSET Nat
    BY <1>1, <1>2, Induction
  <2> QED BY DEF I
<1> QED BY <1>3

\* Each layer's hidden rows are what it makes of those before.
LEMMA HiddenAreLayers ==
  ASSUME NEW m
  PROVE  /\ PromisedHidden(m)[0] = Embedding(m[<<"tokens", 0>>], m[<<"embedding", 0>>])
         /\ \A l \in Layers : PromisedHidden(m)[l] = LayerAt(m, PromisedHidden(m)[l - 1], l)
<1> DEFINE h == CHOOSE g : HiddenUpto(g, m, LayerCount)
<1>1. LayerCount \in Nat
  BY DecoderStageAssumption
<1>2. PromisedHidden(m) = h
  BY DEF PromisedHidden, HiddenUpto
<1>3. HiddenUpto(h, m, LayerCount)
  <2> HIDE DEF HiddenUpto
  <2> QED BY <1>1, HiddenExists
<1> HIDE DEF h
<1>4. /\ \A l \in Layers : l \in 0 .. LayerCount /\ l # 0
      /\ 0 \in 0 .. LayerCount
  BY <1>1 DEF Layers
<1>5. \A l \in 0 .. LayerCount :
        h[l] = IF l = 0 THEN Embedding(m[<<"tokens", 0>>], m[<<"embedding", 0>>])
               ELSE LayerAt(m, h[l - 1], l)
  BY <1>3 DEF HiddenUpto
<1> QED BY <1>2, <1>4, <1>5

----------------------------------------------------------------------------
(* What the memory holds after a stage's steps so far, memory m before.    *)

Untouched(m, a) ==
  /\ \A x \in Weights \union {"length", "table"}, l \in Layers : a[<<x, l>>] = m[<<x, l>>]
  /\ \A x \in {"finalNorm", "languageModelHead"} : a[<<x, 0>>] = m[<<x, 0>>]

\* What layer l projects.
InputAt(m, l) == NormedAt(m, PromisedHidden(m)[l - 1], l)

\* The layers up to k have appended their keys and values, those after have not.
Carried(m, a, k) ==
  /\ IsMemory(a) /\ Untouched(m, a)
  /\ \A l \in Layers :
       /\ l <= k => /\ a[<<"keys", l>>] = PromisedKeys(m, InputAt(m, l), l)
                    /\ a[<<"values", l>>] = PromisedValues(m, InputAt(m, l), l)
       /\ l > k => /\ a[<<"keys", l>>] = m[<<"keys", l>>]
                   /\ a[<<"values", l>>] = m[<<"values", l>>]

Finished(m, a, k) == Carried(m, a, k) /\ a[Hidden(k)] = PromisedHidden(m)[k]

QueryAt(m, l) == TurnedAt(m, Product(InputAt(m, l), m[<<"queryWeight", l>>]), l)
KeyAt(m, l) == TurnedAt(m, Product(InputAt(m, l), m[<<"keyWeight", l>>]), l)
ValueAt(m, l) == Product(InputAt(m, l), m[<<"valueWeight", l>>])

Turns(m, a, l) ==
  /\ Finished(m, a, l - 1)
  /\ a[Shared("rotatedQuery")] = QueryAt(m, l)
  /\ a[Shared("rotatedKey")] = KeyAt(m, l)
  /\ a[Shared("value")] = ValueAt(m, l)

\* Layer l has appended and still has its input.
Halfway(m, a, l) == Carried(m, a, l) /\ a[Hidden(l - 1)] = PromisedHidden(m)[l - 1]

Holds(where, m, a, l) ==
  CASE where = "ready"    -> Finished(m, a, l - 1)
    [] where = "turned"   -> Turns(m, a, l)
    [] where = "cached"   -> Halfway(m, a, l) /\ a[Shared("rotatedQuery")] = QueryAt(m, l)
    [] where = "seen"     ->
         /\ Halfway(m, a, l)
         /\ a[Shared("context")] =
              Attended(QueryAt(m, l), PromisedKeys(m, InputAt(m, l), l),
                       PromisedValues(m, InputAt(m, l), l), m[<<"length", l>>], m[<<"table", l>>])
    [] where = "attended" ->
         /\ Halfway(m, a, l)
         /\ a[Shared("attentionOutput")] = PromisedAttention(m, InputAt(m, l), l)
    [] where = "summed"   ->
         LET sum == SumAt(m, PromisedHidden(m)[l - 1], l) IN
         /\ Carried(m, a, l)
         /\ a[Shared("afterAttention")] = sum
         /\ a[Shared("postAttentionNormalized")] = Norm(sum, m[<<"postNorm", l>>])
    [] where = "gated"    ->
         LET sum == SumAt(m, PromisedHidden(m)[l - 1], l)
             x == Norm(sum, m[<<"postNorm", l>>])
         IN  /\ Carried(m, a, l)
             /\ a[Shared("afterAttention")] = sum
             /\ a[Shared("gated")] =
                  Gated(Product(x, m[<<"gateWeight", l>>]), Product(x, m[<<"upWeight", l>>]))
    [] where = "done"     -> Finished(m, a, l)

\* What the memory holds in each place, by name.
LEMMA HoldsWhere ==
  ASSUME NEW m, NEW a, NEW l
  PROVE  /\ Holds("ready", m, a, l) <=> Finished(m, a, l - 1)
         /\ Holds("turned", m, a, l) <=> Turns(m, a, l)
         /\ Holds("cached", m, a, l)
              <=> Halfway(m, a, l) /\ a[Shared("rotatedQuery")] = QueryAt(m, l)
         /\ Holds("seen", m, a, l) <=>
              /\ Halfway(m, a, l)
              /\ a[Shared("context")] =
                   Attended(QueryAt(m, l), PromisedKeys(m, InputAt(m, l), l),
                            PromisedValues(m, InputAt(m, l), l), m[<<"length", l>>],
                            m[<<"table", l>>])
         /\ Holds("attended", m, a, l) <=>
              /\ Halfway(m, a, l)
              /\ a[Shared("attentionOutput")] = PromisedAttention(m, InputAt(m, l), l)
         /\ Holds("summed", m, a, l) <=>
              /\ Carried(m, a, l)
              /\ a[Shared("afterAttention")] = SumAt(m, PromisedHidden(m)[l - 1], l)
              /\ a[Shared("postAttentionNormalized")]
                   = Norm(SumAt(m, PromisedHidden(m)[l - 1], l), m[<<"postNorm", l>>])
         /\ Holds("done", m, a, l) <=> Finished(m, a, l)
BY DEF Holds

LEMMA HoldsGated ==
  ASSUME NEW m, NEW a, NEW l
  PROVE  Holds("gated", m, a, l) <=>
           LET x == Norm(SumAt(m, PromisedHidden(m)[l - 1], l), m[<<"postNorm", l>>]) IN
           /\ Carried(m, a, l)
           /\ a[Shared("afterAttention")] = SumAt(m, PromisedHidden(m)[l - 1], l)
           /\ a[Shared("gated")] =
                Gated(Product(x, m[<<"gateWeight", l>>]), Product(x, m[<<"upWeight", l>>]))
BY DEF Holds

\* What leaves all but scratch alone carries what was carried.
LEMMA LeavesCarried ==
  ASSUME NEW m, NEW a, NEW c, NEW k, Carried(m, a, k), Leaves(a, c)
  PROVE  Carried(m, c, k)
<1>1. /\ \A x \in Weights \union {"length", "table"}, l \in Layers : c[<<x, l>>] = a[<<x, l>>]
      /\ \A x \in {"finalNorm", "languageModelHead"} : c[<<x, 0>>] = a[<<x, 0>>]
      /\ \A l \in Layers : c[<<"keys", l>>] = a[<<"keys", l>>] /\ c[<<"values", l>>] = a[<<"values", l>>]
  BY LastingBuffers DEF Leaves
<1>2. Untouched(m, c)
  BY <1>1 DEF Carried, Untouched
<1> QED BY <1>1, <1>2 DEF Carried, Leaves

\* A layer's input survives what leaves all but scratch alone.
LEMMA LeavesHalfway ==
  ASSUME NEW m, NEW a, NEW c, NEW l \in Layers, Halfway(m, a, l), Leaves(a, c)
  PROVE  Halfway(m, c, l)
<1>1. l - 1 \in Nat
  BY DecoderStageAssumption DEF Layers
<1>2. c[Hidden(l - 1)] = a[Hidden(l - 1)]
  BY <1>1, LastingBuffers DEF Leaves
<1> QED BY <1>2, LeavesCarried DEF Halfway

\* What a layer reads of its own is what was there before.
LEMMA CarriedReads ==
  ASSUME NEW m, NEW a, NEW k, NEW l \in Layers, Carried(m, a, k)
  PROVE  /\ a[<<"inputNorm", l>>] = m[<<"inputNorm", l>>]
         /\ a[<<"queryWeight", l>>] = m[<<"queryWeight", l>>]
         /\ a[<<"keyWeight", l>>] = m[<<"keyWeight", l>>]
         /\ a[<<"valueWeight", l>>] = m[<<"valueWeight", l>>]
         /\ a[<<"outputWeight", l>>] = m[<<"outputWeight", l>>]
         /\ a[<<"postNorm", l>>] = m[<<"postNorm", l>>]
         /\ a[<<"gateWeight", l>>] = m[<<"gateWeight", l>>]
         /\ a[<<"upWeight", l>>] = m[<<"upWeight", l>>]
         /\ a[<<"downWeight", l>>] = m[<<"downWeight", l>>]
         /\ a[<<"length", l>>] = m[<<"length", l>>] /\ a[<<"table", l>>] = m[<<"table", l>>]
BY DEF Carried, Untouched, Weights

\* The projections of what the layers before finished.
LEMMA Projecting ==
  ASSUME NEW m, NEW a, NEW c, NEW l \in Layers, Finished(m, a, l - 1), Projected(a, c, l)
  PROVE  Turns(m, c, l)
<1>1. l - 1 \in Nat
  BY DecoderStageAssumption DEF Layers
<1>2. Leaves(a, c)
  BY DEF Projected, Leaves, Lasting
<1>3. Carried(m, c, l - 1) /\ c[Hidden(l - 1)] = a[Hidden(l - 1)]
  BY <1>1, <1>2, LeavesCarried, LastingBuffers DEF Finished, Leaves
<1>4. NormedAt(a, a[Hidden(l - 1)], l) = InputAt(m, l)
  BY ZenonT(60), CarriedReads DEF Finished, NormedAt, InputAt
<1>5. Finished(m, c, l - 1)
  BY <1>3 DEF Finished
<1>6. /\ a[<<"queryWeight", l>>] = m[<<"queryWeight", l>>]
      /\ a[<<"keyWeight", l>>] = m[<<"keyWeight", l>>]
      /\ a[<<"valueWeight", l>>] = m[<<"valueWeight", l>>]
      /\ a[<<"length", l>>] = m[<<"length", l>>]
  <2>1. PICK k : Carried(m, a, k)
    BY DEF Finished
  <2>2. a[<<"queryWeight", l>>] = m[<<"queryWeight", l>>]
    BY ZenonT(60), <2>1, CarriedReads
  <2>3. a[<<"keyWeight", l>>] = m[<<"keyWeight", l>>]
    BY <2>1 DEF Carried, Untouched, Weights
  <2>4. a[<<"valueWeight", l>>] = m[<<"valueWeight", l>>]
    BY <2>1 DEF Carried, Untouched, Weights
  <2>5. a[<<"length", l>>] = m[<<"length", l>>]
    BY <2>1 DEF Carried, Untouched
  <2> QED BY <2>2, <2>3, <2>4, <2>5
<1>7. c[Shared("rotatedQuery")] = QueryAt(m, l)
  BY <1>4, <1>6 DEF Projected, QueryAt, TurnedAt
<1>8. c[Shared("rotatedKey")] = KeyAt(m, l)
  BY <1>4, <1>6 DEF Projected, KeyAt, TurnedAt
<1>9. c[Shared("value")] = ValueAt(m, l)
  BY <1>4, <1>6 DEF Projected, ValueAt
<1> QED BY <1>5, <1>7, <1>8, <1>9 DEF Turns

\* The appends to the layer's caches; those of the other layers stay.
LEMMA Storing ==
  ASSUME NEW m, NEW a, NEW c, NEW l \in Layers, Turns(m, a, l), Stores(a, c, l)
  PROVE  Halfway(m, c, l) /\ c[Shared("rotatedQuery")] = QueryAt(m, l)
<1>1. l \in Nat /\ l - 1 \in Nat /\ \A k \in Layers : k \in Nat
  BY DecoderStageAssumption DEF Layers
<1>2. Carried(m, a, l - 1) /\ a[<<"keys", l>>] = m[<<"keys", l>>] /\ a[<<"values", l>>] = m[<<"values", l>>]
  BY <1>1 DEF Turns, Finished, Carried
<1>3. /\ c[<<"keys", l>>] = PromisedKeys(m, InputAt(m, l), l)
      /\ c[<<"values", l>>] = PromisedValues(m, InputAt(m, l), l)
  BY ZenonT(60), <1>2, CarriedReads
  DEF Stores, Turns, KeyAt, ValueAt, PromisedKeys, PromisedValues, AppendedAt, TurnedAt
<1>4. \A b \in Lasting : b # <<"keys", l>> /\ b # <<"values", l>> => c[b] = a[b]
  BY DEF Stores, Lasting
<1>5. Untouched(m, c)
  <2>1. \A x \in Weights \union {"length", "table"}, k \in Layers :
          <<x, k>> # <<"keys", l>> /\ <<x, k>> # <<"values", l>>
    BY DEF Weights
  <2>2. \A x \in {"finalNorm", "languageModelHead"} : <<x, 0>> # <<"keys", l>> /\ <<x, 0>> # <<"values", l>>
    OBVIOUS
  <2>3. \A x \in Weights \union {"length", "table"}, k \in Layers : c[<<x, k>>] = a[<<x, k>>]
    BY <1>4, <2>1, LastingBuffers
  <2>4. \A x \in {"finalNorm", "languageModelHead"} : c[<<x, 0>>] = a[<<x, 0>>]
    BY <1>4, <2>2, LastingBuffers
  <2> QED BY <1>2, <2>3, <2>4 DEF Carried, Untouched
<1>6. ASSUME NEW k \in Layers, k # l
      PROVE  c[<<"keys", k>>] = a[<<"keys", k>>] /\ c[<<"values", k>>] = a[<<"values", k>>]
  <2>1. /\ <<"keys", k>> # <<"keys", l>> /\ <<"keys", k>> # <<"values", l>>
        /\ <<"values", k>> # <<"keys", l>> /\ <<"values", k>> # <<"values", l>>
    BY <1>6
  <2> QED BY <1>4, <2>1, LastingBuffers
<1>7. Carried(m, c, l)
  <2>1. IsMemory(c)
    BY DEF Stores
  <2>2. ASSUME NEW k \in Layers, k <= l
        PROVE  /\ c[<<"keys", k>>] = PromisedKeys(m, InputAt(m, k), k)
               /\ c[<<"values", k>>] = PromisedValues(m, InputAt(m, k), k)
    <3>1. CASE k = l
      BY <1>3, <3>1
    <3>2. CASE k # l
      <4>1. k <= l - 1
        BY <1>1, <2>2, <3>2
      <4> QED BY <1>2, <1>6, <3>2, <4>1 DEF Carried
    <3> QED BY <3>1, <3>2
  <2>3. ASSUME NEW k \in Layers, k > l
        PROVE  c[<<"keys", k>>] = m[<<"keys", k>>] /\ c[<<"values", k>>] = m[<<"values", k>>]
    <3>1. k # l /\ k > l - 1
      BY <1>1, <2>3
    <3> QED BY <1>2, <1>6, <3>1 DEF Carried
  <2> QED BY <1>5, <2>1, <2>2, <2>3 DEF Carried
<1>8. c[Hidden(l - 1)] = a[Hidden(l - 1)]
  <2>1. Hidden(l - 1) # <<"keys", l>> /\ Hidden(l - 1) # <<"values", l>>
    BY DEF Hidden
  <2> QED BY <1>1, <1>4, <2>1, LastingBuffers
<1>9. c[Shared("rotatedQuery")] = a[Shared("rotatedQuery")]
  <2>1. Shared("rotatedQuery") \in Buffers
    BY BuffersOfStage DEF Shared, Arena
  <2>2. Shared("rotatedQuery") # <<"keys", l>> /\ Shared("rotatedQuery") # <<"values", l>>
    BY DEF Shared
  <2> QED BY <2>1, <2>2 DEF Stores
<1> QED BY <1>7, <1>8, <1>9 DEF Halfway, Turns, Finished

\* Attention over the caches that the layer has appended to.
LEMMA HalfwayContext ==
  ASSUME NEW m, NEW a, NEW l \in Layers, Halfway(m, a, l),
         a[Shared("rotatedQuery")] = QueryAt(m, l)
  PROVE  ContextAt(a, l) = Attended(QueryAt(m, l), PromisedKeys(m, InputAt(m, l), l),
                                    PromisedValues(m, InputAt(m, l), l), m[<<"length", l>>],
                                    m[<<"table", l>>])
<1>1. l <= l
  BY DecoderStageAssumption DEF Layers
<1>2. /\ a[<<"keys", l>>] = PromisedKeys(m, InputAt(m, l), l)
      /\ a[<<"values", l>>] = PromisedValues(m, InputAt(m, l), l)
  BY <1>1 DEF Halfway, Carried
<1> QED BY ZenonT(60), <1>2, CarriedReads DEF ContextAt, Halfway

\* What a region is for takes a layer from one place to the next.
Leads == {<<"ready", "project", "turned">>, <<"turned", "store", "cached">>,
          <<"cached", "see", "seen">>, <<"seen", "output", "attended">>,
          <<"cached", "attend", "attended">>, <<"seen", "sum", "summed">>,
          <<"attended", "residual", "summed">>, <<"summed", "gate", "gated">>,
          <<"gated", "feed", "done">>}

\* From the appended caches to the projected attention, in one step or two.
LEMMA Attending ==
  ASSUME NEW m, NEW a, NEW c, NEW l \in Layers
  PROVE  /\ Holds("cached", m, a, l) /\ Sees(a, c, l) => Holds("seen", m, c, l)
         /\ Holds("seen", m, a, l) /\ Outs(a, c, l) => Holds("attended", m, c, l)
         /\ Holds("cached", m, a, l) /\ Attends(a, c, l) => Holds("attended", m, c, l)
<1> DEFINE context == Attended(QueryAt(m, l), PromisedKeys(m, InputAt(m, l), l),
                               PromisedValues(m, InputAt(m, l), l), m[<<"length", l>>],
                               m[<<"table", l>>])
<1>1. PromisedAttention(m, InputAt(m, l), l) = Product(context, m[<<"outputWeight", l>>])
  BY DEF PromisedAttention, QueryAt
<1>2. ASSUME Halfway(m, a, l) PROVE a[<<"outputWeight", l>>] = m[<<"outputWeight", l>>]
  BY ZenonT(60), <1>2, CarriedReads DEF Halfway
<1>3. ASSUME Holds("cached", m, a, l), Sees(a, c, l) PROVE Holds("seen", m, c, l)
  <2>1. Halfway(m, a, l) /\ a[Shared("rotatedQuery")] = QueryAt(m, l)
    BY <1>3, HoldsWhere
  <2>2. Halfway(m, c, l)
    BY <1>3, <2>1, LeavesHalfway DEF Sees
  <2>3. c[Shared("context")] = context
    BY <1>3, <2>1, HalfwayContext DEF Sees
  <2> QED BY <2>2, <2>3, HoldsWhere
<1>4. ASSUME Holds("seen", m, a, l), Outs(a, c, l) PROVE Holds("attended", m, c, l)
  <2>1. Halfway(m, a, l) /\ a[Shared("context")] = context
    BY <1>4, HoldsWhere
  <2> HIDE DEF context
  <2>2. Halfway(m, c, l)
    BY <1>4, <2>1, LeavesHalfway DEF Outs
  <2>3. c[Shared("attentionOutput")] = Product(context, m[<<"outputWeight", l>>])
    BY <1>2, <1>4, <2>1 DEF Outs
  <2> QED BY <1>1, <2>2, <2>3, HoldsWhere
<1>5. ASSUME Holds("cached", m, a, l), Attends(a, c, l) PROVE Holds("attended", m, c, l)
  <2>1. Halfway(m, a, l) /\ a[Shared("rotatedQuery")] = QueryAt(m, l)
    BY <1>5, HoldsWhere
  <2>2. Halfway(m, c, l)
    BY <1>5, <2>1, LeavesHalfway DEF Attends
  <2>3. ContextAt(a, l) = context
    BY <2>1, HalfwayContext
  <2> HIDE DEF context
  <2>4. c[Shared("attentionOutput")] = Product(context, m[<<"outputWeight", l>>])
    BY <1>2, <1>5, <2>1, <2>3 DEF Attends
  <2> QED BY <1>1, <2>2, <2>4, HoldsWhere
<1> QED BY <1>3, <1>4, <1>5

\* From the projected attention to the residual sum and its norm.
LEMMA Summing ==
  ASSUME NEW m, NEW a, NEW c, NEW l \in Layers, Halfway(m, a, l),
         Sums(a, c, l, PromisedAttention(m, InputAt(m, l), l))
  PROVE  Holds("summed", m, c, l)
<1> DEFINE sum == SumAt(m, PromisedHidden(m)[l - 1], l)
<1>1. sum = Added(PromisedHidden(m)[l - 1], PromisedAttention(m, InputAt(m, l), l))
  BY DEF SumAt, InputAt
<1>2. a[Hidden(l - 1)] = PromisedHidden(m)[l - 1] /\ Carried(m, a, l)
  BY DEF Halfway
<1>3. a[<<"postNorm", l>>] = m[<<"postNorm", l>>]
  BY ZenonT(60), <1>2, CarriedReads
<1>4. Carried(m, c, l)
  BY <1>2, LeavesCarried DEF Sums
<1> HIDE DEF sum
<1>5. c[Shared("afterAttention")] = sum
  BY <1>1, <1>2 DEF Sums
<1>6. c[Shared("postAttentionNormalized")] = Norm(sum, m[<<"postNorm", l>>])
  BY <1>1, <1>2, <1>3 DEF Sums
<1> QED BY <1>4, <1>5, <1>6, HoldsWhere DEF sum

\* From the normalized sum to the layer's output.
LEMMA Feeding ==
  ASSUME NEW m, NEW a, NEW c, NEW l \in Layers
  PROVE  /\ Holds("summed", m, a, l) /\ Gates(a, c, l) => Holds("gated", m, c, l)
         /\ Holds("gated", m, a, l) /\ Feeds(a, c, l) => Holds("done", m, c, l)
<1> DEFINE sum == SumAt(m, PromisedHidden(m)[l - 1], l)
           x == Norm(sum, m[<<"postNorm", l>>])
           gated == Gated(Product(x, m[<<"gateWeight", l>>]), Product(x, m[<<"upWeight", l>>]))
<1>1. ASSUME Holds("summed", m, a, l), Gates(a, c, l) PROVE Holds("gated", m, c, l)
  <2>1. /\ Carried(m, a, l) /\ a[Shared("afterAttention")] = sum
        /\ a[Shared("postAttentionNormalized")] = x
    BY <1>1, HoldsWhere
  <2>2. Carried(m, c, l)
    BY <1>1, <2>1, LeavesCarried DEF Gates
  <2>3. /\ a[<<"gateWeight", l>>] = m[<<"gateWeight", l>>]
        /\ a[<<"upWeight", l>>] = m[<<"upWeight", l>>]
    BY ZenonT(60), <2>1, CarriedReads
  <2> HIDE DEF sum, x
  <2>4. c[Shared("afterAttention")] = sum /\ c[Shared("gated")] = gated
    BY <1>1, <2>1, <2>3 DEF Gates
  <2> QED BY <2>2, <2>4, HoldsGated DEF x, sum
<1>2. ASSUME Holds("gated", m, a, l), Feeds(a, c, l) PROVE Holds("done", m, c, l)
  <2>1. Carried(m, a, l) /\ a[Shared("afterAttention")] = sum /\ a[Shared("gated")] = gated
    BY <1>2, HoldsGated
  <2>2. a[<<"downWeight", l>>] = m[<<"downWeight", l>>]
    BY ZenonT(60), <2>1, CarriedReads
  <2>3. PromisedHidden(m)[l] = LayerAt(m, PromisedHidden(m)[l - 1], l)
    BY HiddenAreLayers
  <2>4. LayerAt(m, PromisedHidden(m)[l - 1], l)
          = Added(sum, Product(gated, m[<<"downWeight", l>>]))
    BY DEF LayerAt, PromisedFeed
  <2>5. /\ \A k \in Layers :
             /\ \A y \in Weights \union {"keys", "values", "length", "table"} :
                  c[<<y, k>>] = a[<<y, k>>]
        /\ \A y \in {"finalNorm", "languageModelHead"} : c[<<y, 0>>] = a[<<y, 0>>]
    <3>1. /\ \A y \in Weights \union {"keys", "values", "length", "table"} : y # "hidden"
          /\ \A y \in {"finalNorm", "languageModelHead"} : y # "hidden"
      BY DEF Weights
    <3>2. /\ \A y \in Weights \union {"keys", "values", "length", "table"} :
               \A k : <<y, k>> # Hidden(l)
          /\ \A y \in {"finalNorm", "languageModelHead"} : \A k : <<y, k>> # Hidden(l)
      BY <3>1, HiddenDiffers
    <3> QED BY <1>2, <3>2, LastingBuffers DEF Feeds
  <2>6. Carried(m, c, l)
    <3>1. Untouched(m, c)
      BY <2>1, <2>5 DEF Carried, Untouched
    <3>2. IsMemory(c)
      BY <1>2 DEF Feeds
    <3>3. \A k \in Layers : c[<<"keys", k>>] = a[<<"keys", k>>] /\ c[<<"values", k>>] = a[<<"values", k>>]
      BY <2>5
    <3> QED BY <2>1, <3>1, <3>2, <3>3 DEF Carried
  <2> HIDE DEF sum, gated
  <2>7. c[Hidden(l)] = PromisedHidden(m)[l]
    BY <1>2, <2>1, <2>2, <2>3, <2>4 DEF Feeds
  <2> QED BY <2>6, <2>7, HoldsWhere DEF Finished
<1> QED BY <1>1, <1>2

\* A region that does what it is for leads on.
LEMMA LeadsOn ==
  ASSUME NEW m, NEW a, NEW c, NEW l \in Layers, NEW where, NEW what, NEW there,
         <<where, what, there>> \in Leads, Holds(where, m, a, l), Does(what, a, c, l)
  PROVE  Holds(there, m, c, l)
<1>1. CASE where = "ready" /\ what = "project" /\ there = "turned"
  <2>1. Finished(m, a, l - 1) /\ Projected(a, c, l)
    BY <1>1, HoldsWhere, DoesWhat
  <2>2. Turns(m, c, l)
    BY <2>1, Projecting
  <2> QED BY <1>1, <2>2, HoldsWhere
<1>2. CASE where = "turned" /\ what = "store" /\ there = "cached"
  <2>1. Turns(m, a, l) /\ Stores(a, c, l)
    BY <1>2, HoldsWhere, DoesWhat
  <2>2. Halfway(m, c, l) /\ c[Shared("rotatedQuery")] = QueryAt(m, l)
    BY <2>1, Storing
  <2> QED BY <1>2, <2>2, HoldsWhere
<1>3. CASE where = "cached" /\ what = "see" /\ there = "seen"
  BY <1>3, DoesWhat, Attending
<1>4. CASE where = "seen" /\ what = "output" /\ there = "attended"
  BY <1>4, DoesWhat, Attending
<1>5. CASE where = "cached" /\ what = "attend" /\ there = "attended"
  BY <1>5, DoesWhat, Attending
<1>6. CASE where = "seen" /\ what = "sum" /\ there = "summed"
  <2>1. /\ Halfway(m, a, l)
        /\ a[Shared("context")] =
             Attended(QueryAt(m, l), PromisedKeys(m, InputAt(m, l), l),
                      PromisedValues(m, InputAt(m, l), l), m[<<"length", l>>], m[<<"table", l>>])
    BY <1>6, HoldsWhere
  <2>2. Sums(a, c, l, Product(a[Shared("context")], a[<<"outputWeight", l>>]))
    BY <1>6, DoesWhat
  <2>3. a[<<"outputWeight", l>>] = m[<<"outputWeight", l>>]
    BY ZenonT(60), <2>1, CarriedReads DEF Halfway
  <2>4. PromisedAttention(m, InputAt(m, l), l)
          = Product(a[Shared("context")], a[<<"outputWeight", l>>])
    BY <2>1, <2>3 DEF PromisedAttention, QueryAt
  <2>5. Sums(a, c, l, PromisedAttention(m, InputAt(m, l), l))
    BY <2>2, <2>4
  <2> QED BY <1>6, <2>1, <2>5, Summing
<1>7. CASE where = "attended" /\ what = "residual" /\ there = "summed"
  <2>1. /\ Halfway(m, a, l)
        /\ a[Shared("attentionOutput")] = PromisedAttention(m, InputAt(m, l), l)
    BY <1>7, HoldsWhere
  <2>2. Sums(a, c, l, PromisedAttention(m, InputAt(m, l), l))
    BY <1>7, <2>1, DoesWhat
  <2> QED BY <1>7, <2>1, <2>2, Summing
<1>8. CASE where = "summed" /\ what = "gate" /\ there = "gated"
  BY <1>8, DoesWhat, Feeding
<1>9. CASE where = "gated" /\ what = "feed" /\ there = "done"
  BY <1>9, DoesWhat, Feeding
<1> QED BY <1>1, <1>2, <1>3, <1>4, <1>5, <1>6, <1>7, <1>8, <1>9 DEF Leads

----------------------------------------------------------------------------
(* Where the steps so far lead in every call that a length is staged for.  *)

StagedAt(n, paged) ==
  WithCache(Junk(1), [length |-> Length(n), table |-> IF paged THEN SomePages ELSE NoTable])

Reaches(where, s, l, rows, paged) ==
  \A n \in rows .. Capacity :
    Holds(where, StagedAt(n, paged), Execute(StagedAt(n, paged), s, rows), l)

\* The steps before the mark lead to a place, those after it are a region.
Cuts(where, what, s, k, l, rows, paged) ==
  /\ Reaches(where, Upto(s, k), l, rows, paged)
  /\ Performs(what, Beyond(s, k), l, rows)

\* A call stages a length that holds the rows, and pages where there is a table.
LEMMA StagedAtFacts ==
  ASSUME NEW rows, NEW n \in rows .. Capacity, NEW paged
  PROVE  /\ IsMemory(StagedAt(n, paged))
         /\ \A l \in Layers : /\ Valid(StagedAt(n, paged)[<<"length", l>>], rows)
                              /\ StagedAt(n, paged)[<<"table", l>>] # NoPages
<1> DEFINE cache == [length |-> Length(n), table |-> IF paged THEN SomePages ELSE NoTable]
<1>1. IsMemory(StagedAt(n, paged))
  BY DEF IsMemory, StagedAt, WithCache
<1>2. \A l \in Layers : /\ StagedAt(n, paged)[<<"length", l>>] = cache.length
                        /\ StagedAt(n, paged)[<<"table", l>>] = cache.table
  <2>1. \A l \in Layers : <<"length", l>> \in Buffers /\ <<"table", l>> \in Buffers
    BY BuffersOfStage
  <2> HIDE DEF cache
  <2>2. \A b \in Buffers : StagedAt(n, paged)[b] =
          CASE b[1] = "length" -> cache.length
            [] b[1] = "table" -> cache.table
            [] b[1] \in Weights \cup {"embedding", "finalNorm", "languageModelHead", "keys", "values"} ->
                 <<"kept", b>>
            [] OTHER -> Junk(1)[b]
    BY DEF StagedAt, WithCache, cache
  <2>3. \A l : <<"length", l>>[1] = "length" /\ <<"table", l>>[1] = "table"
    OBVIOUS
  <2>4. "length" # "table" /\ "length" \notin Weights /\ "table" \notin Weights
    BY DEF Weights
  <2> QED BY <2>1, <2>2, <2>3, <2>4
<1>3. Valid(cache.length, rows)
  BY DEF Valid, Length
<1>4. cache.table # NoPages
  BY DEF NoPages, SomePages, NoTable
<1> HIDE DEF cache
<1> QED BY <1>1, <1>2, <1>3, <1>4

\* In every place the weights and the cache state are what they were.
LEMMA HoldsCarried ==
  ASSUME NEW m, NEW a, NEW l, NEW where, NEW what, NEW there, <<where, what, there>> \in Leads,
         Holds(where, m, a, l)
  PROVE  \E k : Carried(m, a, k)
<1>1. where \in {"ready", "turned", "cached", "seen", "attended", "summed", "gated"}
  BY DEF Leads
<1>2. CASE where = "gated"
  BY <1>2, HoldsGated
<1>3. CASE where \in {"ready", "turned"}
  <2>1. Finished(m, a, l - 1)
    BY <1>3, HoldsWhere DEF Turns
  <2> QED BY <2>1 DEF Finished
<1>4. CASE where \in {"cached", "seen", "attended", "summed"}
  <2>1. Carried(m, a, l)
    BY <1>4, HoldsWhere DEF Halfway
  <2> QED BY <2>1
<1> QED BY <1>1, <1>2, <1>3, <1>4

\* Steps that do what the next region is for lead on.
LEMMA Onward ==
  ASSUME NEW l \in Layers, NEW rows, NEW paged, NEW where, NEW what, NEW there,
         <<where, what, there>> \in Leads, NEW s \in Seq(Entries), NEW t \in Seq(Entries),
         Reaches(where, s, l, rows, paged), Performs(what, t, l, rows)
  PROVE  Reaches(there, s \o t, l, rows, paged)
<1> SUFFICES ASSUME NEW n \in rows .. Capacity
             PROVE  Holds(there, StagedAt(n, paged), Execute(StagedAt(n, paged), s \o t, rows), l)
  BY DEF Reaches
<1> DEFINE m == StagedAt(n, paged)
           a == Execute(m, s, rows)
           c == Execute(a, t, rows)
<1>1. Holds(where, m, a, l)
  BY DEF Reaches
<1>2. Execute(m, s \o t, rows) = c
  BY ExecuteConcat
<1>3. IsMemory(m) /\ Valid(m[<<"length", l>>], rows) /\ m[<<"table", l>>] # NoPages
  BY StagedAtFacts
<1> HIDE DEF m, a
<1>4. PICK k : Carried(m, a, k)
  BY <1>1, HoldsCarried
<1>5. a[<<"length", l>>] = m[<<"length", l>>] /\ a[<<"table", l>>] = m[<<"table", l>>] /\ IsMemory(a)
  BY <1>4 DEF Carried, Untouched
<1>6. Suits(what, a, l, rows)
  BY <1>3, <1>5 DEF Suits
<1>7. Does(what, a, c, l)
  BY <1>6 DEF Performs
<1> HIDE DEF c
<1>8. Holds(there, m, c, l)
  BY <1>1, <1>7, LeadsOn
<1> QED BY <1>2, <1>8 DEF m

\* A finished layer's output is the next one's input.
LEMMA NextReady ==
  ASSUME NEW l \in Nat, NEW rows, NEW paged, NEW s, Reaches("done", s, l, rows, paged)
  PROVE  Reaches("ready", s, l + 1, rows, paged)
<1>1. (l + 1) - 1 = l
  OBVIOUS
<1>2. \A m, a : Holds("done", m, a, l) => Holds("ready", m, a, l + 1)
  BY <1>1, HoldsWhere
<1> QED BY <1>2 DEF Reaches

\* A region begins where the steps have come.
LEMMA CutsAt ==
  ASSUME NEW l, NEW rows, NEW paged, NEW where, NEW what, NEW s \in Seq(Entries),
         NEW t \in Seq(Entries), Reaches(where, s, l, rows, paged), Performs(what, t, l, rows)
  PROVE  Cuts(where, what, s \o t, Len(s), l, rows, paged)
BY CutAt DEF Cuts

\* What does what the region does may replace it.
LEMMA CutsReplaced ==
  ASSUME NEW l, NEW rows, NEW paged, NEW where, NEW what, NEW s \in Seq(Entries),
         NEW k \in 0 .. Len(s), NEW t \in Seq(Entries), Cuts(where, what, s, k, l, rows, paged),
         Performs(what, t, l, rows)
  PROVE  Cuts(where, what, Upto(s, k) \o t, k, l, rows, paged)
<1>1. Upto(s, k) \in Seq(Entries) /\ Len(Upto(s, k)) = k
  BY Cut
<1>2. Upto(Upto(s, k) \o t, k) = Upto(s, k) /\ Beyond(Upto(s, k) \o t, k) = t
  BY <1>1, CutAt
<1> QED BY <1>2 DEF Cuts

\* With its region the steps lead on.
LEMMA CutsLead ==
  ASSUME NEW l \in Layers, NEW rows, NEW paged, NEW where, NEW what, NEW there,
         <<where, what, there>> \in Leads, NEW s \in Seq(Entries), NEW k \in 0 .. Len(s),
         Cuts(where, what, s, k, l, rows, paged)
  PROVE  Reaches(there, s, l, rows, paged)
<1>1. /\ Upto(s, k) \in Seq(Entries) /\ Beyond(s, k) \in Seq(Entries)
      /\ s = Upto(s, k) \o Beyond(s, k)
  BY Cut
<1>2. Reaches(where, Upto(s, k), l, rows, paged) /\ Performs(what, Beyond(s, k), l, rows)
  BY DEF Cuts
<1>3. Reaches(there, Upto(s, k) \o Beyond(s, k), l, rows, paged)
  BY <1>1, <1>2, Onward
<1> QED BY <1>1, <1>3

\* A region that grows into another one by what follows it.
LEMMA CutsGrow ==
  ASSUME NEW l \in Layers, NEW rows, NEW paged, NEW s \in Seq(Entries), NEW k \in 0 .. Len(s),
         NEW t \in Seq(Entries), Cuts("seen", "output", s, k, l, rows, paged),
         Performs("residual", t, l, rows)
  PROVE  Cuts("seen", "sum", s \o t, k, l, rows, paged)
<1>1. Beyond(s, k) \in Seq(Entries)
  BY Cut
<1>2. Upto(s \o t, k) = Upto(s, k) /\ Beyond(s \o t, k) = Beyond(s, k) \o t
  BY CutBefore
<1>3. Performs("sum", Beyond(s, k) \o t, l, rows)
  BY <1>1, Together DEF Cuts
<1> QED BY <1>2, <1>3 DEF Cuts

----------------------------------------------------------------------------
(* What the nodes' steps do. *)

\* Executing the steps of two nodes, and of five, in a row.
LEMMA ExecuteNodes ==
  ASSUME NEW m, NEW rows, NEW a, NEW b, NEW c, IsNode(a), IsNode(b), IsNode(c)
  PROVE  /\ ThreeSteps(a, b, c) \in Seq(Entries)
         /\ Execute(m, ThreeSteps(a, b, c), rows)
              = Execute(Execute(Execute(m, a.steps, rows), b.steps, rows), c.steps, rows)
<1>1. a.steps \in Seq(Entries) /\ b.steps \in Seq(Entries) /\ c.steps \in Seq(Entries)
  BY NodeIsTyped
<1> DEFINE s == a.steps \o b.steps
<1>2. s \in Seq(Entries)
  BY <1>1, EntriesTyped
<1>3. Execute(m, s, rows) = Execute(Execute(m, a.steps, rows), b.steps, rows)
  BY <1>1, ExecuteConcat
<1> HIDE DEF s
<1>4. Execute(m, s \o c.steps, rows) = Execute(Execute(m, s, rows), c.steps, rows)
  BY <1>1, <1>2, ExecuteConcat
<1>5. s \o c.steps \in Seq(Entries) /\ ThreeSteps(a, b, c) = s \o c.steps
  BY <1>1, <1>2, EntriesTyped DEF ThreeSteps, s
<1> QED BY <1>3, <1>4, <1>5

LEMMA ExecuteFive ==
  ASSUME NEW m, NEW rows, NEW a, NEW b, NEW c, NEW d, NEW e,
         IsNode(a), IsNode(b), IsNode(c), IsNode(d), IsNode(e)
  PROVE  /\ FiveSteps(a, b, c, d, e) \in Seq(Entries)
         /\ Execute(m, FiveSteps(a, b, c, d, e), rows)
              = Execute(Execute(Execute(m, ThreeSteps(a, b, c), rows), d.steps, rows), e.steps, rows)
<1>1. d.steps \in Seq(Entries) /\ e.steps \in Seq(Entries)
  BY NodeIsTyped
<1> DEFINE s == ThreeSteps(a, b, c)
           t == s \o d.steps
<1>2. s \in Seq(Entries)
  BY ExecuteNodes
<1>3. t \in Seq(Entries) /\ Execute(m, t, rows) = Execute(Execute(m, s, rows), d.steps, rows)
  <2> HIDE DEF s
  <2> QED BY <1>1, <1>2, EntriesTyped, ExecuteConcat
<1> HIDE DEF t
<1>4. t \o e.steps \in Seq(Entries)
      /\ Execute(m, t \o e.steps, rows) = Execute(Execute(m, t, rows), e.steps, rows)
  BY <1>1, <1>3, EntriesTyped, ExecuteConcat
<1> QED BY <1>3, <1>4 DEF FiveSteps, t

\* A linear node writes a product.
LEMMA LinearRuns ==
  ASSUME NEW m, NEW rows, NEW i, NEW x, NEW w, NEW o \in Buffers
  PROVE  Written(m, Execute(m, Linear(i, x, w, o).steps, rows), o, Product(m[x], m[w]))
BY NodeRuns, LinearStep DEF Linear

\* The shared buffers are buffers, and all but the tokens scratch.
LEMMA SharedBuffers ==
  \A x \in Arena \ {"tokens"} : Shared(x) \in Buffers /\ Shared(x) \in Scratch
BY BuffersOfStage DEF Shared, Scratch

\* A step that writes scratch leaves the rest alone.
LEMMA LeavesWritten ==
  ASSUME NEW m, NEW a, NEW c, NEW x \in Arena \ {"tokens"}, NEW v,
         Leaves(m, a), Written(a, c, Shared(x), v)
  PROVE  Leaves(m, c)
<1>1. \A b \in Lasting : b \in Buffers /\ b # Shared(x)
  BY SharedBuffers DEF Lasting
<1> QED BY <1>1 DEF Leaves, Written

\* Norm, projections and a rotation of both project.
LEMMA ProjectedByRotation ==
  ASSUME NEW l \in Layers, NEW m, NEW m1, NEW m2, NEW m3, Leaves(m, m1),
         LET x == NormedAt(m, m[Hidden(l - 1)], l) IN
         /\ m1[Shared("query")] = Product(x, m[<<"queryWeight", l>>])
         /\ m1[Shared("key")] = Product(x, m[<<"keyWeight", l>>])
         /\ m1[Shared("value")] = Product(x, m[<<"valueWeight", l>>]),
         Written(m1, m2, Shared("rotatedQuery"), Rotated(m1[Shared("query")], m1[<<"length", l>>])),
         Written(m2, m3, Shared("rotatedKey"), Rotated(m2[Shared("key")], m2[<<"length", l>>]))
  PROVE  Projected(m, m3, l)
<1>1. "rotatedQuery" \in Arena \ {"tokens"} /\ "rotatedKey" \in Arena \ {"tokens"}
  BY DEF Arena
<1>2. Leaves(m, m2) /\ Leaves(m, m3)
  BY <1>1, LeavesWritten
<1>3. m1[<<"length", l>>] = m[<<"length", l>>] /\ m2[<<"length", l>>] = m[<<"length", l>>]
  BY <1>2, LastingBuffers DEF Leaves
<1>4. /\ Shared("key") \in Buffers /\ Shared("value") \in Buffers /\ Shared("rotatedQuery") \in Buffers
      /\ Shared("key") # Shared("rotatedQuery") /\ Shared("value") # Shared("rotatedQuery")
      /\ Shared("value") # Shared("rotatedKey") /\ Shared("rotatedQuery") # Shared("rotatedKey")
  BY BuffersOfStage DEF Shared, Arena
<1>5. m2[Shared("key")] = m1[Shared("key")] /\ m2[Shared("value")] = m1[Shared("value")]
  BY <1>4 DEF Written
<1>6. m3[Shared("value")] = m1[Shared("value")]
      /\ m3[Shared("rotatedQuery")] = m2[Shared("rotatedQuery")]
  BY <1>4, <1>5 DEF Written
<1>7. /\ m2[Shared("rotatedQuery")] = Rotated(m1[Shared("query")], m[<<"length", l>>])
      /\ m3[Shared("rotatedKey")] = Rotated(m1[Shared("key")], m[<<"length", l>>])
  BY <1>3, <1>5 DEF Written
<1> QED BY <1>2, <1>6, <1>7 DEF Projected, TurnedAt, Leaves, Lasting

\* Both ways to rotate.
LEMMA RotationRuns ==
  ASSUME layer \in Layers, NEW m, NEW rows, NEW r \in Makers, Valid(m[length], rows)
  PROVE  \E a :
           /\ Written(m, a, Shared("rotatedQuery"), Rotated(m[Shared("query")], m[<<"length", layer>>]))
           /\ Written(a, Execute(m, RotationNode(r).steps, rows), Shared("rotatedKey"),
                      Rotated(a[Shared("key")], a[<<"length", layer>>]))
<1> DEFINE q == Shared("query")
           k == Shared("key")
           x == Shared("rotatedQuery")
           y == Shared("rotatedKey")
<1>1. /\ x \in Buffers /\ y \in Buffers /\ k \in Buffers /\ length \in Buffers
      /\ x # y /\ k # x /\ length # x /\ length = <<"length", layer>>
  BY BuffersOfStage DEF Shared, Arena, length, Own
<1>2. CASE r = "generated"
  <2> DEFINE new == Step("query key rope", <<q, k, length>>, <<x, y>>)
             c == Stepped(m, new, rows)
             a == [b \in Buffers |-> IF b = x THEN c[x] ELSE m[b]]
  <2>1. Execute(m, RotationNode(r).steps, rows) = c
    <3>1. RotationNode(r) = Node("generated", 1, <<new>>)
      BY <1>2 DEF RotationNode
    <3> HIDE DEF new
    <3> QED BY <3>1, NodeRuns
  <2>2. WrittenTwo(m, c, x, Rotated(m[q], m[length]), y, Rotated(m[k], m[length]))
    <3> HIDE DEF q, k, x, y
    <3> QED BY <1>1, QueryKeyRoPEStep
  <2> HIDE DEF c, q, k, x, y
  <2>3. a[x] = c[x] /\ \A b \in Buffers : b # x => a[b] = m[b]
    BY <1>1
  <2>4. IsMemory(a)
    BY DEF IsMemory
  <2> HIDE DEF a
  <2>5. Written(m, a, x, Rotated(m[q], m[length]))
    BY <2>2, <2>3, <2>4 DEF Written, WrittenTwo
  <2>6. \A b \in Buffers : b # y => c[b] = a[b]
    BY <2>2, <2>3 DEF WrittenTwo
  <2>7. Written(a, c, y, Rotated(a[k], a[length]))
    BY <1>1, <2>2, <2>3, <2>6 DEF Written, WrittenTwo
  <2> QED BY <1>1, <2>1, <2>5, <2>7 DEF q, k, x, y
<1>3. CASE r = "template"
  <2> DEFINE a == Stepped(m, RoPE(q, x), rows)
             c == Stepped(a, RoPE(k, y), rows)
  <2>1. Execute(m, RotationNode(r).steps, rows) = c
    BY <1>3, NodeRuns DEF RotationNode, Template
  <2>2. Written(m, a, x, Rotated(m[q], m[length]))
    <3> HIDE DEF q, k, x, y
    <3> QED BY <1>1, RoPEStep DEF RoPE
  <2>3. a[length] = m[length]
    BY <1>1, <2>2 DEF Written
  <2>4. Written(a, c, y, Rotated(a[k], a[length]))
    <3> HIDE DEF a, q, k, x, y
    <3> QED BY <1>1, <2>3, RoPEStep DEF RoPE
  <2> QED BY <1>1, <2>1, <2>2, <2>4
<1> QED BY <1>2, <1>3 DEF Makers

\* Norm, three projections by any maker and either rotation project.
LEMMA ProjectsNodes ==
  ASSUME layer \in Layers, NEW rows, NEW q \in Makers, NEW k \in Makers, NEW v \in Makers,
         NEW r \in Makers
  PROVE  Performs("project",
                  FiveSteps(NormNode, ProjectionNode(q, "queryWeight", "query"),
                            ProjectionNode(k, "keyWeight", "key"),
                            ProjectionNode(v, "valueWeight", "value"), RotationNode(r)),
                  layer, rows)
<1> DEFINE Q == ProjectionNode(q, "queryWeight", "query")
           K == ProjectionNode(k, "keyWeight", "key")
           V == ProjectionNode(v, "valueWeight", "value")
           R == RotationNode(r)
<1> SUFFICES ASSUME NEW m, Suits("project", m, layer, rows)
             PROVE  Does("project", m, Execute(m, FiveSteps(NormNode, Q, K, V, R), rows), layer)
  BY DEF Performs
<1> DEFINE m1 == Execute(m, NormNode.steps, rows)
           m2 == Execute(m1, Q.steps, rows)
           m3 == Execute(m2, K.steps, rows)
           m4 == Execute(m3, V.steps, rows)
           m6 == Execute(m4, R.steps, rows)
<1>1. Execute(m, FiveSteps(NormNode, Q, K, V, R), rows) = m6
  <2>1. IsNode(NormNode) /\ IsNode(Q) /\ IsNode(K) /\ IsNode(V) /\ IsNode(R)
    BY NodesAreTyped
  <2> HIDE DEF Q, K, V, R
  <2>2. Execute(m, ThreeSteps(NormNode, Q, K), rows) = m3
    BY <2>1, ExecuteNodes
  <2> HIDE DEF m3
  <2> QED BY <2>1, <2>2, ExecuteFive
<1>2. /\ Shared("normalized") \in Buffers /\ Shared("query") \in Buffers
      /\ Shared("key") \in Buffers /\ Shared("value") \in Buffers
  BY SharedBuffers DEF Arena
<1>3. Written(m, m1, Shared("normalized"), Norm(m[Hidden(layer - 1)], m[<<"inputNorm", layer>>]))
  <2>1. m1 = Stepped(m, Step("norm", <<current, Own("inputNorm")>>, <<Shared("normalized")>>), rows)
    BY NodeRuns DEF NormNode, Template
  <2>2. Written(m, m1, Shared("normalized"), Norm(m[current], m[Own("inputNorm")]))
    <3> HIDE DEF m1
    <3> QED BY <1>2, <2>1, NormStep
  <2> QED BY <2>2 DEF current, Own
<1> HIDE DEF m1
<1>4. Written(m1, m2, Shared("query"), Product(m1[Shared("normalized")], m1[<<"queryWeight", layer>>]))
  BY <1>2, LinearRuns DEF ProjectionNode, Own
<1> HIDE DEF m2
<1>5. Written(m2, m3, Shared("key"), Product(m2[Shared("normalized")], m2[<<"keyWeight", layer>>]))
  BY <1>2, LinearRuns DEF ProjectionNode, Own
<1> HIDE DEF m3
<1>6. Written(m3, m4, Shared("value"), Product(m3[Shared("normalized")], m3[<<"valueWeight", layer>>]))
  BY <1>2, LinearRuns DEF ProjectionNode, Own
<1> HIDE DEF m4
<1>7. Leaves(m, m) /\ Leaves(m, m1) /\ Leaves(m, m2) /\ Leaves(m, m3) /\ Leaves(m, m4)
  <2>1. /\ "normalized" \in Arena \ {"tokens"} /\ "query" \in Arena \ {"tokens"}
        /\ "key" \in Arena \ {"tokens"} /\ "value" \in Arena \ {"tokens"}
    BY DEF Arena
  <2>2. Leaves(m, m)
    BY DEF Leaves, Suits
  <2>3. Leaves(m, m1)
    BY <1>3, <2>1, <2>2, LeavesWritten
  <2>4. Leaves(m, m2)
    BY <1>4, <2>1, <2>3, LeavesWritten
  <2>5. Leaves(m, m3)
    BY <1>5, <2>1, <2>4, LeavesWritten
  <2>6. Leaves(m, m4)
    BY <1>6, <2>1, <2>5, LeavesWritten
  <2> QED BY <2>2, <2>3, <2>4, <2>5, <2>6
<1>8. Valid(m4[length], rows)
  <2>1. m4[<<"length", layer>>] = m[<<"length", layer>>]
    BY <1>7, LastingBuffers DEF Leaves
  <2> QED BY <2>1 DEF Suits, Looks, length, Own
<1>9. PICK m5 :
        /\ Written(m4, m5, Shared("rotatedQuery"), Rotated(m4[Shared("query")], m4[<<"length", layer>>]))
        /\ Written(m5, m6, Shared("rotatedKey"), Rotated(m5[Shared("key")], m5[<<"length", layer>>]))
  BY <1>8, RotationRuns
<1> HIDE DEF m6
<1>10. Projected(m, m6, layer)
  BY <1>3, <1>4, <1>5, <1>6, <1>9, ProjectedByTemplate
<1> QED BY <1>1, <1>10, DoesWhat

\* So does the candidate that fuses the norm with the projections.
LEMMA ProjectsNormQKV ==
  ASSUME layer \in Layers, NEW rows
  PROVE  Performs("project", NormQKVNode.steps, layer, rows)
<1> SUFFICES ASSUME NEW m, Suits("project", m, layer, rows)
             PROVE  Does("project", m, Execute(m, NormQKVNode.steps, rows), layer)
  BY DEF Performs
<1> DEFINE q == Shared("query")
           k == Shared("key")
           v == Shared("value")
           new == Step("norm qkv", <<current, Own("queryWeight"), Own("keyWeight"),
                                     Own("valueWeight"), Own("inputNorm")>>, <<q, k, v>>)
           x == NormedAt(m, m[Hidden(layer - 1)], layer)
           m1 == Stepped(m, new, rows)
           m2 == Stepped(m1, RoPE(q, Shared("rotatedQuery")), rows)
           m3 == Stepped(m2, RoPE(k, Shared("rotatedKey")), rows)
<1>1. Execute(m, NormQKVNode.steps, rows) = m3
  <2> DEFINE turnQ == RoPE(q, Shared("rotatedQuery"))
             turnK == RoPE(k, Shared("rotatedKey"))
  <2>1. NormQKVNode = Node("template", 3, <<new, turnQ, turnK>>)
    BY DEF NormQKVNode, Template
  <2> HIDE DEF new, turnQ, turnK
  <2> QED BY <2>1, NodeRuns DEF turnQ, turnK
<1>2. /\ q \in Buffers /\ k \in Buffers /\ v \in Buffers
      /\ Shared("rotatedQuery") \in Buffers /\ Shared("rotatedKey") \in Buffers
      /\ q \in Scratch /\ k \in Scratch /\ v \in Scratch
  BY SharedBuffers DEF Arena
<1>3. q # k /\ q # v /\ k # v
  BY DEF Shared
<1>4. WrittenThree(m, m1, q, Product(Norm(m[current], m[Own("inputNorm")]), m[Own("queryWeight")]),
                   k, Product(Norm(m[current], m[Own("inputNorm")]), m[Own("keyWeight")]),
                   v, Product(Norm(m[current], m[Own("inputNorm")]), m[Own("valueWeight")]))
  <2> HIDE DEF q, k, v
  <2> QED BY <1>2, <1>3, NormQKVStep
<1> HIDE DEF m1
<1>5. Norm(m[current], m[Own("inputNorm")]) = x
  BY DEF NormedAt, current, Own
<1>6. Leaves(m, m1)
  BY <1>2, <1>4 DEF Leaves, Lasting, WrittenThree
<1>7. /\ "rotatedQuery" \in Arena \ {"tokens"} /\ "rotatedKey" \in Arena \ {"tokens"}
      /\ length = <<"length", layer>>
  BY DEF Arena, length, Own
<1>8. m1[length] = m[length] /\ Valid(m[length], rows)
  BY <1>6, <1>7, LastingBuffers DEF Leaves, Suits, Looks
<1>9. Written(m1, m2, Shared("rotatedQuery"), Rotated(m1[q], m1[<<"length", layer>>]))
  BY <1>2, <1>7, <1>8, RoPEStep DEF RoPE
<1> HIDE DEF m2
<1>10. Leaves(m, m2)
  BY <1>6, <1>7, <1>9, LeavesWritten
<1>11. m2[length] = m[length]
  BY <1>7, <1>10, LastingBuffers DEF Leaves
<1>12. Written(m2, m3, Shared("rotatedKey"), Rotated(m2[k], m2[<<"length", layer>>]))
  BY <1>2, <1>7, <1>8, <1>11, RoPEStep DEF RoPE
<1> HIDE DEF m3, x
<1>13. /\ m1[q] = Product(x, m[<<"queryWeight", layer>>])
       /\ m1[k] = Product(x, m[<<"keyWeight", layer>>])
       /\ m1[v] = Product(x, m[<<"valueWeight", layer>>])
  BY <1>4, <1>5 DEF WrittenThree, Own
<1>14. Projected(m, m3, layer)
  BY <1>6, <1>9, <1>12, <1>13, ProjectedByRotation DEF x
<1> QED BY <1>1, <1>14, DoesWhat

\* So does the one that fuses the projections with the rotation.
LEMMA ProjectsQKVRoPE ==
  ASSUME layer \in Layers, NEW rows
  PROVE  Performs("project", QKVRoPENode.steps, layer, rows)
<1> SUFFICES ASSUME NEW m, Suits("project", m, layer, rows)
             PROVE  Does("project", m, Execute(m, QKVRoPENode.steps, rows), layer)
  BY DEF Performs
<1> DEFINE n == Shared("normalized")
           q == Shared("rotatedQuery")
           k == Shared("rotatedKey")
           v == Shared("value")
           x == NormedAt(m, m[Hidden(layer - 1)], layer)
           new == Step("qkv rope", <<n, Own("queryWeight"), Own("keyWeight"), Own("valueWeight"),
                                     length>>, <<q, k, v>>)
           m1 == Stepped(m, Step("norm", <<current, Own("inputNorm")>>, <<n>>), rows)
           m2 == Stepped(m1, new, rows)
<1>1. Execute(m, QKVRoPENode.steps, rows) = m2
  <2> DEFINE norm == Step("norm", <<current, Own("inputNorm")>>, <<n>>)
  <2>1. QKVRoPENode = Node("template", 2, <<norm, new>>)
    BY DEF QKVRoPENode, Template
  <2> HIDE DEF norm, new
  <2>2. Execute(m, QKVRoPENode.steps, rows) = Stepped(Stepped(m, norm, rows), new, rows)
    BY <2>1, NodeRuns
  <2> QED BY <2>2 DEF norm
<1>2. /\ n \in Buffers /\ q \in Buffers /\ k \in Buffers /\ v \in Buffers
      /\ q \in Scratch /\ k \in Scratch /\ v \in Scratch
  BY SharedBuffers DEF Arena
<1>3. q # k /\ q # v /\ k # v
  BY DEF Shared
<1>4. Written(m, m1, n, x)
  <2>1. Written(m, m1, n, Norm(m[current], m[Own("inputNorm")]))
    BY <1>2, NormStep
  <2> QED BY <2>1 DEF NormedAt, current, Own
<1> HIDE DEF m1
<1>5. "normalized" \in Arena \ {"tokens"} /\ length = <<"length", layer>>
  BY DEF Arena, length, Own
<1>6. Leaves(m, m1)
  BY <1>4, <1>5, LeavesWritten DEF Leaves, Suits
<1>7. /\ m1[Own("queryWeight")] = m[<<"queryWeight", layer>>]
      /\ m1[Own("keyWeight")] = m[<<"keyWeight", layer>>]
      /\ m1[Own("valueWeight")] = m[<<"valueWeight", layer>>]
      /\ m1[length] = m[<<"length", layer>>]
  BY <1>5, <1>6, LastingBuffers DEF Leaves, Own, Weights
<1>8. Valid(m1[length], rows)
  BY <1>7 DEF Suits, Looks
<1>9. WrittenThree(m1, m2, q, Rotated(Product(m1[n], m1[Own("queryWeight")]), m1[length]),
                   k, Rotated(Product(m1[n], m1[Own("keyWeight")]), m1[length]),
                   v, Product(m1[n], m1[Own("valueWeight")]))
  <2> HIDE DEF n, q, k, v
  <2> QED BY <1>2, <1>3, <1>8, QKVRoPEStep
<1> HIDE DEF m2, x
<1>10. m1[n] = x
  BY <1>4 DEF Written
<1>11. Leaves(m1, m2)
  BY <1>2, <1>9 DEF Leaves, Lasting, WrittenThree
<1>12. IsMemory(m2) /\ \A b \in Buffers \ Scratch : m2[b] = m[b]
  BY <1>6, <1>11 DEF Leaves, Lasting
<1>13. /\ m2[q] = TurnedAt(m, Product(x, m[<<"queryWeight", layer>>]), layer)
       /\ m2[k] = TurnedAt(m, Product(x, m[<<"keyWeight", layer>>]), layer)
       /\ m2[v] = Product(x, m[<<"valueWeight", layer>>])
  BY <1>7, <1>9, <1>10 DEF WrittenThree, TurnedAt
<1>14. Projected(m, m2, layer)
  BY <1>12, <1>13 DEF Projected, x
<1> QED BY <1>1, <1>14, DoesWhat

\* The two appends store the layer's key and value.
LEMMA StoresNode ==
  ASSUME layer \in Layers, NEW rows
  PROVE  Performs("store", AppendNode.steps, layer, rows)
<1> SUFFICES ASSUME NEW m, Suits("store", m, layer, rows)
             PROVE  Does("store", m, Execute(m, AppendNode.steps, rows), layer)
  BY DEF Performs
<1> DEFINE x == Shared("rotatedKey")
           y == Shared("value")
           k == <<"keys", layer>>
           v == <<"values", layer>>
           one == Step("append", <<x, length, table>>, <<k>>)
           two == Step("append", <<y, length, table>>, <<v>>)
           m1 == Stepped(m, one, rows)
           m2 == Stepped(m1, two, rows)
<1>1. Execute(m, AppendNode.steps, rows) = m2
  <2>1. AppendNode = Node("template", 2, <<one, two>>)
    BY DEF AppendNode, Template, Own
  <2> HIDE DEF one, two
  <2> QED BY <2>1, NodeRuns
<1>2. /\ x \in Buffers /\ y \in Buffers /\ k \in Buffers /\ v \in Buffers
      /\ length \in Buffers /\ table \in Buffers
      /\ length = <<"length", layer>> /\ table = <<"table", layer>>
  BY BuffersOfStage, SharedBuffers DEF length, table, Own, Arena
<1>3. /\ k # v /\ y # k /\ length # k /\ table # k
  BY DEF length, table, Own, Shared
<1>4. Reachable(m[length], m[table], rows)
  BY <1>2 DEF Suits, Looks, Reachable
<1>5. Written(m, m1, k, Appended(m[k], m[x], m[length], m[table]))
  <2> HIDE DEF x, k
  <2> QED BY <1>2, <1>4, AppendStep
<1> HIDE DEF m1
<1>6. m1[v] = m[v] /\ m1[y] = m[y] /\ m1[length] = m[length] /\ m1[table] = m[table]
  <2> HIDE DEF x, y, k, v
  <2> QED BY <1>2, <1>3, <1>5 DEF Written
<1>7. Written(m1, m2, v, Appended(m[v], m[y], m[length], m[table]))
  <2>1. Written(m1, m2, v, Appended(m1[v], m1[y], m1[length], m1[table]))
    <3> HIDE DEF y, v
    <3> QED BY <1>2, <1>4, <1>6, AppendStep
  <2> QED BY <1>6, <2>1
<1> HIDE DEF m2
<1>8. Stores(m, m2, layer)
  <2>1. /\ m2[k] = Appended(m[k], m[x], m[<<"length", layer>>], m[<<"table", layer>>])
        /\ m2[v] = Appended(m[v], m[y], m[<<"length", layer>>], m[<<"table", layer>>])
    <3> HIDE DEF x, y, k, v
    <3> QED BY <1>2, <1>3, <1>5, <1>7 DEF Written
  <2>2. IsMemory(m2) /\ \A b \in Buffers : b # k /\ b # v => m2[b] = m[b]
    <3> HIDE DEF x, y, k, v
    <3> QED BY <1>5, <1>7 DEF Written
  <2> QED BY <2>1, <2>2 DEF Stores, AppendedAt
<1> QED BY <1>1, <1>8, DoesWhat

\* Attention sees the caches.
LEMMA SeesNode ==
  ASSUME layer \in Layers, NEW rows
  PROVE  Performs("see", AttentionNode.steps, layer, rows)
<1> SUFFICES ASSUME NEW m, Suits("see", m, layer, rows)
             PROVE  Does("see", m, Execute(m, AttentionNode.steps, rows), layer)
  BY DEF Performs
<1> DEFINE new == Step("attention",
                       <<Shared("rotatedQuery"), Own("keys"), Own("values"), length, table>>,
                       <<Shared("context")>>)
           a == Stepped(m, new, rows)
<1>1. Execute(m, AttentionNode.steps, rows) = a
  <2>1. AttentionNode = Node("template", 1, <<new>>)
    BY DEF AttentionNode, Template
  <2> HIDE DEF new
  <2> QED BY <2>1, NodeRuns
<1>2. Shared("context") \in Buffers /\ "context" \in Arena \ {"tokens"}
  BY SharedBuffers DEF Arena
<1>3. Reachable(m[length], m[table], rows)
  BY DEF Suits, Looks, Reachable, length, table, Own
<1>4. Written(m, a, Shared("context"), ContextAt(m, layer))
  <2>1. Written(m, a, Shared("context"),
                Attended(m[Shared("rotatedQuery")], m[Own("keys")], m[Own("values")], m[length],
                         m[table]))
    BY <1>2, <1>3, AttentionStep
  <2> QED BY <2>1 DEF ContextAt, length, table, Own
<1> HIDE DEF a
<1>5. Leaves(m, a)
  BY <1>2, <1>4, LeavesWritten DEF Leaves, Suits
<1>6. Sees(m, a, layer)
  BY <1>4, <1>5 DEF Sees, Written
<1> QED BY <1>1, <1>6, DoesWhat

\* The projection of the context, by any maker.
LEMMA OutputsNode ==
  ASSUME layer \in Layers, NEW rows, NEW o
  PROVE  Performs("output", OutputNode(o).steps, layer, rows)
<1> SUFFICES ASSUME NEW m, Suits("output", m, layer, rows)
             PROVE  Does("output", m, Execute(m, OutputNode(o).steps, rows), layer)
  BY DEF Performs
<1> DEFINE a == Execute(m, OutputNode(o).steps, rows)
<1>1. Shared("attentionOutput") \in Buffers /\ "attentionOutput" \in Arena \ {"tokens"}
  BY SharedBuffers DEF Arena
<1>2. Written(m, a, Shared("attentionOutput"),
              Product(m[Shared("context")], m[<<"outputWeight", layer>>]))
  BY <1>1, LinearRuns DEF OutputNode, Own
<1> HIDE DEF a
<1>3. Leaves(m, a)
  BY <1>1, <1>2, LeavesWritten DEF Leaves, Suits
<1>4. Outs(m, a, layer)
  BY <1>2, <1>3 DEF Outs, Written
<1> QED BY <1>4, DoesWhat DEF a

\* The paged fusion does what attention and its projection do.
LEMMA AttendsNode ==
  ASSUME layer \in Layers, NEW rows
  PROVE  Performs("attend", AttentionOutputNode.steps, layer, rows)
<1> SUFFICES ASSUME NEW m, Suits("attend", m, layer, rows)
             PROVE  Does("attend", m, Execute(m, AttentionOutputNode.steps, rows), layer)
  BY DEF Performs
<1> DEFINE new == Step("attention output",
                       <<Shared("rotatedQuery"), Own("keys"), Own("values"), length, table,
                         Own("outputWeight")>>,
                       <<Shared("attentionOutput")>>)
           a == Stepped(m, new, rows)
<1>1. Execute(m, AttentionOutputNode.steps, rows) = a
  <2>1. AttentionOutputNode = Node("template", 1, <<new>>)
    BY DEF AttentionOutputNode, Template
  <2> HIDE DEF new
  <2> QED BY <2>1, NodeRuns
<1>2. Shared("attentionOutput") \in Buffers /\ "attentionOutput" \in Arena \ {"tokens"}
  BY SharedBuffers DEF Arena
<1>3. Reachable(m[length], m[table], rows)
  BY DEF Suits, Looks, Reachable, length, table, Own
<1>4. Written(m, a, Shared("attentionOutput"),
              Product(ContextAt(m, layer), m[<<"outputWeight", layer>>]))
  <2>1. Written(m, a, Shared("attentionOutput"),
                Product(Attended(m[Shared("rotatedQuery")], m[Own("keys")], m[Own("values")],
                                 m[length], m[table]), m[Own("outputWeight")]))
    BY <1>2, <1>3, AttentionOutputStep
  <2> QED BY <2>1 DEF ContextAt, length, table, Own
<1> HIDE DEF a
<1>5. Leaves(m, a)
  BY <1>2, <1>4, LeavesWritten DEF Leaves, Suits
<1>6. Attends(m, a, layer)
  BY <1>4, <1>5 DEF Attends, Written
<1> QED BY <1>1, <1>6, DoesWhat

\* A sum and its norm, whatever writes them.
LEMMA SumsOfTwo ==
  ASSUME NEW l \in Layers, NEW m, NEW a, NEW update, IsMemory(m),
         LET sum == Added(m[Hidden(l - 1)], update) IN
         WrittenTwo(m, a, Shared("afterAttention"), sum,
                    Shared("postAttentionNormalized"), Norm(sum, m[<<"postNorm", l>>]))
  PROVE  Sums(m, a, l, update)
<1>1. Shared("afterAttention") \in Scratch /\ Shared("postAttentionNormalized") \in Scratch
  BY SharedBuffers DEF Arena
<1>2. Leaves(m, a)
  BY <1>1 DEF Leaves, Lasting, WrittenTwo
<1> QED BY <1>2 DEF Sums, WrittenTwo

\* An addition and its norm, as two steps, sum.
LEMMA SumsOfSteps ==
  ASSUME NEW l \in Layers, NEW m, NEW a, NEW c, NEW update,
         IsMemory(m), Written(m, a, Shared("afterAttention"), Added(m[Hidden(l - 1)], update)),
         Written(a, c, Shared("postAttentionNormalized"),
                 Norm(a[Shared("afterAttention")], a[<<"postNorm", l>>]))
  PROVE  Sums(m, c, l, update)
<1>1. /\ "afterAttention" \in Arena \ {"tokens"} /\ Shared("afterAttention") \in Buffers
      /\ "postAttentionNormalized" \in Arena \ {"tokens"}
      /\ Shared("afterAttention") # Shared("postAttentionNormalized")
  BY SharedBuffers DEF Arena, Shared
<1>2. Leaves(m, a)
  BY <1>1, LeavesWritten DEF Leaves
<1>3. Leaves(m, c)
  BY <1>1, <1>2, LeavesWritten
<1>4. a[<<"postNorm", l>>] = m[<<"postNorm", l>>]
  BY <1>2, LastingBuffers DEF Leaves, Weights
<1>5. c[Shared("afterAttention")] = a[Shared("afterAttention")]
  BY <1>1 DEF Written
<1> QED BY <1>3, <1>4, <1>5 DEF Sums, Written

\* The residual sum by template, by a generated kernel and fused with the projection.
LEMMA ResidualNodes ==
  ASSUME layer \in Layers, NEW rows
  PROVE  /\ Performs("residual", ResidualNode.steps, layer, rows)
         /\ \A r : Performs("residual", FusedResidualNode(r).steps, layer, rows)
         /\ Performs("sum", OutputResidualNode.steps, layer, rows)
<1> DEFINE sum == Shared("afterAttention")
           normalized == Shared("postAttentionNormalized")
           update == Shared("attentionOutput")
           norm == Step("norm", <<sum, Own("postNorm")>>, <<normalized>>)
<1>1. /\ sum \in Buffers /\ normalized \in Buffers /\ sum # normalized
  BY SharedBuffers DEF Arena, Shared
<1>2. ASSUME NEW m, Suits("residual", m, layer, rows)
      PROVE  Does("residual", m, Execute(m, ResidualNode.steps, rows), layer)
  <2> DEFINE add == Step("add", <<current, update>>, <<sum>>)
             a == Stepped(m, add, rows)
             c == Stepped(a, norm, rows)
  <2>1. Execute(m, ResidualNode.steps, rows) = c
    <3>1. ResidualNode = Node("template", 2, <<add, norm>>)
      BY DEF ResidualNode, Template
    <3> HIDE DEF add, norm
    <3> QED BY <3>1, NodeRuns
  <2>2. Written(m, a, sum, Added(m[current], m[update]))
    <3> HIDE DEF sum, update
    <3> QED BY <1>1, AddStep
  <2> HIDE DEF a
  <2>3. Written(a, c, normalized, Norm(a[sum], a[Own("postNorm")]))
    <3> HIDE DEF sum, normalized
    <3> QED BY <1>1, NormStep
  <2> HIDE DEF c
  <2>4. Sums(m, c, layer, m[update])
    BY <1>2, <2>2, <2>3, SumsOfSteps DEF current, Own, Suits
  <2> QED BY <2>1, <2>4, DoesWhat
<1>3. ASSUME NEW r, NEW m, Suits("residual", m, layer, rows)
      PROVE  Does("residual", m, Execute(m, FusedResidualNode(r).steps, rows), layer)
  <2> DEFINE new == Step("residual norm", <<current, update, Own("postNorm")>>, <<sum, normalized>>)
             a == Stepped(m, new, rows)
  <2>1. Execute(m, FusedResidualNode(r).steps, rows) = a
    <3>1. FusedResidualNode(r) = Node(r, 1, <<new>>)
      BY DEF FusedResidualNode
    <3> HIDE DEF new
    <3> QED BY <3>1, NodeRuns
  <2>2. WrittenTwo(m, a, sum, Added(m[current], m[update]),
                   normalized, Norm(Added(m[current], m[update]), m[Own("postNorm")]))
    <3> HIDE DEF sum, normalized, update
    <3> QED BY <1>1, ResidualNormStep
  <2> HIDE DEF a
  <2>3. Sums(m, a, layer, m[update])
    BY <1>3, <2>2, SumsOfTwo DEF current, Own, Suits
  <2> QED BY <2>1, <2>3, DoesWhat
<1>4. ASSUME NEW m, Suits("sum", m, layer, rows)
      PROVE  Does("sum", m, Execute(m, OutputResidualNode.steps, rows), layer)
  <2> DEFINE x == Shared("context")
             linear == Step("linear residual", <<x, Own("outputWeight"), current>>, <<sum>>)
             a == Stepped(m, linear, rows)
             c == Stepped(a, norm, rows)
             product == Product(m[x], m[Own("outputWeight")])
  <2>1. Execute(m, OutputResidualNode.steps, rows) = c
    <3>1. OutputResidualNode = Node("template", 2, <<linear, norm>>)
      BY DEF OutputResidualNode, Template
    <3> HIDE DEF linear, norm
    <3> QED BY <3>1, NodeRuns
  <2>2. Written(m, a, sum, Added(m[current], product))
    <3> HIDE DEF sum, x
    <3> QED BY <1>1, LinearResidualStep
  <2> HIDE DEF a
  <2>3. Written(a, c, normalized, Norm(a[sum], a[Own("postNorm")]))
    <3> HIDE DEF sum, normalized
    <3> QED BY <1>1, NormStep
  <2> HIDE DEF c, product
  <2>4. Sums(m, c, layer, product)
    BY <1>4, <2>2, <2>3, SumsOfSteps DEF current, Own, Suits
  <2> QED BY <2>1, <2>4, DoesWhat DEF product, Own
<1> QED BY <1>2, <1>3, <1>4 DEF Performs

\* The gated product by template and by a generated kernel.
LEMMA MLPNodes ==
  ASSUME layer \in Layers, NEW rows
  PROVE  /\ Performs("gate", MLPNode.steps, layer, rows)
         /\ \A g : Performs("gate", FusedMLPNode(g).steps, layer, rows)
<1> DEFINE x == Shared("postAttentionNormalized")
           gated == Shared("gated")
           sum == Shared("afterAttention")
           gate == Own("gate")
           up == Own("up")
           wg == Own("gateWeight")
           wu == Own("upWeight")
<1>1. /\ x \in Buffers /\ gated \in Buffers /\ sum \in Buffers /\ gated \in Scratch
      /\ gate \in Buffers /\ up \in Buffers /\ gate \in Scratch /\ up \in Scratch
      /\ wg \in Lasting /\ wu \in Lasting /\ wg \in Buffers /\ wu \in Buffers
  BY SharedBuffers, BuffersOfStage, LastingBuffers DEF Arena, Own, Scratch, Weights
<1>2. /\ gate # up /\ x # gate /\ x # up /\ wu # gate /\ sum # gate /\ sum # up /\ sum # gated
  BY DEF Shared, Own
<1>3. ASSUME NEW m, Suits("gate", m, layer, rows)
      PROVE  Does("gate", m, Execute(m, MLPNode.steps, rows), layer)
  <2> DEFINE one == Step("linear", <<x, wg>>, <<gate>>)
             two == Step("linear", <<x, wu>>, <<up>>)
             three == Step("silu mul", <<gate, up>>, <<gated>>)
             a == Stepped(m, one, rows)
             b == Stepped(a, two, rows)
             c == Stepped(b, three, rows)
  <2>1. Execute(m, MLPNode.steps, rows) = c
    <3>1. MLPNode = Node("template", 3, <<one, two, three>>)
      BY DEF MLPNode, Template
    <3> HIDE DEF one, two, three
    <3> QED BY <3>1, NodeRuns
  <2>2. Written(m, a, gate, Product(m[x], m[wg]))
    <3> HIDE DEF x, wg, gate
    <3> QED BY <1>1, LinearStep
  <2> HIDE DEF a
  <2>3. Written(a, b, up, Product(a[x], a[wu]))
    <3> HIDE DEF x, wu, up
    <3> QED BY <1>1, LinearStep
  <2> HIDE DEF b
  <2>4. Written(b, c, gated, Gated(b[gate], b[up]))
    <3> HIDE DEF gate, up, gated
    <3> QED BY <1>1, SiLUMulStep
  <2> HIDE DEF c
  <2>5. /\ Leaves(m, c) /\ c[sum] = m[sum]
        /\ c[gated] = Gated(Product(m[x], m[wg]), Product(m[x], m[wu]))
    <3> HIDE DEF x, gated, sum, gate, up, wg, wu
    <3>1. /\ a[gate] = Product(m[x], m[wg]) /\ a[x] = m[x] /\ a[wu] = m[wu] /\ a[sum] = m[sum]
          /\ \A d \in Lasting : a[d] = m[d]
      BY <1>1, <1>2, <2>2 DEF Written, Lasting
    <3>2. /\ b[gate] = a[gate] /\ b[up] = Product(a[x], a[wu]) /\ b[sum] = a[sum]
          /\ \A d \in Lasting : b[d] = a[d]
      BY <1>1, <1>2, <2>3 DEF Written, Lasting
    <3>3. /\ c[gated] = Gated(b[gate], b[up]) /\ c[sum] = b[sum] /\ IsMemory(c)
          /\ \A d \in Lasting : c[d] = b[d]
      BY <1>1, <1>2, <2>4 DEF Written, Lasting
    <3> QED BY <3>1, <3>2, <3>3 DEF Leaves
  <2>6. Gates(m, c, layer)
    BY <2>5 DEF Gates, Own
  <2> QED BY <2>1, <2>6, DoesWhat
<1>4. ASSUME NEW g, NEW m, Suits("gate", m, layer, rows)
      PROVE  Does("gate", m, Execute(m, FusedMLPNode(g).steps, rows), layer)
  <2> DEFINE new == Step("gated mlp", <<x, wg, wu>>, <<gated>>)
             a == Stepped(m, new, rows)
  <2>1. Execute(m, FusedMLPNode(g).steps, rows) = a
    <3>1. FusedMLPNode(g) = Node(g, 1, <<new>>)
      BY DEF FusedMLPNode
    <3> HIDE DEF new
    <3> QED BY <3>1, NodeRuns
  <2>2. Written(m, a, gated, Gated(Product(m[x], m[wg]), Product(m[x], m[wu])))
    <3> HIDE DEF x, wg, wu, gated
    <3> QED BY <1>1, GatedMLPStep
  <2> HIDE DEF a
  <2>3. Leaves(m, a) /\ a[sum] = m[sum]
    <3> HIDE DEF x, gated, sum, gate, up, wg, wu
    <3> QED BY <1>1, <1>2, <2>2 DEF Written, Leaves, Lasting
  <2>4. Gates(m, a, layer)
    BY <2>2, <2>3 DEF Gates, Own, Written
  <2> QED BY <2>1, <2>4, DoesWhat
<1> QED BY <1>3, <1>4 DEF Performs

\* The down projection and its addition, apart and fused.
LEMMA FeedsNodes ==
  ASSUME layer \in Layers, NEW rows
  PROVE  /\ \A d \in Makers : Performs("feed", DownNode(d).steps \o AddNode.steps, layer, rows)
         /\ Performs("feed", DownResidualNode.steps, layer, rows)
<1> DEFINE x == Shared("gated")
           sum == Shared("afterAttention")
           update == Shared("mlpOutput")
           w == <<"downWeight", layer>>
<1>1. /\ x \in Buffers /\ sum \in Buffers /\ update \in Buffers /\ update \in Scratch
      /\ w \in Lasting /\ layerOutput \in Buffers /\ sum # update /\ w = Own("downWeight")
      /\ layerOutput = Hidden(layer)
  BY SharedBuffers, BufferIsTyped, LastingBuffers DEF Arena, Shared, Weights, Own, layerOutput
<1>2. ASSUME NEW d \in Makers, NEW m, Suits("feed", m, layer, rows)
      PROVE  Does("feed", m, Execute(m, DownNode(d).steps \o AddNode.steps, rows), layer)
  <2> DEFINE a == Execute(m, DownNode(d).steps, rows)
             c == Execute(a, AddNode.steps, rows)
  <2>1. Execute(m, DownNode(d).steps \o AddNode.steps, rows) = c
    <3>1. IsNode(DownNode(d)) /\ IsNode(AddNode)
      BY NodesAreTyped
    <3>2. DownNode(d).steps \in Seq(Entries) /\ AddNode.steps \in Seq(Entries)
      BY <3>1, NodeIsTyped
    <3> QED BY <3>2, ExecuteConcat
  <2>2. Written(m, a, update, Product(m[x], m[w]))
    BY <1>1, LinearRuns DEF DownNode
  <2> HIDE DEF a
  <2>3. Written(a, c, layerOutput, Added(a[sum], a[update]))
    <3> DEFINE add == Step("add", <<sum, update>>, <<layerOutput>>)
    <3>1. AddNode = Node("template", 1, <<add>>)
      BY DEF AddNode, Template
    <3>2. c = Stepped(a, add, rows)
      <4> HIDE DEF add
      <4> QED BY <3>1, NodeRuns
    <3> HIDE DEF sum, update
    <3> QED BY <1>1, <3>2, AddStep
  <2> HIDE DEF c
  <2>4. Feeds(m, c, layer)
    <3> HIDE DEF x, sum, update, w
    <3>1. a[sum] = m[sum] /\ a[update] = Product(m[x], m[w]) /\ \A b \in Lasting : a[b] = m[b]
      BY <1>1, <2>2 DEF Written, Lasting
    <3>2. /\ IsMemory(c) /\ c[Hidden(layer)] = Added(m[sum], Product(m[x], m[w]))
          /\ \A b \in Lasting : b # Hidden(layer) => c[b] = m[b]
      BY <1>1, <2>3, <3>1 DEF Written, Lasting
    <3> QED BY <3>2 DEF Feeds, x, sum, w
  <2> QED BY <2>1, <2>4, DoesWhat
<1>3. ASSUME NEW m, Suits("feed", m, layer, rows)
      PROVE  Does("feed", m, Execute(m, DownResidualNode.steps, rows), layer)
  <2> DEFINE new == Step("linear residual", <<x, w, sum>>, <<layerOutput>>)
             a == Stepped(m, new, rows)
  <2>1. Execute(m, DownResidualNode.steps, rows) = a
    <3>1. DownResidualNode = Node("template", 1, <<new>>)
      BY DEF DownResidualNode, Template, Own
    <3> HIDE DEF new
    <3> QED BY <3>1, NodeRuns
  <2>2. Written(m, a, layerOutput, Added(m[sum], Product(m[x], m[w])))
    <3> HIDE DEF x, w, sum
    <3> QED BY <1>1, LinearResidualStep
  <2> HIDE DEF a
  <2>3. Feeds(m, a, layer)
    BY <1>1, <2>2 DEF Feeds, Written, Lasting
  <2> QED BY <2>1, <2>3, DoesWhat
<1> QED BY <1>2, <1>3 DEF Performs

\* The embedding makes the first layer ready.
LEMMA EmbeddingReaches ==
  ASSUME layer \in Layers, NEW rows, NEW paged
  PROVE  Reaches("ready", EmbeddingNode.steps, 1, rows, paged)
<1> SUFFICES ASSUME NEW n \in rows .. Capacity
             PROVE  Holds("ready", StagedAt(n, paged),
                          Execute(StagedAt(n, paged), EmbeddingNode.steps, rows), 1)
  BY DEF Reaches
<1> DEFINE m == StagedAt(n, paged)
           new == Step("embedding", <<Shared("tokens"), Shared("embedding")>>, <<Hidden(0)>>)
           a == Stepped(m, new, rows)
<1>1. Execute(m, EmbeddingNode.steps, rows) = a
  <2>1. EmbeddingNode = Node("template", 1, <<new>>)
    BY DEF EmbeddingNode, Template
  <2> HIDE DEF new
  <2> QED BY <2>1, NodeRuns
<1>2. Hidden(0) \in Buffers
  BY BuffersOfStage
<1>3. Written(m, a, Hidden(0), Embedding(m[<<"tokens", 0>>], m[<<"embedding", 0>>]))
  <2> HIDE DEF m
  <2>1. Written(m, a, Hidden(0), Embedding(m[Shared("tokens")], m[Shared("embedding")]))
    BY <1>2, EmbeddingStep
  <2> QED BY <2>1 DEF Shared
<1> HIDE DEF m, a
<1>4. \A b \in Buffers : b # Hidden(0) => a[b] = m[b]
  BY <1>3 DEF Written
<1>5. Carried(m, a, 0)
  <2>1. \A x, k : x # "hidden" => <<x, k>> # Hidden(0)
    BY DEF Hidden
  <2>2. \A x \in Weights \union {"length", "table", "keys", "values"}, l \in Layers :
          x # "hidden" /\ <<x, l>> \in Buffers
    BY BuffersOfStage DEF Weights
  <2>3. \A x \in {"finalNorm", "languageModelHead"} : x # "hidden" /\ <<x, 0>> \in Buffers
    BY BuffersOfStage
  <2>4. \A x \in Weights \union {"length", "table", "keys", "values"}, l \in Layers :
          a[<<x, l>>] = m[<<x, l>>]
    <3> SUFFICES ASSUME NEW x \in Weights \union {"length", "table", "keys", "values"},
                        NEW l \in Layers
                 PROVE  a[<<x, l>>] = m[<<x, l>>]
      OBVIOUS
    <3>1. <<x, l>> \in Buffers /\ <<x, l>> # Hidden(0)
      BY <2>1, <2>2
    <3> QED BY <1>4, <3>1
  <2>5. \A x \in {"finalNorm", "languageModelHead"} : a[<<x, 0>>] = m[<<x, 0>>]
    BY <1>4, <2>1, <2>3
  <2>6. \A l \in Layers : ~(l <= 0)
    BY DecoderStageAssumption DEF Layers
  <2>7. IsMemory(a)
    BY <1>3 DEF Written
  <2> QED BY <2>4, <2>5, <2>6, <2>7 DEF Carried, Untouched
<1>6. a[Hidden(0)] = PromisedHidden(m)[0]
  BY <1>3, HiddenAreLayers DEF Written
<1>7. Finished(m, a, 1 - 1)
  BY <1>5, <1>6 DEF Finished
<1>8. Holds("ready", m, a, 1)
  BY <1>7, HoldsWhere
<1> QED BY <1>1, <1>8 DEF m

\* What a sequence makes of memory m.
Answers(m, a) ==
  /\ a[Shared("nextTokens")] = Largest(PromisedLogits(m))
  /\ \A l \in Layers : /\ a[<<"keys", l>>] = PromisedKeys(m, InputAt(m, l), l)
                       /\ a[<<"values", l>>] = PromisedValues(m, InputAt(m, l), l)

\* The head's two sequences over the finished layers: one leaves the logits too.
LEMMA HeadAnswers ==
  ASSUME NEW m, NEW a, NEW rows, NEW h, Finished(m, a, LayerCount), NEW b,
         b = Execute(a, FinalNormNode.steps, rows)
  PROVE  /\ LET c == Execute(Execute(b, HeadNode(h).steps, rows), ArgmaxNode.steps, rows) IN
            Answers(m, c) /\ c[Shared("logits")] = PromisedLogits(m)
         /\ Answers(m, Execute(b, TokenNode.steps, rows))
<1> DEFINE n == Shared("normalized")
           w == Shared("languageModelHead")
           logits == Shared("logits")
           next == Shared("nextTokens")
           values == Shared("partialValues")
           tokens == Shared("partialTokens")
<1>1. /\ n \in Buffers /\ logits \in Buffers /\ next \in Buffers /\ values \in Buffers
      /\ tokens \in Buffers
      /\ logits \in Scratch /\ values \in Scratch /\ tokens \in Scratch /\ next \in Scratch
      /\ logits # next /\ values # tokens
      /\ w \in Lasting /\ w = <<"languageModelHead", 0>>
  BY SharedBuffers, LastingBuffers DEF Arena, Shared
<1>2. Carried(m, a, LayerCount) /\ a[Hidden(LayerCount)] = PromisedHidden(m)[LayerCount]
  BY DEF Finished
<1>3. Written(a, b, n, Norm(PromisedHidden(m)[LayerCount], m[<<"finalNorm", 0>>]))
  <2> DEFINE new == Step("norm", <<Hidden(LayerCount), Shared("finalNorm")>>, <<n>>)
  <2>1. b = Stepped(a, new, rows)
    <3>1. FinalNormNode = Node("template", 1, <<new>>)
      BY DEF FinalNormNode, Template
    <3> HIDE DEF new
    <3> QED BY <3>1, NodeRuns
  <2>2. Written(a, b, n, Norm(a[Hidden(LayerCount)], a[Shared("finalNorm")]))
    <3> HIDE DEF n
    <3> QED BY <1>1, <2>1, NormStep
  <2>3. a[Shared("finalNorm")] = m[<<"finalNorm", 0>>]
    BY <1>2 DEF Carried, Untouched, Shared
  <2> QED BY <1>2, <2>2, <2>3
<1>4. Leaves(a, b)
  BY <1>2, <1>3, LeavesWritten DEF Leaves, Carried, Arena
<1>5. Carried(m, b, LayerCount) /\ Product(b[n], b[w]) = PromisedLogits(m)
  <2>1. Carried(m, b, LayerCount)
    BY <1>2, <1>4, LeavesCarried
  <2>2. b[w] = m[<<"languageModelHead", 0>>]
    BY <1>1, <2>1 DEF Carried, Untouched
  <2> QED BY <1>3, <2>1, <2>2 DEF PromisedLogits, Written
<1>6. ASSUME NEW c, Leaves(b, c), c[next] = Largest(PromisedLogits(m))
      PROVE  Answers(m, c)
  <2>1. Carried(m, c, LayerCount)
    BY <1>5, <1>6, LeavesCarried
  <2>2. \A l \in Layers : l <= LayerCount
    BY DecoderStageAssumption DEF Layers
  <2> QED BY <1>6, <2>1, <2>2 DEF Carried, Answers
<1>7. LET c == Execute(Execute(b, HeadNode(h).steps, rows), ArgmaxNode.steps, rows) IN
      Answers(m, c) /\ c[logits] = PromisedLogits(m)
  <2> DEFINE d == Execute(b, HeadNode(h).steps, rows)
             c == Execute(d, ArgmaxNode.steps, rows)
             new == Step("argmax", <<logits>>, <<next>>)
  <2>1. Written(b, d, logits, Product(b[n], b[w]))
    BY <1>1, LinearRuns DEF HeadNode
  <2> HIDE DEF d
  <2>2. Written(d, c, next, Largest(d[logits]))
    <3>1. ArgmaxNode = Node("template", 1, <<new>>)
      BY DEF ArgmaxNode, Template
    <3>2. c = Stepped(d, new, rows)
      <4> HIDE DEF new
      <4> QED BY <3>1, NodeRuns
    <3> HIDE DEF c, logits, next
    <3> QED BY <1>1, <3>2, ArgmaxStep
  <2> HIDE DEF c, logits, next, n, w
  <2>3. d[logits] = PromisedLogits(m)
    BY <1>5, <2>1 DEF Written
  <2>4. c[logits] = d[logits] /\ c[next] = Largest(PromisedLogits(m))
    BY <1>1, <2>2, <2>3 DEF Written
  <2>5. Leaves(b, c)
    BY <1>1, <2>1, <2>2 DEF Written, Leaves, Lasting
  <2>6. Answers(m, c) /\ c[logits] = PromisedLogits(m)
    BY <1>6, <2>3, <2>4, <2>5
  <2> QED BY <2>6 DEF c, d
<1>8. Answers(m, Execute(b, TokenNode.steps, rows))
  <2> DEFINE one == Step("partial argmax", <<n, w>>, <<values, tokens>>)
             two == Step("final argmax", <<values, tokens>>, <<next>>)
             d == Stepped(b, one, rows)
             c == Stepped(d, two, rows)
  <2>1. Execute(b, TokenNode.steps, rows) = c
    <3>1. TokenNode = Node("template", 2, <<one, two>>)
      BY DEF TokenNode, Template
    <3> HIDE DEF one, two
    <3> QED BY <3>1, NodeRuns
  <2>2. WrittenTwo(b, d, values, <<"values", Product(b[n], b[w])>>,
                   tokens, <<"tokens", Product(b[n], b[w])>>)
    <3> HIDE DEF n, w, values, tokens
    <3> QED BY <1>1, PartialArgmaxStep
  <2> HIDE DEF d
  <2>3. d[values] = <<"values", PromisedLogits(m)>> /\ d[tokens] = <<"tokens", PromisedLogits(m)>>
    BY <1>5, <2>2 DEF WrittenTwo
  <2>4. Written(d, c, next, Largest(PromisedLogits(m)))
    <3> HIDE DEF values, tokens, next
    <3> QED BY <1>1, <2>3, FinalArgmaxStep
  <2> HIDE DEF c, values, tokens, next
  <2>5. Leaves(b, c)
    BY <1>1, <2>2, <2>4 DEF Written, WrittenTwo, Leaves, Lasting
  <2>6. Answers(m, c)
    BY <1>6, <2>4, <2>5 DEF Written
  <2> QED BY <2>1, <2>6
<1> QED BY <1>7, <1>8

----------------------------------------------------------------------------
(* Where the steps have come in every place of buildStage. *)

At(where) == Reaches(where, steps, layer, Rows, options.paged)
Cutting(region, where, what) ==
  Cuts(where, what, steps, marks[region].steps, layer, Rows, options.paged)

IsCache(cache) == cache = [length |-> cache.length, table |-> cache.table]

\* Both sequences of a built stage answer every call, the first one with the logits.
BothAnswer ==
  \A n \in Rows .. Capacity :
    LET m == StagedAt(n, options.paged)
        a == Execute(m, built.sequence, Rows)
    IN  /\ Answers(m, a) /\ a[Shared("logits")] = PromisedLogits(m)
        /\ Answers(m, Execute(m, built.tokenSequence, Rows))

Along ==
  /\ pc = "embedding" => steps = <<>> /\ layer = 1
  /\ pc = "project" => At("ready")
  /\ pc \in {"rmsnorm_qkv", "qkv_rope"} => Cutting("qkv", "ready", "project")
  /\ pc = "attend" => At("turned")
  /\ pc = "paged_attention_output_projection" =>
       Cutting("attention", "cached", "attend") /\ Cutting("output", "seen", "output")
  /\ pc = "residual" => At("attended") /\ (MayFuseOutput => Cutting("output", "seen", "output"))
  /\ pc = "output_projection_residual" => Cutting("output", "seen", "sum")
  /\ pc = "mlp" => At("summed")
  /\ pc = "down" => At("gated")
  /\ pc = "down_projection_residual" => Cutting("down", "gated", "feed")
  /\ pc = "head" => At("done") /\ layer = LayerCount
  /\ pc = "built" => BothAnswer /\ steps = <<>>

\* What the tests of the fusions that look at the cache state count on.
ReadyToTest ==
  /\ IsCache(device) /\ IsCache(previous)
  /\ pc \in {"rmsnorm_qkv", "qkv_rope", "paged_attention_output_projection"} =>
       device.length = Length(Rows)
  /\ pc = "paged_attention_output_projection" => device.table = SomePages

StageInv == AuditInv /\ Along /\ ReadyToTest

\* What the audit says of the types of the steps, the layer and the marks.
LEMMA StepsAreEntries ==
  ASSUME AuditInv
  PROVE  /\ steps \in Seq(Entries) /\ layer \in Layers
         /\ \A region \in Regions : Open(region) => marks[region].steps \in 0 .. Len(steps)
BY DEF AuditInv, Typed, Tracks, MarkIn

LEMMA PlaceStays ==
  ASSUME UNCHANGED <<options, lengths, stage>>
  PROVE  Rows' = Rows /\ options' = options
BY DEF Rows

\* Each step of buildStage leads from its place to the next one.
LEMMA EmbedGoes ==
  ASSUME StageInv, Embed PROVE Along'
<1>1. /\ pc = "embedding" /\ pc' = "project" /\ layer' = layer
      /\ UNCHANGED <<options, lengths, stage>>
  BY DEF Embed, Fixed
<1>2. Rows' = Rows /\ options' = options
  BY <1>1, PlaceStays
<1>3. layer = 1 /\ layer \in Layers /\ steps = <<>>
  BY <1>1 DEF StageInv, Along, AuditInv, Typed
<1>4. steps' = EmbeddingNode.steps
  <2>1. EmbeddingNode.steps \in Seq(Entries)
    BY <1>3, NodesAreTyped, NodeIsTyped
  <2>2. Push(<<EmbeddingNode>>)
    BY <1>3, NodesPushed
  <2>3. steps' = steps \o EmbeddingNode.steps
    BY <2>2, StepsOfOne DEF Push
  <2> HIDE DEF EmbeddingNode
  <2> QED BY <1>3, <2>1, <2>3
<1>5. Reaches("ready", EmbeddingNode.steps, 1, Rows, options.paged)
  BY <1>3, EmbeddingReaches
<1>6. At("ready")'
  BY <1>1, <1>2, <1>3, <1>4, <1>5 DEF At
<1> QED BY <1>1, <1>6 DEF Along

LEMMA ProjectGoes ==
  ASSUME StageInv, Project PROVE Along'
<1>1. /\ pc = "project" /\ layer' = layer /\ marks' = [marks EXCEPT !.qkv = Begin]
      /\ pc' \in {"rmsnorm_qkv", "attend"}
      /\ UNCHANGED <<options, lengths, stage>>
  BY DEF Project, Fixed
<1>2. Rows' = Rows /\ options' = options
  BY <1>1, PlaceStays
<1>3. layer \in Layers /\ steps \in Seq(Entries)
  BY StepsAreEntries DEF StageInv
<1>4. PICK q \in Makers, k \in Makers, v \in Makers, r \in Makers :
        Push(<<NormNode, ProjectionNode(q, "queryWeight", "query"),
               ProjectionNode(k, "keyWeight", "key"),
               ProjectionNode(v, "valueWeight", "value"), RotationNode(r)>>)
  BY <1>3, NodesPushed
<1> DEFINE Q == ProjectionNode(q, "queryWeight", "query")
           K == ProjectionNode(k, "keyWeight", "key")
           V == ProjectionNode(v, "valueWeight", "value")
           t == FiveSteps(NormNode, Q, K, V, RotationNode(r))
<1>5. IsNode(NormNode) /\ IsNode(Q) /\ IsNode(K) /\ IsNode(V) /\ IsNode(RotationNode(r))
  BY <1>3, NodesAreTyped
<1>6. Performs("project", t, layer, Rows)
  BY <1>3, ProjectsNodes
<1>7. Push(<<NormNode, Q, K, V, RotationNode(r)>>)
  BY <1>4
<1> HIDE DEF Q, K, V
<1>8. t \in Seq(Entries)
  BY <1>5, ExecuteFive
<1>9. steps' = steps \o t
  BY <1>5, <1>7, StepsOfFive DEF Push
<1> HIDE DEF t
<1>10. Reaches("ready", steps, layer, Rows, options.paged)
  BY <1>1 DEF StageInv, Along, At
<1>11. Reaches("turned", steps \o t, layer, Rows, options.paged)
  <2>1. <<"ready", "project", "turned">> \in Leads
    BY DEF Leads
  <2> QED BY <1>3, <1>6, <1>8, <1>10, <2>1, Onward
<1>12. Cuts("ready", "project", steps \o t, Len(steps), layer, Rows, options.paged)
  BY <1>3, <1>6, <1>8, <1>10, CutsAt
<1>13. marks'["qkv"].steps = Len(steps)
  BY <1>1 DEF StageInv, AuditInv, Typed, Regions, Begin
<1>14. At("turned")' /\ Cutting("qkv", "ready", "project")'
  BY <1>1, <1>2, <1>9, <1>11, <1>12, <1>13 DEF At, Cutting
<1> QED BY <1>1, <1>14 DEF Along

\* What a fusion makes of its region does what the region did.
LEMMA FusionCuts ==
  ASSUME StageInv, NEW pattern, NEW region \in Regions, NEW where, NEW what,
         Open(region), Fusion(pattern).begin = marks[region],
         IsNode(Fusion(pattern).candidate),
         Performs(what, Fusion(pattern).candidate.steps, layer, Rows),
         Cutting(region, where, what), Kept \/ Replace(pattern)
  PROVE  /\ Cuts(where, what, steps', marks[region].steps, layer, Rows, options.paged)
         /\ \A there : <<where, what, there>> \in Leads =>
              Reaches(there, steps', layer, Rows, options.paged)
<1> DEFINE k == marks[region].steps
           t == Fusion(pattern).candidate.steps
<1>1. steps \in Seq(Entries) /\ layer \in Layers /\ k \in 0 .. Len(steps)
  BY StepsAreEntries DEF StageInv
<1>2. t \in Seq(Entries)
  BY NodeIsTyped
<1>3. Cuts(where, what, steps, k, layer, Rows, options.paged)
  BY DEF Cutting
<1>4. CASE Kept
  <2>1. steps' = steps
    BY <1>4 DEF Kept
  <2>2. \A there : <<where, what, there>> \in Leads =>
          Reaches(there, steps, layer, Rows, options.paged)
    BY <1>1, <1>3, CutsLead
  <2> QED BY <1>3, <2>1, <2>2
<1>5. CASE Replace(pattern)
  <2>1. steps' = Upto(steps, k) \o t
    BY <1>5 DEF Replace, Upto
  <2> HIDE DEF k, t
  <2>2. Cuts(where, what, Upto(steps, k) \o t, k, layer, Rows, options.paged)
    BY <1>1, <1>2, <1>3, CutsReplaced DEF t
  <2> DEFINE s == Upto(steps, k) \o t
  <2>3. s \in Seq(Entries) /\ k \in 0 .. Len(s)
    <3>1. Upto(steps, k) \in Seq(Entries) /\ Len(Upto(steps, k)) = k
      BY <1>1, Cut
    <3>2. s \in Seq(Entries) /\ Len(s) = Len(Upto(steps, k)) + Len(t) /\ Len(t) \in Nat
      BY <1>2, <3>1, EntriesTyped
    <3> HIDE DEF s
    <3> QED BY <1>1, <3>1, <3>2
  <2>4. Cuts(where, what, s, k, layer, Rows, options.paged) /\ steps' = s
    BY <2>1, <2>2
  <2> HIDE DEF s
  <2>5. \A there : <<where, what, there>> \in Leads =>
          Reaches(there, s, layer, Rows, options.paged)
    BY <1>1, <2>3, <2>4, CutsLead
  <2> QED BY <2>4, <2>5 DEF k
<1> QED BY <1>4, <1>5

\* After the first fusion of the projections the region is still one for the second.
LEMMA FuseNormQKVGoes ==
  ASSUME StageInv, FuseNormQKV PROVE Along'
<1>1. /\ pc = "rmsnorm_qkv" /\ pc' = "qkv_rope" /\ layer' = layer /\ marks' = marks
      /\ UNCHANGED <<options, lengths, stage>>
      /\ Kept \/ Replace("rmsnorm_qkv")
  BY DEF FuseNormQKV, Fixed, Filtered, admitFusion
<1>2. Rows' = Rows /\ options' = options
  BY <1>1, PlaceStays
<1>3. layer \in Layers /\ Open("qkv") /\ "qkv" \in Regions
  BY <1>1, StepsAreEntries, OpenIs DEF StageInv
<1>4. /\ Fusion("rmsnorm_qkv").begin = marks["qkv"]
      /\ Fusion("rmsnorm_qkv").candidate = NormQKVNode
      /\ IsNode(NormQKVNode) /\ Performs("project", NormQKVNode.steps, layer, Rows)
  BY <1>3, FusionsOfStage, CandidatesAreTyped, ProjectsNormQKV
<1>5. Cutting("qkv", "ready", "project")
  BY <1>1 DEF StageInv, Along
<1>6. Cuts("ready", "project", steps', marks["qkv"].steps, layer, Rows, options.paged)
  BY <1>1, <1>3, <1>4, <1>5, FusionCuts
<1>7. Cutting("qkv", "ready", "project")'
  BY <1>1, <1>2, <1>6 DEF Cutting
<1> QED BY <1>1, <1>7 DEF Along

LEMMA FuseQKVRoPEGoes ==
  ASSUME StageInv, FuseQKVRoPE PROVE Along'
<1>1. /\ pc = "qkv_rope" /\ pc' = "attend" /\ layer' = layer /\ marks' = marks
      /\ UNCHANGED <<options, lengths, stage>>
      /\ Kept \/ Replace("qkv_rope")
  BY DEF FuseQKVRoPE, Fixed, admitFusion
<1>2. Rows' = Rows /\ options' = options
  BY <1>1, PlaceStays
<1>3. layer \in Layers /\ Open("qkv") /\ "qkv" \in Regions
  BY <1>1, StepsAreEntries, OpenIs DEF StageInv
<1>4. /\ Fusion("qkv_rope").begin = marks["qkv"]
      /\ Fusion("qkv_rope").candidate = QKVRoPENode
      /\ IsNode(QKVRoPENode) /\ Performs("project", QKVRoPENode.steps, layer, Rows)
  BY <1>3, FusionsOfStage, CandidatesAreTyped, ProjectsQKVRoPE
<1>5. Cutting("qkv", "ready", "project") /\ <<"ready", "project", "turned">> \in Leads
  BY <1>1 DEF StageInv, Along, Leads
<1>6. Reaches("turned", steps', layer, Rows, options.paged)
  BY <1>1, <1>3, <1>4, <1>5, FusionCuts
<1>7. At("turned")'
  BY <1>1, <1>2, <1>6 DEF At
<1> QED BY <1>1, <1>7 DEF Along

LEMMA AttendGoes ==
  ASSUME StageInv, Attend PROVE Along'
<1>1. /\ pc = "attend" /\ layer' = layer
      /\ marks' = [marks EXCEPT !.attention = [steps |-> Begin.steps + 2, uses |-> Begin.uses + 1],
                                !.output = [steps |-> Begin.steps + 3, uses |-> Begin.uses + 2]]
      /\ pc' \in {"paged_attention_output_projection", "residual"}
      /\ pagedAttentionOutputAdmitted' = FALSE
      /\ UNCHANGED <<options, lengths, stage>>
  BY DEF Attend, Fixed
<1>2. Rows' = Rows /\ options' = options
  BY <1>1, PlaceStays
<1>3. layer \in Layers /\ steps \in Seq(Entries)
  BY StepsAreEntries DEF StageInv
<1>4. PICK o \in Makers : Push(<<AppendNode, AttentionNode, OutputNode(o)>>)
  BY <1>3, NodesPushed
<1> DEFINE a == AppendNode
           b == AttentionNode
           c == OutputNode(o)
           s1 == steps \o a.steps
           s2 == s1 \o b.steps
<1>5. /\ IsNode(a) /\ IsNode(b) /\ IsNode(c)
      /\ Performs("store", a.steps, layer, Rows) /\ Performs("see", b.steps, layer, Rows)
      /\ Performs("output", c.steps, layer, Rows)
      /\ Len(a.steps) = 2 /\ Len(b.steps) = 1
  BY <1>3, NodesAreTyped, StoresNode, SeesNode, OutputsNode, NodeLengths
<1>6. Push(<<a, b, c>>)
  BY <1>4
<1> HIDE DEF a, b, c
<1>7. steps' = steps \o ThreeSteps(a, b, c)
  BY <1>5, <1>6, StepsOfThree DEF Push
<1>8. a.steps \in Seq(Entries) /\ b.steps \in Seq(Entries) /\ c.steps \in Seq(Entries)
  BY <1>5, NodeIsTyped
<1>9. Len(s1) = Len(steps) + 2 /\ Len(s2) = Len(steps) + 3
  <2>1. s1 \in Seq(Entries) /\ Len(s1) = Len(steps) + Len(a.steps)
    BY <1>3, <1>8, EntriesTyped
  <2> HIDE DEF s1
  <2>2. Len(s2) = Len(s1) + Len(b.steps)
    BY <1>8, <2>1, EntriesTyped
  <2>3. Len(steps) \in Nat
    BY <1>3
  <2> HIDE DEF s2
  <2> QED BY <1>5, <2>1, <2>2, <2>3
<1>10. /\ s1 \in Seq(Entries) /\ s2 \in Seq(Entries)
       /\ steps' = s1 \o (b.steps \o c.steps) /\ steps' = s2 \o c.steps
  <2>1. Splits(steps, a, b, c, s1, s2)
    BY <1>3, <1>5, ThreeSplit
  <2> HIDE DEF s1, s2
  <2> QED BY <1>7, <2>1 DEF Splits
<1>11. Reaches("turned", steps, layer, Rows, options.paged)
  BY <1>1 DEF StageInv, Along, At
<1>12. Reaches("cached", s1, layer, Rows, options.paged)
  <2>1. <<"turned", "store", "cached">> \in Leads
    BY DEF Leads
  <2> QED BY <1>3, <1>5, <1>8, <1>11, <2>1, Onward
<1> HIDE DEF s1
<1>13. Reaches("seen", s2, layer, Rows, options.paged)
  <2>1. <<"cached", "see", "seen">> \in Leads
    BY DEF Leads
  <2> QED BY <1>3, <1>5, <1>8, <1>10, <1>12, <2>1, Onward
<1> HIDE DEF s2
<1>14. Reaches("attended", steps', layer, Rows, options.paged)
  <2>1. <<"seen", "output", "attended">> \in Leads
    BY DEF Leads
  <2>2. Reaches("attended", s2 \o c.steps, layer, Rows, options.paged)
    BY <1>3, <1>5, <1>8, <1>10, <1>13, <2>1, Onward
  <2> QED BY <1>10, <2>2
<1>15. Cuts("cached", "attend", steps', Len(s1), layer, Rows, options.paged)
  <2> DEFINE t == b.steps \o c.steps
  <2>1. t \in Seq(Entries) /\ Performs("attend", t, layer, Rows)
    BY <1>3, <1>5, <1>8, EntriesTyped, Together
  <2> HIDE DEF t
  <2>2. Cuts("cached", "attend", s1 \o t, Len(s1), layer, Rows, options.paged)
    BY <1>10, <1>12, <2>1, CutsAt
  <2> QED BY <1>10, <2>2 DEF t
<1>16. Cuts("seen", "output", steps', Len(s2), layer, Rows, options.paged)
  <2>1. Cuts("seen", "output", s2 \o c.steps, Len(s2), layer, Rows, options.paged)
    BY <1>5, <1>8, <1>10, <1>13, CutsAt
  <2> QED BY <1>10, <2>1
<1>17. marks'["attention"].steps = Len(s1) /\ marks'["output"].steps = Len(s2)
  BY <1>1, <1>9 DEF StageInv, AuditInv, Typed, Regions, Begin
<1>18. /\ At("attended")' /\ Cutting("attention", "cached", "attend")'
       /\ Cutting("output", "seen", "output")'
  BY <1>1, <1>2, <1>14, <1>15, <1>16, <1>17 DEF At, Cutting
<1> QED BY <1>1, <1>18 DEF Along

\* Where the paged fusion was admitted there is no context, and no output region.
LEMMA FusePagedAttentionGoes ==
  ASSUME StageInv, FusePagedAttention PROVE Along'
<1>1. /\ pc = "paged_attention_output_projection" /\ pc' = "residual"
      /\ layer' = layer /\ marks' = marks
      /\ UNCHANGED <<options, lengths, stage>>
      /\ Kept \/ Replace("paged_attention_output_projection")
  BY DEF FusePagedAttention, Fixed
<1>2. Rows' = Rows /\ options' = options
  BY <1>1, PlaceStays
<1>3. layer \in Layers /\ Open("attention") /\ "attention" \in Regions
  BY <1>1, StepsAreEntries, OpenIs DEF StageInv
<1>4. /\ Fusion("paged_attention_output_projection").begin = marks["attention"]
      /\ Fusion("paged_attention_output_projection").candidate = AttentionOutputNode
      /\ IsNode(AttentionOutputNode) /\ Performs("attend", AttentionOutputNode.steps, layer, Rows)
  BY <1>3, FusionsOfStage, CandidatesAreTyped, AttendsNode
<1>5. Cutting("attention", "cached", "attend") /\ <<"cached", "attend", "attended">> \in Leads
  BY <1>1 DEF StageInv, Along, Leads
<1>6. Reaches("attended", steps', layer, Rows, options.paged)
  BY <1>1, <1>3, <1>4, <1>5, FusionCuts
<1>7. At("attended")'
  BY <1>1, <1>2, <1>6 DEF At
<1>8. ASSUME MayFuseOutput' PROVE Cutting("output", "seen", "output")'
  <2>1. steps' = steps
    BY <1>8 DEF FusePagedAttention, MayFuseOutput, Kept
  <2>2. Cutting("output", "seen", "output")
    BY <1>1 DEF StageInv, Along
  <2> QED BY <1>1, <1>2, <2>1, <2>2 DEF Cutting
<1> QED BY <1>1, <1>7, <1>8 DEF Along

LEMMA ResidualGoes ==
  ASSUME StageInv, Residual PROVE Along'
<1>1. /\ pc = "residual" /\ layer' = layer /\ marks' = marks
      /\ pc' = IF MayFuseOutput THEN "output_projection_residual" ELSE "mlp"
      /\ UNCHANGED <<options, lengths, stage>>
  BY DEF Residual, Fixed
<1>2. Rows' = Rows /\ options' = options
  BY <1>1, PlaceStays
<1>3. layer \in Layers /\ steps \in Seq(Entries)
  BY StepsAreEntries DEF StageInv
<1>4. PICK t \in Seq(Entries) : steps' = steps \o t /\ Performs("residual", t, layer, Rows)
  <2>1. Push(<<ResidualNode>>) \/ \E r \in Makers : Push(<<FusedResidualNode(r)>>)
    BY <1>3, NodesPushed
  <2>2. PICK node : /\ IsNode(node) /\ Push(<<node>>)
                    /\ Performs("residual", node.steps, layer, Rows)
    <3>1. IsNode(ResidualNode) /\ Performs("residual", ResidualNode.steps, layer, Rows)
      BY <1>3, NodesAreTyped, ResidualNodes
    <3>2. \A r \in Makers : /\ IsNode(FusedResidualNode(r))
                            /\ Performs("residual", FusedResidualNode(r).steps, layer, Rows)
      BY <1>3, NodesAreTyped, ResidualNodes
    <3> QED BY <2>1, <3>1, <3>2
  <2>3. steps' = steps \o node.steps /\ node.steps \in Seq(Entries)
    BY <2>2, StepsOfOne, NodeIsTyped DEF Push
  <2> QED BY <2>2, <2>3
<1>5. CASE MayFuseOutput
  <2>1. Cuts("seen", "output", steps, marks["output"].steps, layer, Rows, options.paged)
    BY <1>1, <1>5 DEF StageInv, Along, Cutting
  <2>2. marks["output"].steps \in 0 .. Len(steps)
    BY <1>1, <1>5, StepsAreEntries, OpenIs DEF StageInv
  <2>3. Cuts("seen", "sum", steps \o t, marks["output"].steps, layer, Rows, options.paged)
    BY <1>3, <1>4, <2>1, <2>2, CutsGrow
  <2>4. Cutting("output", "seen", "sum")'
    BY <1>1, <1>2, <1>4, <2>3 DEF Cutting
  <2> QED BY <1>1, <1>5, <2>4 DEF Along
<1>6. CASE ~MayFuseOutput
  <2>1. Reaches("attended", steps, layer, Rows, options.paged)
        /\ <<"attended", "residual", "summed">> \in Leads
    BY <1>1 DEF StageInv, Along, At, Leads
  <2>2. Reaches("summed", steps \o t, layer, Rows, options.paged)
    BY <1>3, <1>4, <2>1, Onward
  <2>3. At("summed")'
    BY <1>1, <1>2, <1>4, <2>2 DEF At
  <2> QED BY <1>1, <1>6, <2>3 DEF Along
<1> QED BY <1>5, <1>6

LEMMA FuseOutputProjectionGoes ==
  ASSUME StageInv, FuseOutputProjection PROVE Along'
<1>1. /\ pc = "output_projection_residual" /\ pc' = "mlp" /\ layer' = layer /\ marks' = marks
      /\ UNCHANGED <<options, lengths, stage>>
      /\ Kept \/ Replace("output_projection_residual")
  BY DEF FuseOutputProjection, Fixed, admitFusion
<1>2. Rows' = Rows /\ options' = options
  BY <1>1, PlaceStays
<1>3. layer \in Layers /\ Open("output") /\ "output" \in Regions
  BY <1>1, StepsAreEntries, OpenIs DEF StageInv
<1>4. /\ Fusion("output_projection_residual").begin = marks["output"]
      /\ Fusion("output_projection_residual").candidate = OutputResidualNode
      /\ IsNode(OutputResidualNode) /\ Performs("sum", OutputResidualNode.steps, layer, Rows)
  BY <1>3, FusionsOfStage, CandidatesAreTyped, ResidualNodes
<1>5. Cutting("output", "seen", "sum") /\ <<"seen", "sum", "summed">> \in Leads
  BY <1>1 DEF StageInv, Along, Leads
<1>6. Reaches("summed", steps', layer, Rows, options.paged)
  BY <1>1, <1>3, <1>4, <1>5, FusionCuts
<1>7. At("summed")'
  BY <1>1, <1>2, <1>6 DEF At
<1> QED BY <1>1, <1>7 DEF Along

LEMMA MLPGoes ==
  ASSUME StageInv, MLP PROVE Along'
<1>1. /\ pc = "mlp" /\ pc' = "down" /\ layer' = layer
      /\ UNCHANGED <<options, lengths, stage>>
  BY DEF MLP, Fixed
<1>2. Rows' = Rows /\ options' = options
  BY <1>1, PlaceStays
<1>3. layer \in Layers /\ steps \in Seq(Entries)
  BY StepsAreEntries DEF StageInv
<1>4. PICK t \in Seq(Entries) : steps' = steps \o t /\ Performs("gate", t, layer, Rows)
  <2>1. Push(<<MLPNode>>) \/ \E g \in Makers : Push(<<FusedMLPNode(g)>>)
    BY <1>3, NodesPushed
  <2>2. PICK node : /\ IsNode(node) /\ Push(<<node>>)
                    /\ Performs("gate", node.steps, layer, Rows)
    <3>1. IsNode(MLPNode) /\ Performs("gate", MLPNode.steps, layer, Rows)
      BY <1>3, NodesAreTyped, MLPNodes
    <3>2. \A g \in Makers : /\ IsNode(FusedMLPNode(g))
                            /\ Performs("gate", FusedMLPNode(g).steps, layer, Rows)
      BY <1>3, NodesAreTyped, MLPNodes
    <3> QED BY <2>1, <3>1, <3>2
  <2>3. steps' = steps \o node.steps /\ node.steps \in Seq(Entries)
    BY <2>2, StepsOfOne, NodeIsTyped DEF Push
  <2> QED BY <2>2, <2>3
<1>5. Reaches("summed", steps, layer, Rows, options.paged)
      /\ <<"summed", "gate", "gated">> \in Leads
  BY <1>1 DEF StageInv, Along, At, Leads
<1>6. Reaches("gated", steps \o t, layer, Rows, options.paged)
  BY <1>3, <1>4, <1>5, Onward
<1>7. At("gated")'
  BY <1>1, <1>2, <1>4, <1>6 DEF At
<1> QED BY <1>1, <1>7 DEF Along

\* The next layer is ready, or the last one is done.
LEMMA NextLayerGoes ==
  ASSUME layer \in Layers, NextLayer, UNCHANGED <<options, lengths, stage>>,
         Reaches("done", steps', layer, Rows, options.paged)
  PROVE  Along'
<1>1. Rows' = Rows /\ options' = options
  BY PlaceStays
<1>2. CASE layer < LayerCount
  <2>1. layer' = layer + 1 /\ pc' = "project" /\ layer \in Nat
    BY <1>2, DecoderStageAssumption DEF NextLayer, Layers
  <2>2. Reaches("ready", steps', layer + 1, Rows, options.paged)
    BY <2>1, NextReady
  <2>3. At("ready")'
    BY <1>1, <2>1, <2>2 DEF At
  <2> QED BY <2>1, <2>3 DEF Along
<1>3. CASE ~(layer < LayerCount)
  <2>1. layer' = layer /\ pc' = "head" /\ layer = LayerCount
    BY <1>3, DecoderStageAssumption DEF NextLayer, Layers
  <2>2. At("done")' /\ layer' = LayerCount
    BY <1>1, <2>1 DEF At
  <2> QED BY <2>1, <2>2 DEF Along
<1> QED BY <1>2, <1>3

LEMMA DownGoes ==
  ASSUME StageInv, Down PROVE Along'
<1>1. /\ pc = "down" /\ marks' = [marks EXCEPT !.down = Begin]
      /\ UNCHANGED <<options, lengths, stage>>
  BY DEF Down, Fixed
<1>2. Rows' = Rows /\ options' = options
  BY <1>1, PlaceStays
<1>3. layer \in Layers /\ steps \in Seq(Entries)
  BY StepsAreEntries DEF StageInv
<1>4. PICK d \in Makers : Push(<<DownNode(d), AddNode>>)
  BY <1>3, NodesPushed
<1> DEFINE t == DownNode(d).steps \o AddNode.steps
<1>5. IsNode(DownNode(d)) /\ IsNode(AddNode)
  BY <1>3, NodesAreTyped
<1>6. t \in Seq(Entries) /\ Performs("feed", t, layer, Rows)
  <2>1. DownNode(d).steps \in Seq(Entries) /\ AddNode.steps \in Seq(Entries)
    BY <1>5, NodeIsTyped
  <2> QED BY <1>3, <2>1, EntriesTyped, FeedsNodes
<1>7. steps' = steps \o t
  BY <1>4, <1>5, StepsOfTwo DEF Push
<1> HIDE DEF t
<1>8. Reaches("gated", steps, layer, Rows, options.paged) /\ <<"gated", "feed", "done">> \in Leads
  BY <1>1 DEF StageInv, Along, At, Leads
<1>9. CASE options.fusion
  <2>1. pc' = "down_projection_residual" /\ layer' = layer
    BY <1>9 DEF Down
  <2>2. Cuts("gated", "feed", steps \o t, Len(steps), layer, Rows, options.paged)
    BY <1>3, <1>6, <1>8, CutsAt
  <2>3. marks'["down"].steps = Len(steps)
    BY <1>1 DEF StageInv, AuditInv, Typed, Regions, Begin
  <2>4. Cutting("down", "gated", "feed")'
    BY <1>2, <1>7, <2>1, <2>2, <2>3 DEF Cutting
  <2> QED BY <2>1, <2>4 DEF Along
<1>10. CASE ~options.fusion
  <2>1. NextLayer
    BY <1>10 DEF Down
  <2>2. Reaches("done", steps \o t, layer, Rows, options.paged)
    BY <1>3, <1>6, <1>8, Onward
  <2> QED BY <1>1, <1>3, <1>7, <2>1, <2>2, NextLayerGoes
<1> QED BY <1>9, <1>10

LEMMA FuseDownProjectionGoes ==
  ASSUME StageInv, FuseDownProjection PROVE Along'
<1>1. /\ pc = "down_projection_residual" /\ NextLayer
      /\ UNCHANGED <<options, lengths, stage>>
      /\ Kept \/ Replace("down_projection_residual")
  BY DEF FuseDownProjection, Fixed, admitFusion
<1>2. layer \in Layers /\ Open("down") /\ "down" \in Regions
  BY <1>1, StepsAreEntries, OpenIs DEF StageInv
<1>3. /\ Fusion("down_projection_residual").begin = marks["down"]
      /\ Fusion("down_projection_residual").candidate = DownResidualNode
      /\ IsNode(DownResidualNode) /\ Performs("feed", DownResidualNode.steps, layer, Rows)
  BY <1>2, FusionsOfStage, CandidatesAreTyped, FeedsNodes
<1>4. Cutting("down", "gated", "feed") /\ <<"gated", "feed", "done">> \in Leads
  BY <1>1 DEF StageInv, Along, Leads
<1>5. Reaches("done", steps', layer, Rows, options.paged)
  BY <1>1, <1>2, <1>3, <1>4, FusionCuts
<1> QED BY <1>1, <1>2, <1>5, NextLayerGoes

\* Both sequences of the built stage answer.
LEMMA LanguageModelHeadGoes ==
  ASSUME StageInv, LanguageModelHead PROVE Along'
<1>1. pc = "head" /\ pc' = "built" /\ UNCHANGED <<options, lengths, stage>>
  BY DEF LanguageModelHead, Fixed
<1>2. Rows' = Rows /\ options' = options
  BY <1>1, PlaceStays
<1>3. layer \in Layers /\ steps \in Seq(Entries)
  BY StepsAreEntries DEF StageInv
<1>4. PICK h \in Makers : HeadBuilds(h)
  BY HeadBuilt
<1> DEFINE f == FinalNormNode.steps
           x == HeadNode(h).steps
           y == ArgmaxNode.steps
           z == TokenNode.steps
<1>5. /\ f \in Seq(Entries) /\ x \in Seq(Entries) /\ y \in Seq(Entries) /\ z \in Seq(Entries)
      /\ StepsOf(<<HeadNode(h), ArgmaxNode>>) = x \o y /\ StepsOf(<<TokenNode>>) = z
  <2>1. IsNode(FinalNormNode) /\ IsNode(HeadNode(h)) /\ IsNode(ArgmaxNode) /\ IsNode(TokenNode)
    BY <1>3, NodesAreTyped
  <2> QED BY <2>1, NodeIsTyped, StepsOfOne, StepsOfTwo
<1>6. built'.sequence = (steps \o f) \o (x \o y) /\ built'.tokenSequence = (steps \o f) \o z
  BY <1>4, <1>5 DEF HeadBuilds, Trunk
<1>7. Reaches("done", steps, LayerCount, Rows, options.paged)
  BY <1>1 DEF StageInv, Along, At
<1>8. ASSUME NEW n \in Rows .. Capacity
      PROVE  LET m == StagedAt(n, options.paged)
                 c == Execute(m, built'.sequence, Rows)
             IN  /\ Answers(m, c) /\ c[Shared("logits")] = PromisedLogits(m)
                 /\ Answers(m, Execute(m, built'.tokenSequence, Rows))
  <2> DEFINE m == StagedAt(n, options.paged)
             a == Execute(m, steps, Rows)
             b == Execute(a, f, Rows)
             d == Execute(b, x, Rows)
             c == Execute(d, y, Rows)
             e == Execute(b, z, Rows)
  <2>1. Finished(m, a, LayerCount)
    BY <1>7, HoldsWhere DEF Reaches
  <2> HIDE DEF m
  <2>2. steps \o f \in Seq(Entries) /\ Execute(m, steps \o f, Rows) = b
    <3> HIDE DEF f
    <3> QED BY <1>3, <1>5, EntriesTyped, ExecuteConcat
  <2> DEFINE trunk == steps \o f
  <2> HIDE DEF trunk
  <2>3. trunk \in Seq(Entries) /\ Execute(m, trunk, Rows) = b
    BY <2>2 DEF trunk
  <2>4. Answers(m, c) /\ c[Shared("logits")] = PromisedLogits(m) /\ Answers(m, e)
    <3> HIDE DEF a
    <3> QED BY <2>1, HeadAnswers
  <2> HIDE DEF a, f
  <2>5. Execute(m, trunk \o (x \o y), Rows) = c
    <3>1. x \o y \in Seq(Entries) /\ Execute(b, x \o y, Rows) = c
      <4> HIDE DEF b, x, y
      <4> QED BY <1>5, EntriesTyped, ExecuteConcat
    <3> DEFINE t == x \o y
    <3> HIDE DEF t, b, c, x, y
    <3>2. t \in Seq(Entries) /\ Execute(b, t, Rows) = c
      BY <3>1 DEF t
    <3>3. Execute(m, trunk \o t, Rows) = c
      BY <2>3, <3>2, ExecuteConcat
    <3> QED BY <3>3 DEF t
  <2>6. Execute(m, trunk \o z, Rows) = e
    <3> HIDE DEF b, z
    <3> QED BY <1>5, <2>3, ExecuteConcat
  <2> HIDE DEF b, c, d, e, x, y, z
  <2>7. Execute(m, built'.sequence, Rows) = c /\ Execute(m, built'.tokenSequence, Rows) = e
    BY <1>6, <2>5, <2>6 DEF trunk
  <2> QED BY <2>4, <2>7 DEF m
<1>9. BothAnswer'
  BY <1>2, <1>8 DEF BothAnswer
<1>10. steps' = <<>>
  BY DEF LanguageModelHead
<1> QED BY <1>1, <1>9, <1>10 DEF Along

LEMMA NextStageGoes ==
  ASSUME StageInv, NextStage PROVE Along'
<1>1. pc = "built" /\ pc' = "embedding" /\ layer' = 1 /\ steps' = steps
  BY DEF NextStage
<1>2. steps = <<>>
  BY <1>1 DEF StageInv, Along
<1> QED BY <1>1, <1>2 DEF Along

LEMMA FailGoes ==
  ASSUME Fail PROVE Along'
<1>1. pc' = "failed"
  BY DEF Fail
<1> QED BY <1>1 DEF Along

LEMMA StutteringGoes ==
  ASSUME StageInv, UNCHANGED vars PROVE Along'
BY DEF vars, StageInv, Along, At, Cutting, MayFuseOutput, BothAnswer, Rows

\* Nothing is tested at first.
LEMMA ReadyBegins ==
  ASSUME Init PROVE ReadyToTest
<1>1. IsCache(EmptyCache)
  BY DEF IsCache, EmptyCache
<1> QED BY <1>1 DEF Init, ReadyToTest

\* Before the tests that look at the cache state a length, and for the one of
\* the attention a table, is staged; afterwards what was there is restored.
LEMMA ReadyStays ==
  ASSUME StageInv, [Next]_vars PROVE ReadyToTest'
<1>1. IsCache(device) /\ IsCache(previous)
  BY DEF StageInv, ReadyToTest
<1>2. IsCache(ForTest) /\ ForTest.length = Length(Rows)
  BY <1>1 DEF IsCache, ForTest
<1>3. CASE Embed
  BY <1>1, <1>3 DEF Embed, ReadyToTest
<1>4. CASE Project
  <2>1. previous' = device /\ device' \in {device, ForTest} /\ Rows' = Rows
        /\ \/ pc' = "rmsnorm_qkv" /\ device' = ForTest
           \/ pc' = "attend"
    BY <1>4 DEF Project, Fixed, Rows
  <2> QED BY <1>1, <1>2, <2>1 DEF ReadyToTest, IsCache
<1>5. CASE FuseNormQKV
  <2>1. pc = "rmsnorm_qkv" /\ pc' = "qkv_rope" /\ UNCHANGED <<device, previous>> /\ Rows' = Rows
    BY <1>5 DEF FuseNormQKV, Fixed, Rows
  <2> QED BY <2>1 DEF StageInv, ReadyToTest, IsCache
<1>6. CASE FuseQKVRoPE
  BY <1>1, <1>6 DEF FuseQKVRoPE, ReadyToTest, IsCache
<1>7. CASE Attend
  <2> DEFINE d == [ForTest EXCEPT !.table = SomePages]
  <2>1. IsCache(d) /\ d.length = Length(Rows) /\ d.table = SomePages
    BY <1>2 DEF IsCache
  <2>2. previous' = device /\ device' \in {device, d} /\ Rows' = Rows
        /\ \/ pc' = "paged_attention_output_projection" /\ device' = d
           \/ pc' = "residual"
    BY <1>7 DEF Attend, Fixed, Rows
  <2> HIDE DEF d
  <2> QED BY <1>1, <2>1, <2>2 DEF ReadyToTest, IsCache
<1>8. CASE FusePagedAttention
  BY <1>1, <1>8 DEF FusePagedAttention, ReadyToTest, IsCache
<1>9. CASE Residual
  BY <1>1, <1>9 DEF Residual, ReadyToTest, IsCache
<1>10. CASE FuseOutputProjection
  BY <1>1, <1>10 DEF FuseOutputProjection, ReadyToTest, IsCache
<1>11. CASE MLP
  BY <1>1, <1>11 DEF MLP, ReadyToTest, IsCache
<1>12. CASE Down
  BY <1>1, <1>12 DEF Down, NextLayer, ReadyToTest, IsCache
<1>13. CASE FuseDownProjection
  BY <1>1, <1>13 DEF FuseDownProjection, NextLayer, ReadyToTest, IsCache
<1>14. CASE LanguageModelHead
  BY <1>1, <1>14 DEF LanguageModelHead, ReadyToTest, IsCache
<1>15. CASE NextStage
  BY <1>1, <1>15 DEF NextStage, ReadyToTest, IsCache
<1>16. CASE Fail
  BY <1>1, <1>16 DEF Fail, ReadyToTest, IsCache
<1>17. CASE UNCHANGED vars
  BY <1>17 DEF vars, StageInv, ReadyToTest, IsCache, Rows
<1> QED BY <1>3, <1>4, <1>5, <1>6, <1>7, <1>8, <1>9, <1>10, <1>11, <1>12, <1>13, <1>14, <1>15,
           <1>16, <1>17 DEF Next

\* StageInv is inductive.
LEMMA StageBegins ==
  ASSUME Init PROVE StageInv
<1>1. pc = "embedding" /\ steps = <<>> /\ layer = 1
  BY DEF Init
<1>2. Along
  BY <1>1 DEF Along
<1> QED BY <1>2, AuditBegins, ReadyBegins DEF StageInv

LEMMA StageStays ==
  ASSUME StageInv, [Next]_vars PROVE StageInv'
<1>1. AuditInv
  BY DEF StageInv
<1>2. AuditInv'
  BY <1>1, EmbedAudits, ProjectAudits, FuseNormQKVAudits, FuseQKVRoPEAudits, AttendAudits,
     FusePagedAttentionAudits, ResidualAudits, FuseOutputProjectionAudits, MLPAudits, DownAudits,
     FuseDownProjectionAudits, LanguageModelHeadAudits, NextStageAudits, FailAudits,
     StutteringAudits
  DEF Next
<1>3. Along'
  BY EmbedGoes, ProjectGoes, FuseNormQKVGoes, FuseQKVRoPEGoes, AttendGoes, FusePagedAttentionGoes,
     ResidualGoes, FuseOutputProjectionGoes, MLPGoes, DownGoes, FuseDownProjectionGoes,
     LanguageModelHeadGoes, NextStageGoes, FailGoes, StutteringGoes
  DEF Next
<1>4. ReadyToTest'
  BY ReadyStays
<1> QED BY <1>2, <1>3, <1>4 DEF StageInv

\* Whichever kernels were generated and whichever fusions a test admitted, what
\* a built stage's sequences make of its tokens is what the decoder promises.
THEOREM StagesCompute == Spec => []ComputesDecoder
<1>1. StageInv => ComputesDecoder
  <2> SUFFICES ASSUME StageInv, pc = "built", NEW n \in Rows .. Capacity
               PROVE  LET promised == Promised(Staged(n))
                          Computes(sequence) ==
                            LET after == Execute(Staged(n), sequence, Rows) IN
                            /\ after[Shared("nextTokens")] = promised.nextTokens
                            /\ \A l \in Layers : /\ after[<<"keys", l>>] = promised.keys[l]
                                                 /\ after[<<"values", l>>] = promised.values[l]
                      IN  /\ Computes(built.sequence)
                          /\ Computes(built.tokenSequence)
                          /\ Execute(Staged(n), built.sequence, Rows)[Shared("logits")]
                               = promised.logits
    BY DEF ComputesDecoder
  <2> DEFINE m == Staged(n)
             promised == Promised(m)
  <2>1. m = StagedAt(n, options.paged)
    BY DEF Staged, StagedAt
  <2>2. /\ Answers(m, Execute(m, built.sequence, Rows))
        /\ Execute(m, built.sequence, Rows)[Shared("logits")] = PromisedLogits(m)
        /\ Answers(m, Execute(m, built.tokenSequence, Rows))
    BY <2>1 DEF StageInv, Along, BothAnswer
  <2> HIDE DEF m
  <2>3. /\ promised.logits = PromisedLogits(m)
        /\ promised.nextTokens = Largest(PromisedLogits(m))
        /\ \A l \in Layers : /\ promised.keys[l] = PromisedKeys(m, InputAt(m, l), l)
                             /\ promised.values[l] = PromisedValues(m, InputAt(m, l), l)
    BY DEF Promised, InputAt
  <2> HIDE DEF promised
  <2> QED BY <2>2, <2>3 DEF Answers, m, promised
<1> QED BY <1>1, StageBegins, StageStays, PTL DEF Spec

----------------------------------------------------------------------------
(* What a test compares. *)

\* A test sees the length and the table that are staged.
LEMMA TestMemoryFacts ==
  ASSUME layer \in Layers, NEW marker, NEW inputs, length \notin inputs, table \notin inputs
  PROVE  /\ IsMemory(TestMemory(marker, inputs))
         /\ TestMemory(marker, inputs)[length] = device.length
         /\ TestMemory(marker, inputs)[table] = device.table
<1> DEFINE m == WithCache(Junk(marker), device)
<1>1. TestMemory(marker, inputs) = [b \in Buffers |-> IF b \in inputs THEN <<"test data">> ELSE m[b]]
  BY DEF TestMemory, WithInputs
<1>2. length \in Buffers /\ table \in Buffers
  BY BuffersOfStage DEF length, table, Own
<1>3. m[length] = device.length /\ m[table] = device.table
  <2>1. "length" # "table" /\ "length" \notin Weights /\ "table" \notin Weights
    BY DEF Weights
  <2>2. length[1] = "length" /\ table[1] = "table"
    BY DEF length, table, Own
  <2> QED BY <1>2, <2>1, <2>2 DEF WithCache
<1> HIDE DEF m
<1> QED BY <1>1, <1>2, <1>3, Zenon DEF IsMemory

\* The test data and what is kept from call to call are the same whatever was
\* there before.
LEMMA SameTestData ==
  ASSUME NEW inputs, NEW b \in Buffers,
         b \in inputs \/ b[1] \in Weights \union {"keys", "values", "length", "table"}
  PROVE  TestMemory(1, inputs)[b] = TestMemory(2, inputs)[b]
<1> DEFINE m(marker) == WithCache(Junk(marker), device)
<1>1. \A marker : TestMemory(marker, inputs)[b] = IF b \in inputs THEN <<"test data">> ELSE m(marker)[b]
  BY DEF TestMemory, WithInputs
<1>2. CASE b \in inputs
  BY <1>1, <1>2, Zenon
<1>3. CASE b[1] \in Weights \union {"keys", "values", "length", "table"}
  <2>1. m(1)[b] = m(2)[b]
    BY <1>3 DEF WithCache
  <2> HIDE DEF m
  <2> QED BY <1>1, <2>1, Zenon
<1> QED BY <1>2, <1>3

\* What each test writes and compares, and what its region is for.
Tests ==
  {<<"project", {current}, {Shared("rotatedQuery"), Shared("rotatedKey"), Shared("value")}>>,
   <<"attend", {Shared("rotatedQuery"), Own("keys"), Own("values")}, {Shared("attentionOutput")}>>,
   <<"sum", {Shared("context"), current},
     {Shared("afterAttention"), Shared("postAttentionNormalized")}>>,
   <<"feed", {Shared("gated"), Shared("afterAttention")}, {layerOutput}>>}

\* A region that does what it is for leaves the same in the outputs.
LEMMA TestTells ==
  ASSUME layer \in Layers, NEW what, NEW inputs, NEW outputs, <<what, inputs, outputs>> \in Tests,
         NEW a, NEW c, Does(what, TestMemory(1, inputs), a, layer),
         Does(what, TestMemory(2, inputs), c, layer)
  PROVE  Contents(a, outputs) = Contents(c, outputs)
<1> DEFINE m == TestMemory(1, inputs)
           n == TestMemory(2, inputs)
<1>1. /\ \A x \in Weights \union {"keys", "values", "length", "table"} : m[Own(x)] = n[Own(x)]
      /\ \A b \in inputs : b \in Buffers => m[b] = n[b]
  <2>1. \A x \in Weights \union {"keys", "values", "length", "table"} :
          Own(x) \in Buffers /\ Own(x)[1] = x
    BY BuffersOfStage DEF Own
  <2> QED BY <2>1, SameTestData
<1> HIDE DEF m, n
<1>2. /\ current \in Buffers /\ Shared("rotatedQuery") \in Buffers /\ Shared("context") \in Buffers
      /\ Shared("gated") \in Buffers /\ Shared("afterAttention") \in Buffers
  BY BufferIsTyped DEF Arena
<1>3. \A x : Own(x) = <<x, layer>>
  BY DEF Own
<1>4. \A x \in Weights \union {"keys", "values", "length", "table"} : m[<<x, layer>>] = n[<<x, layer>>]
  BY <1>1, <1>3
<1>5. CASE what = "project" /\ inputs = {current}
           /\ outputs = {Shared("rotatedQuery"), Shared("rotatedKey"), Shared("value")}
  <2>1. m[Hidden(layer - 1)] = n[Hidden(layer - 1)]
    BY <1>1, <1>2, <1>5 DEF current
  <2>2. Projected(m, a, layer) /\ Projected(n, c, layer)
    BY <1>5, DoesWhat DEF m, n
  <2> DEFINE x == NormedAt(m, m[Hidden(layer - 1)], layer)
  <2>3. NormedAt(n, n[Hidden(layer - 1)], layer) = x
    BY <1>4, <2>1 DEF NormedAt, Weights
  <2>4. /\ m[<<"queryWeight", layer>>] = n[<<"queryWeight", layer>>]
        /\ m[<<"keyWeight", layer>>] = n[<<"keyWeight", layer>>]
        /\ m[<<"valueWeight", layer>>] = n[<<"valueWeight", layer>>]
        /\ m[<<"length", layer>>] = n[<<"length", layer>>]
    BY <1>4 DEF Weights
  <2>5. a[Shared("rotatedQuery")] = c[Shared("rotatedQuery")]
    BY <2>2, <2>3, <2>4 DEF Projected, TurnedAt
  <2>6. a[Shared("rotatedKey")] = c[Shared("rotatedKey")]
    BY <2>2, <2>3, <2>4 DEF Projected, TurnedAt
  <2>7. a[Shared("value")] = c[Shared("value")]
    BY <2>2, <2>3, <2>4 DEF Projected
  <2> QED BY <1>5, <2>5, <2>6, <2>7 DEF Contents
<1>6. CASE what = "attend" /\ inputs = {Shared("rotatedQuery"), Own("keys"), Own("values")}
           /\ outputs = {Shared("attentionOutput")}
  <2>1. m[Shared("rotatedQuery")] = n[Shared("rotatedQuery")]
    BY <1>1, <1>2, <1>6
  <2>2. ContextAt(m, layer) = ContextAt(n, layer)
    BY <1>4, <2>1 DEF ContextAt
  <2>3. Attends(m, a, layer) /\ Attends(n, c, layer)
    BY <1>6, DoesWhat DEF m, n
  <2>4. a[Shared("attentionOutput")] = c[Shared("attentionOutput")]
    BY <1>4, <2>2, <2>3 DEF Attends, Weights
  <2> QED BY <1>6, <2>4 DEF Contents
<1>7. CASE what = "sum" /\ inputs = {Shared("context"), current}
           /\ outputs = {Shared("afterAttention"), Shared("postAttentionNormalized")}
  <2>1. m[Shared("context")] = n[Shared("context")] /\ m[Hidden(layer - 1)] = n[Hidden(layer - 1)]
    BY <1>1, <1>2, <1>7 DEF current
  <2> DEFINE update(p) == Product(p[Shared("context")], p[<<"outputWeight", layer>>])
  <2>2. Sums(m, a, layer, update(m)) /\ Sums(n, c, layer, update(n))
    BY <1>7, DoesWhat DEF m, n
  <2>3. update(m) = update(n)
    BY <1>4, <2>1 DEF Weights
  <2>4. m[<<"postNorm", layer>>] = n[<<"postNorm", layer>>]
    BY <1>4 DEF Weights
  <2> HIDE DEF update
  <2>5. /\ a[Shared("afterAttention")] = c[Shared("afterAttention")]
        /\ a[Shared("postAttentionNormalized")] = c[Shared("postAttentionNormalized")]
    BY <2>1, <2>2, <2>3, <2>4 DEF Sums
  <2> QED BY <1>7, <2>5 DEF Contents
<1>8. CASE what = "feed" /\ inputs = {Shared("gated"), Shared("afterAttention")}
           /\ outputs = {layerOutput}
  <2>1. m[Shared("gated")] = n[Shared("gated")] /\ m[Shared("afterAttention")] = n[Shared("afterAttention")]
    BY <1>1, <1>2, <1>8
  <2>2. Feeds(m, a, layer) /\ Feeds(n, c, layer)
    BY <1>8, DoesWhat DEF m, n
  <2>3. m[<<"downWeight", layer>>] = n[<<"downWeight", layer>>]
    BY <1>4 DEF Weights
  <2>4. a[layerOutput] = c[layerOutput]
    BY <2>1, <2>2, <2>3 DEF Feeds, layerOutput
  <2> QED BY <1>8, <2>4 DEF Contents
<1> QED BY <1>5, <1>6, <1>7, <1>8 DEF Tests

\* What is tested is what the steps came to at the region's mark.
TestOf(pattern, what) ==
  LET f == Fusion(pattern) IN
  /\ <<what, f.inputs, f.outputs>> \in Tests
  /\ Performs(what, Region(pattern), layer, Rows)
  /\ Performs(what, f.candidate.steps, layer, Rows)

\* At each test both the region and its candidate do what the region is for.
LEMMA FusionsAreTests ==
  ASSUME StageInv
  PROVE  /\ pc \in {"rmsnorm_qkv", "qkv_rope"} => TestOf(pc, "project")
         /\ pc = "paged_attention_output_projection" => TestOf(pc, "attend")
         /\ pc = "output_projection_residual" => TestOf(pc, "sum")
         /\ pc = "down_projection_residual" => TestOf(pc, "feed")
<1>1. layer \in Layers
  BY StepsAreEntries DEF StageInv
<1>2. ASSUME pc = "rmsnorm_qkv" PROVE TestOf(pc, "project")
  <2>1. Performs("project", Region(pc), layer, Rows)
    BY <1>2, FusionsOfStage DEF StageInv, Along, Cutting, Cuts, Region, Beyond
  <2>2. Performs("project", Fusion(pc).candidate.steps, layer, Rows)
    BY <1>1, <1>2, FusionsOfStage, ProjectsNormQKV
  <2>3. <<"project", Fusion(pc).inputs, Fusion(pc).outputs>> \in Tests
    BY <1>2, FusionsOfStage DEF Tests
  <2> QED BY <2>1, <2>2, <2>3 DEF TestOf
<1>3. ASSUME pc = "qkv_rope" PROVE TestOf(pc, "project")
  <2>1. Performs("project", Region(pc), layer, Rows)
    BY <1>3, FusionsOfStage DEF StageInv, Along, Cutting, Cuts, Region, Beyond
  <2>2. Performs("project", Fusion(pc).candidate.steps, layer, Rows)
    BY <1>1, <1>3, FusionsOfStage, ProjectsQKVRoPE
  <2>3. <<"project", Fusion(pc).inputs, Fusion(pc).outputs>> \in Tests
    BY <1>3, FusionsOfStage DEF Tests
  <2> QED BY <2>1, <2>2, <2>3 DEF TestOf
<1>4. ASSUME pc = "paged_attention_output_projection" PROVE TestOf(pc, "attend")
  <2>1. Performs("attend", Region(pc), layer, Rows)
    BY <1>4, FusionsOfStage DEF StageInv, Along, Cutting, Cuts, Region, Beyond
  <2>2. Performs("attend", Fusion(pc).candidate.steps, layer, Rows)
    BY <1>1, <1>4, FusionsOfStage, AttendsNode
  <2>3. <<"attend", Fusion(pc).inputs, Fusion(pc).outputs>> \in Tests
    BY <1>4, FusionsOfStage DEF Tests
  <2> QED BY <2>1, <2>2, <2>3 DEF TestOf
<1>5. ASSUME pc = "output_projection_residual" PROVE TestOf(pc, "sum")
  <2>1. Performs("sum", Region(pc), layer, Rows)
    BY <1>5, FusionsOfStage DEF StageInv, Along, Cutting, Cuts, Region, Beyond
  <2>2. Performs("sum", Fusion(pc).candidate.steps, layer, Rows)
    BY <1>1, <1>5, FusionsOfStage, ResidualNodes
  <2>3. <<"sum", Fusion(pc).inputs, Fusion(pc).outputs>> \in Tests
    BY <1>5, FusionsOfStage DEF Tests
  <2> QED BY <2>1, <2>2, <2>3 DEF TestOf
<1>6. ASSUME pc = "down_projection_residual" PROVE TestOf(pc, "feed")
  <2>1. Performs("feed", Region(pc), layer, Rows)
    BY <1>6, FusionsOfStage DEF StageInv, Along, Cutting, Cuts, Region, Beyond
  <2>2. Performs("feed", Fusion(pc).candidate.steps, layer, Rows)
    BY <1>1, <1>6, FusionsOfStage, FeedsNodes
  <2>3. <<"feed", Fusion(pc).inputs, Fusion(pc).outputs>> \in Tests
    BY <1>6, FusionsOfStage DEF Tests
  <2> QED BY <2>1, <2>2, <2>3 DEF TestOf
<1> QED BY <1>2, <1>3, <1>4, <1>5, <1>6

\* The kernels that look at the cache state find what they need.
LEMMA TestsSuit ==
  ASSUME StageInv, NEW what, NEW inputs, NEW outputs, <<what, inputs, outputs>> \in Tests,
         what \in Looks => device.length = Length(Rows),
         what \in Looks \ {"project"} => device.table = SomePages, NEW marker
  PROVE  Suits(what, TestMemory(marker, inputs), layer, Rows)
<1>1. layer \in Layers /\ Rows \in 1 .. Capacity
  BY StepsAreEntries, StageIsTyped DEF StageInv, AuditInv
<1>2. length \notin inputs /\ table \notin inputs
  BY DEF Tests, length, table, Own, Shared, current, Hidden
<1>3. length = <<"length", layer>> /\ table = <<"table", layer>>
  BY DEF length, table, Own
<1>4. Valid(Length(Rows), Rows)
  BY <1>1, DecoderStageAssumption DEF Valid, Length
<1>5. SomePages # NoPages
  BY DEF SomePages, NoPages
<1>6. /\ IsMemory(TestMemory(marker, inputs))
      /\ TestMemory(marker, inputs)[length] = device.length
      /\ TestMemory(marker, inputs)[table] = device.table
  BY <1>1, <1>2, TestMemoryFacts
<1> QED BY <1>3, <1>4, <1>5, <1>6 DEF Suits

\* Such a test is decided by its data.
LEMMA TestDecides ==
  ASSUME StageInv, NEW what, TestOf(pc, what),
         what \in Looks => device.length = Length(Rows),
         what \in Looks \ {"project"} => device.table = SomePages
  PROVE  TestsAreDecisive
<1> DEFINE f == Fusion(pc)
           first == TestMemory(1, f.inputs)
           second == TestMemory(2, f.inputs)
<1>1. layer \in Layers
  BY StepsAreEntries DEF StageInv
<1>2. <<what, f.inputs, f.outputs>> \in Tests
  BY DEF TestOf
<1>3. Suits(what, first, layer, Rows) /\ Suits(what, second, layer, Rows)
  <2> HIDE DEF f
  <2> QED BY <1>2, TestsSuit
<1>4. ASSUME NEW s, Performs(what, s, layer, Rows)
      PROVE  Contents(Execute(first, s, Rows), f.outputs)
               = Contents(Execute(second, s, Rows), f.outputs)
  <2>1. /\ Does(what, first, Execute(first, s, Rows), layer)
        /\ Does(what, second, Execute(second, s, Rows), layer)
    <3> HIDE DEF first, second
    <3> QED BY <1>3, <1>4 DEF Performs
  <2> HIDE DEF f
  <2> QED BY <1>1, <1>2, <2>1, TestTells
<1>5. /\ Performs(what, Region(pc), layer, Rows)
      /\ Performs(what, f.candidate.steps, layer, Rows)
  BY DEF TestOf
<1>6. /\ Contents(Execute(first, Region(pc), Rows), f.outputs)
           = Contents(Execute(second, Region(pc), Rows), f.outputs)
      /\ Contents(Execute(first, f.candidate.steps, Rows), f.outputs)
           = Contents(Execute(second, f.candidate.steps, Rows), f.outputs)
  <2> HIDE DEF f, first, second
  <2> QED BY <1>4, <1>5
<1> QED BY <1>6 DEF TestsAreDecisive

\* A test of a fusion, whose region an earlier fusion may have replaced, sees
\* nothing but the data it wrote and the cache state it staged.
THEOREM TestsDecide == Spec => []TestsAreDecisive
<1>1. StageInv => TestsAreDecisive
  <2> SUFFICES ASSUME StageInv, pc \in Fusions PROVE TestsAreDecisive
    BY DEF TestsAreDecisive
  <2>1. CASE pc \in {"rmsnorm_qkv", "qkv_rope"}
    <3>1. device.length = Length(Rows) /\ TestOf(pc, "project")
      BY <2>1, FusionsAreTests DEF StageInv, ReadyToTest
    <3> QED BY <3>1, TestDecides
  <2>2. CASE pc = "paged_attention_output_projection"
    <3>1. device.length = Length(Rows) /\ device.table = SomePages /\ TestOf(pc, "attend")
      BY <2>2, FusionsAreTests DEF StageInv, ReadyToTest
    <3> QED BY <3>1, TestDecides
  <2>3. CASE pc = "output_projection_residual"
    <3>1. TestOf(pc, "sum") /\ "sum" \notin Looks
      BY <2>3, FusionsAreTests DEF Looks
    <3> QED BY <3>1, TestDecides
  <2>4. CASE pc = "down_projection_residual"
    <3>1. TestOf(pc, "feed") /\ "feed" \notin Looks
      BY <2>4, FusionsAreTests DEF Looks
    <3> QED BY <3>1, TestDecides
  <2> QED BY <2>1, <2>2, <2>3, <2>4 DEF Fusions
<1> QED BY <1>1, StageBegins, StageStays, PTL DEF Spec
=============================================================================
