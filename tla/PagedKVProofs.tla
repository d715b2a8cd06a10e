--------------------------- MODULE PagedKVProofs ---------------------------
(***************************************************************************)
(* Lemmas about the operators of PagedKV, for every page size, capacity    *)
(* and pool: moving pages between the free list and a table keeps every    *)
(* page at exactly one place, resizing a table keeps the entries it        *)
(* already had, and distinct positions live in distinct slots.             *)
(***************************************************************************)
EXTENDS PagedKV, TLAPS

\* The stacks of pages S[o] of the owners o \in O hold every page of P once.
Partitioned(S, O, P) ==
  /\ \A a, b \in O : \A i \in 1 .. Len(S[a]), j \in 1 .. Len(S[b]) :
       S[a][i] = S[b][j] => a = b /\ i = j
  /\ \A p \in P : \E o \in O : \E i \in 1 .. Len(S[o]) : S[o][i] = p

\* What is left of a stack when its last k entries are moved away.
LEMMA DroppedProperties ==
  ASSUME NEW P, NEW s \in Seq(P), NEW k \in 0 .. Len(s)
  PROVE  /\ Dropped(s, k) \in Seq(P)
         /\ Len(Dropped(s, k)) = Len(s) - k
         /\ \A i \in 1 .. Len(s) - k : Dropped(s, k)[i] = s[i]
BY DEF Dropped

\* A stack that receives k entries keeps the ones it had, in place.
LEMMA TransferredProperties ==
  ASSUME NEW P, NEW s \in Seq(P), NEW t \in Seq(P), NEW k \in 0 .. Len(s)
  PROVE  /\ Transferred(s, t, k) \in Seq(P)
         /\ Len(Transferred(s, t, k)) = Len(t) + k
         /\ \A i \in 1 .. Len(t) : Transferred(s, t, k)[i] = t[i]
<1> DEFINE u == Transferred(s, t, k)
<1>1. \A i \in 1 .. Len(t) + k : u[i] \in P
  BY DEF Transferred
<1>2. u \in [1 .. Len(t) + k -> P]
  BY <1>1 DEF Transferred
<1>3. u \in Seq(P) /\ Len(u) = Len(t) + k
  BY <1>2
<1> QED BY <1>3 DEF Transferred

\* Moving k pages from the end of one stack to the end of another.
LEMMA TransferKeepsPartition ==
  ASSUME NEW P, NEW O, NEW S \in [O -> Seq(P)], NEW a \in O, NEW b \in O,
         a # b, NEW k \in 0 .. Len(S[a]), Partitioned(S, O, P)
  PROVE  Partitioned([S EXCEPT ![a] = Dropped(S[a], k),
                               ![b] = Transferred(S[a], S[b], k)], O, P)
<1> DEFINE U == [S EXCEPT ![a] = Dropped(S[a], k),
                          ![b] = Transferred(S[a], S[b], k)]
<1>1. /\ U[a] = Dropped(S[a], k)
      /\ U[b] = Transferred(S[a], S[b], k)
      /\ \A o \in O \ {a, b} : U[o] = S[o]
  OBVIOUS
<1>2. /\ Len(U[a]) = Len(S[a]) - k
      /\ \A i \in 1 .. Len(S[a]) - k : U[a][i] = S[a][i]
  <2>1. S[a] \in Seq(P)
    OBVIOUS
  <2> QED BY <1>1, <2>1, DroppedProperties
<1>3. /\ Len(U[b]) = Len(S[b]) + k
      /\ \A i \in 1 .. Len(S[b]) : U[b][i] = S[b][i]
      /\ \A i \in Len(S[b]) + 1 .. Len(S[b]) + k :
           U[b][i] = S[a][Len(S[a]) + 1 - (i - Len(S[b]))]
  <2>1. S[a] \in Seq(P) /\ S[b] \in Seq(P)
    OBVIOUS
  <2> DEFINE T == Transferred(S[a], S[b], k)
  <2>2. /\ Len(T) = Len(S[b]) + k
        /\ \A i \in 1 .. Len(S[b]) : T[i] = S[b][i]
        /\ \A i \in Len(S[b]) + 1 .. Len(S[b]) + k :
             T[i] = S[a][Len(S[a]) + 1 - (i - Len(S[b]))]
    <3>1. Len(T) = Len(S[b]) + k /\ \A i \in 1 .. Len(S[b]) : T[i] = S[b][i]
      BY <2>1, TransferredProperties
    <3>2. \A i \in Len(S[b]) + 1 .. Len(S[b]) + k :
            T[i] = S[a][Len(S[a]) + 1 - (i - Len(S[b]))]
      BY <2>1 DEF Transferred
    <3> QED BY <3>1, <3>2
  <2>3. U[b] = T
    BY <1>1
  <2> HIDE DEF U, T
  <2> QED BY <2>2, <2>3
<1> HIDE DEF U
<1>L. \A o \in O : Len(S[o]) \in Nat
  OBVIOUS
\* Where the page at place i of the stack of c was before the move.
<1> DEFINE CameFrom(c, i, e, x) ==
      IF c = b /\ i > Len(S[b])
      THEN e = a /\ x = Len(S[a]) + 1 - (i - Len(S[b])) /\ x > Len(S[a]) - k
      ELSE e = c /\ x = i /\ (c = a => x <= Len(S[a]) - k)
<1>M. ASSUME NEW c \in O, NEW i \in 1 .. Len(U[c])
      PROVE  \E e \in O : \E x \in 1 .. Len(S[e]) :
               U[c][i] = S[e][x] /\ CameFrom(c, i, e, x)
  <2>1. CASE c = b /\ i <= Len(S[b])
    <3>1. i \in 1 .. Len(S[c]) /\ U[c][i] = S[c][i]
      BY <1>3, <1>L, <2>1
    <3> QED BY <1>L, <2>1, <3>1
  <2>2. CASE c = b /\ i > Len(S[b])
    <3> DEFINE x == Len(S[a]) + 1 - (i - Len(S[b]))
    <3>1. i \in Len(S[b]) + 1 .. Len(S[b]) + k
      BY <1>3, <1>L, <2>2
    <3>2. x \in 1 .. Len(S[a]) /\ x > Len(S[a]) - k
      BY <1>L, <3>1
    <3>3. U[c][i] = S[a][x]
      BY <1>3, <2>2, <3>1
    <3> QED BY <2>2, <3>2, <3>3
  <2>3. CASE c # b
    <3>1. i \in 1 .. Len(S[c]) /\ U[c][i] = S[c][i] /\ (c = a => i <= Len(S[a]) - k)
      BY <1>1, <1>2, <1>L, <2>3
    <3> QED BY <2>3, <3>1
  <2> QED BY <1>3, <1>L, <2>1, <2>2, <2>3
<1>4. ASSUME NEW c \in O, NEW d \in O,
             NEW i \in 1 .. Len(U[c]), NEW j \in 1 .. Len(U[d]), U[c][i] = U[d][j]
      PROVE  c = d /\ i = j
  <2>1. PICK e \in O : \E x \in 1 .. Len(S[e]) : U[c][i] = S[e][x] /\ CameFrom(c, i, e, x)
    BY <1>M
  <2>2. PICK x \in 1 .. Len(S[e]) : U[c][i] = S[e][x] /\ CameFrom(c, i, e, x)
    BY <2>1
  <2>3. PICK f \in O : \E y \in 1 .. Len(S[f]) : U[d][j] = S[f][y] /\ CameFrom(d, j, f, y)
    BY <1>M
  <2>4. PICK y \in 1 .. Len(S[f]) : U[d][j] = S[f][y] /\ CameFrom(d, j, f, y)
    BY <2>3
  <2>5. e = f /\ x = y
    <3>1. S[e][x] = S[f][y]
      BY <1>4, <2>2, <2>4
    <3>2. \A u, v \in O : \A m \in 1 .. Len(S[u]), n \in 1 .. Len(S[v]) :
            S[u][m] = S[v][n] => u = v /\ m = n
      BY DEF Partitioned
    <3> QED BY <3>1, <3>2
  <2>6. i \in Int /\ j \in Int /\ x \in Int /\ Len(S[a]) \in Int /\ Len(S[b]) \in Int
    BY <1>1, <1>2, <1>3, <1>L
  <2> QED BY <2>2, <2>4, <2>5, <2>6
<1>5. ASSUME NEW p \in P
      PROVE  \E o \in O : \E i \in 1 .. Len(U[o]) : U[o][i] = p
  <2>0. PICK o \in O : \E i \in 1 .. Len(S[o]) : S[o][i] = p
    BY DEF Partitioned
  <2>1. PICK i \in 1 .. Len(S[o]) : S[o][i] = p
    BY <2>0
  <2>2. CASE o = a /\ i > Len(S[a]) - k
    <3> DEFINE j == Len(S[b]) + Len(S[a]) + 1 - i
    <3>1. j \in Len(S[b]) + 1 .. Len(S[b]) + k /\ Len(S[a]) + 1 - (j - Len(S[b])) = i
      BY <1>L, <2>1, <2>2
    <3>2. U[b][j] = p
      BY <1>3, <2>1, <2>2, <3>1
    <3>3. j \in 1 .. Len(U[b])
      BY <1>3, <1>L, <3>1
    <3> QED BY <3>2, <3>3
  <2>3. CASE o = a /\ i <= Len(S[a]) - k
    BY <1>2, <2>1, <2>3
  <2>4. CASE o # a
    <3>1. i \in 1 .. Len(U[o]) /\ U[o][i] = p
      BY SMTT(40), <1>1, <1>3, <1>L, <2>1, <2>4
    <3> QED BY <3>1
  <2> QED BY <2>1, <2>2, <2>3, <2>4
<1> QED BY <1>4, <1>5 DEF Partitioned, U

\* Moving a whole stack, in its own order, onto the end of another.
LEMMA AppendKeepsPartition ==
  ASSUME NEW P, NEW O, NEW S \in [O -> Seq(P)], NEW a \in O, NEW b \in O,
         a # b, Partitioned(S, O, P)
  PROVE  Partitioned([S EXCEPT ![a] = <<>>, ![b] = S[b] \o S[a]], O, P)
<1> DEFINE U == [S EXCEPT ![a] = <<>>, ![b] = S[b] \o S[a]]
<1>L. /\ S[a] \in Seq(P) /\ S[b] \in Seq(P)
      /\ \A o \in O : Len(S[o]) \in Nat
  OBVIOUS
<1>1. /\ U[a] = <<>>
      /\ U[b] = S[b] \o S[a]
      /\ \A o \in O \ {a, b} : U[o] = S[o]
  OBVIOUS
<1>2. /\ Len(U[a]) = 0
      /\ Len(U[b]) = Len(S[b]) + Len(S[a])
      /\ \A i \in 1 .. Len(S[b]) : U[b][i] = S[b][i]
      /\ \A i \in Len(S[b]) + 1 .. Len(S[b]) + Len(S[a]) :
           U[b][i] = S[a][i - Len(S[b])]
  BY <1>1, <1>L
<1> HIDE DEF U
<1> DEFINE CameFrom(c, i, e, x) ==
      IF c = b /\ i > Len(S[b]) THEN e = a /\ x = i - Len(S[b])
      ELSE e = c /\ x = i /\ c # a
<1>3. ASSUME NEW c \in O, NEW i \in 1 .. Len(U[c])
      PROVE  \E e \in O : \E x \in 1 .. Len(S[e]) :
               U[c][i] = S[e][x] /\ CameFrom(c, i, e, x)
  <2>1. CASE c = b /\ i > Len(S[b])
    <3>1. i - Len(S[b]) \in 1 .. Len(S[a]) /\ U[c][i] = S[a][i - Len(S[b])]
      BY <1>2, <1>L, <2>1
    <3> QED BY <2>1, <3>1
  <2>2. CASE ~(c = b /\ i > Len(S[b]))
    <3>1. c # a /\ i \in 1 .. Len(S[c]) /\ U[c][i] = S[c][i]
      BY <1>1, <1>2, <1>L, <2>2
    <3> QED BY <2>2, <3>1
  <2> QED BY <2>1, <2>2
<1>4. ASSUME NEW c \in O, NEW d \in O,
             NEW i \in 1 .. Len(U[c]), NEW j \in 1 .. Len(U[d]), U[c][i] = U[d][j]
      PROVE  c = d /\ i = j
  <2>1. PICK e \in O : \E x \in 1 .. Len(S[e]) : U[c][i] = S[e][x] /\ CameFrom(c, i, e, x)
    BY <1>3
  <2>2. PICK x \in 1 .. Len(S[e]) : U[c][i] = S[e][x] /\ CameFrom(c, i, e, x)
    BY <2>1
  <2>3. PICK f \in O : \E y \in 1 .. Len(S[f]) : U[d][j] = S[f][y] /\ CameFrom(d, j, f, y)
    BY <1>3
  <2>4. PICK y \in 1 .. Len(S[f]) : U[d][j] = S[f][y] /\ CameFrom(d, j, f, y)
    BY <2>3
  <2>5. e = f /\ x = y
    <3>1. S[e][x] = S[f][y]
      BY <1>4, <2>2, <2>4
    <3>2. \A u, v \in O : \A m \in 1 .. Len(S[u]), n \in 1 .. Len(S[v]) :
            S[u][m] = S[v][n] => u = v /\ m = n
      BY DEF Partitioned
    <3> QED BY <3>1, <3>2
  <2>6. i \in Int /\ j \in Int /\ x \in Int /\ Len(S[b]) \in Int
    BY <1>1, <1>2, <1>L
  <2> QED BY <2>2, <2>4, <2>5, <2>6
<1>5. ASSUME NEW p \in P
      PROVE  \E o \in O : \E i \in 1 .. Len(U[o]) : U[o][i] = p
  <2>1. PICK o \in O : \E i \in 1 .. Len(S[o]) : S[o][i] = p
    BY DEF Partitioned
  <2>2. PICK i \in 1 .. Len(S[o]) : S[o][i] = p
    BY <2>1
  <2>3. CASE o = a
    <3>1. /\ i + Len(S[b]) \in Len(S[b]) + 1 .. Len(S[b]) + Len(S[a])
          /\ (i + Len(S[b])) - Len(S[b]) = i
          /\ i + Len(S[b]) \in 1 .. Len(U[b])
      BY <1>2, <1>L, <2>2, <2>3
    <3>2. U[b][i + Len(S[b])] = p
      BY <1>2, <2>2, <2>3, <3>1
    <3> QED BY <3>1, <3>2
  <2>4. CASE o # a
    <3>1. i \in 1 .. Len(U[o]) /\ U[o][i] = p
      BY <1>1, <1>2, <1>L, <2>2, <2>4
    <3> QED BY <3>1
  <2> QED BY <2>3, <2>4
<1> QED BY <1>4, <1>5 DEF Partitioned, U

----------------------------------------------------------------------------
PoolType ==
  [free : Seq(Pages), allocated : SUBSET Pages,
   allocations : Nat, releases : Nat, peak : Nat]

\* The free list f and the tables as stacks of one function.
Stacks(free, T, R, f) == [o \in R \cup {f} |-> IF o = f THEN free ELSE T[o]]

\* The pages of a stack.
Elems(s) == {s[i] : i \in 1 .. Len(s)}

Flags(pool) == pool.allocated = Pages \ Elems(pool.free)

\* Dropping k entries of a stack without duplicates removes just Top.
LEMMA DroppedElems ==
  ASSUME NEW P, NEW s \in Seq(P), NEW k \in 0 .. Len(s),
         \A i, j \in 1 .. Len(s) : s[i] = s[j] => i = j
  PROVE  Elems(Dropped(s, k)) = Elems(s) \ Top(s, k)
<1> DEFINE d == Dropped(s, k)
<1>1. /\ Len(d) = Len(s) - k
      /\ \A i \in 1 .. Len(s) - k : d[i] = s[i]
  BY DroppedProperties
<1>2. Len(s) \in Nat /\ k \in Nat /\ k <= Len(s)
  OBVIOUS
<1> HIDE DEF d
<1>3. ASSUME NEW x \in Elems(d)  PROVE  x \in Elems(s) \ Top(s, k)
  <2>1. PICK i \in 1 .. Len(s) - k : x = s[i]
    BY <1>1 DEF Elems
  <2>2. i \in 1 .. Len(s)
    BY <1>2
  <2>3. ASSUME NEW j \in Len(s) - k + 1 .. Len(s)  PROVE  s[j] # x
    <3>1. j \in 1 .. Len(s) /\ i # j
      BY <1>2
    <3> QED BY <2>1, <2>2, <3>1
  <2> QED BY <2>1, <2>2, <2>3 DEF Elems, Top
<1>4. ASSUME NEW x \in Elems(s) \ Top(s, k)  PROVE  x \in Elems(d)
  <2>1. PICK i \in 1 .. Len(s) : x = s[i]
    BY DEF Elems
  <2>2. i \in 1 .. Len(d)
    BY <1>1, <1>2, <2>1 DEF Top
  <2> QED BY <1>1, <2>1, <2>2 DEF Elems
<1> QED BY <1>3, <1>4 DEF d

\* The receiving stack holds its own entries and the Top of the other.
LEMMA TransferredElems ==
  ASSUME NEW P, NEW s \in Seq(P), NEW t \in Seq(P), NEW k \in 0 .. Len(s)
  PROVE  /\ Elems(Transferred(s, t, k)) = Elems(t) \cup Top(s, k)
         /\ Top(s, k) \subseteq Elems(s)
         /\ Elems(s) \subseteq P
<1> DEFINE u == Transferred(s, t, k)
<1>1. Len(s) \in Nat /\ Len(t) \in Nat /\ k \in Nat /\ k <= Len(s)
  OBVIOUS
<1>2. Len(u) = Len(t) + k /\ \A i \in 1 .. Len(t) : u[i] = t[i]
  BY ZenonT(60), TransferredProperties
<1>3. \A i \in Len(t) + 1 .. Len(t) + k : u[i] = s[Len(s) + 1 - (i - Len(t))]
  BY <1>1 DEF Transferred
<1> HIDE DEF u
<1>4. ASSUME NEW x \in Elems(u)  PROVE  x \in Elems(t) \cup Top(s, k)
  <2>1. PICK i \in 1 .. Len(u) : x = u[i]
    BY DEF Elems
  <2>2. CASE i <= Len(t)
    BY <1>1, <1>2, <2>1, <2>2 DEF Elems
  <2>3. CASE i > Len(t)
    <3> DEFINE j == Len(s) + 1 - (i - Len(t))
    <3>1. i \in Len(t) + 1 .. Len(t) + k /\ j \in Len(s) - k + 1 .. Len(s)
      BY <1>1, <1>2, <2>3
    <3>2. x = s[j]
      BY <1>3, <2>1, <3>1
    <3> QED BY <3>1, <3>2 DEF Top
  <2> QED BY <1>1, <1>2, <2>2, <2>3
<1>5. ASSUME NEW x \in Elems(t)  PROVE  x \in Elems(u)
  BY <1>1, <1>2 DEF Elems
<1>6. ASSUME NEW x \in Top(s, k)  PROVE  x \in Elems(u) /\ x \in Elems(s)
  <2>1. PICK i \in Len(s) - k + 1 .. Len(s) : x = s[i]
    BY DEF Top
  <2> DEFINE j == Len(t) + Len(s) + 1 - i
  <2>2. /\ j \in Len(t) + 1 .. Len(t) + k /\ j \in 1 .. Len(u)
        /\ Len(s) + 1 - (j - Len(t)) = i
        /\ i \in 1 .. Len(s)
    BY <1>1, <1>2
  <2>3. u[j] = x
    BY <1>3, <2>1, <2>2
  <2> QED BY <2>1, <2>2, <2>3 DEF Elems
<1>7. Elems(s) \subseteq P
  BY DEF Elems
<1> QED BY <1>4, <1>5, <1>6, <1>7 DEF u

\* A table appended to the free list, as the destructor does, adds its entries.
LEMMA AppendedElems ==
  ASSUME NEW P, NEW s \in Seq(P), NEW t \in Seq(P)
  PROVE  Elems(s \o t) = Elems(s) \cup Elems(t)
<1>1. Len(s) \in Nat /\ Len(t) \in Nat
  OBVIOUS
<1> DEFINE u == s \o t
<1>2. /\ Len(u) = Len(s) + Len(t)
      /\ \A i \in 1 .. Len(s) : u[i] = s[i]
      /\ \A i \in Len(s) + 1 .. Len(s) + Len(t) : u[i] = t[i - Len(s)]
  OBVIOUS
<1> HIDE DEF u
<1>3. ASSUME NEW x \in Elems(u)  PROVE  x \in Elems(s) \cup Elems(t)
  <2>1. PICK i \in 1 .. Len(u) : x = u[i]
    BY DEF Elems
  <2>2. CASE i <= Len(s)
    BY <1>1, <1>2, <2>1, <2>2 DEF Elems
  <2>3. CASE i > Len(s)
    <3>1. i - Len(s) \in 1 .. Len(t) /\ x = t[i - Len(s)]
      BY <1>1, <1>2, <2>1, <2>3
    <3> QED BY <3>1 DEF Elems
  <2> QED BY <1>1, <1>2, <2>2, <2>3
<1>4. ASSUME NEW x \in Elems(s)  PROVE  x \in Elems(u)
  BY <1>1, <1>2 DEF Elems
<1>5. ASSUME NEW x \in Elems(t)  PROVE  x \in Elems(u)
  <2>1. PICK i \in 1 .. Len(t) : x = t[i]
    BY DEF Elems
  <2> DEFINE j == i + Len(s)
  <2>2. /\ j \in Len(s) + 1 .. Len(s) + Len(t) /\ j - Len(s) = i
        /\ j \in 1 .. Len(u)
    BY <1>1, <1>2
  <2>3. u[j] = x
    BY <1>2, <2>1, <2>2
  <2> QED BY <2>2, <2>3 DEF Elems
<1> QED BY <1>3, <1>4, <1>5 DEF u

\* PagesHeldOnce says that free list and tables partition the pages.
LEMMA HeldOnceIsPartition ==
  ASSUME NEW R, NEW f, f \notin R, NEW pool \in PoolType, NEW T \in [R -> Seq(Pages)]
  PROVE  /\ Stacks(pool.free, T, R, f) \in [R \cup {f} -> Seq(Pages)]
         /\ PagesHeldOnce(pool, T)
            <=> Partitioned(Stacks(pool.free, T, R, f), R \cup {f}, Pages) /\ Flags(pool)
<1> DEFINE S == Stacks(pool.free, T, R, f)
<1>1. S[f] = pool.free /\ \A r \in R : S[r] = T[r]
  BY DEF Stacks
<1>2. S \in [R \cup {f} -> Seq(Pages)]
  BY DEF Stacks, PoolType
<1>3. DOMAIN T = R
  OBVIOUS
<1> HIDE DEF S
<1>4. ASSUME PagesHeldOnce(pool, T)
      PROVE  Partitioned(S, R \cup {f}, Pages) /\ Flags(pool)
  BY <1>1, <1>3, <1>4 DEF PagesHeldOnce, Partitioned, Flags, Elems
<1>5. ASSUME Partitioned(S, R \cup {f}, Pages), Flags(pool)
      PROVE  PagesHeldOnce(pool, T)
  <2> DEFINE O == R \cup {f}
  <2>1. \A a, b \in O : \A i \in 1 .. Len(S[a]), j \in 1 .. Len(S[b]) :
          S[a][i] = S[b][j] => a = b /\ i = j
    BY <1>5 DEF Partitioned
  <2>2. \A p \in Pages : \E o \in O : \E i \in 1 .. Len(S[o]) : S[o][i] = p
    BY <1>5 DEF Partitioned
  <2>3. \A i, j \in 1 .. Len(pool.free) : pool.free[i] = pool.free[j] => i = j
    BY <1>1, <2>1
  <2>4. \A a, b \in R : \A i \in 1 .. Len(T[a]), j \in 1 .. Len(T[b]) :
          T[a][i] = T[b][j] => a = b /\ i = j
    BY <1>1, <2>1
  <2>5. \A a \in R : \A i \in 1 .. Len(T[a]), j \in 1 .. Len(pool.free) :
          T[a][i] # pool.free[j]
    BY <1>1, <2>1
  <2>6. ASSUME NEW p \in Pages
        PROVE  \/ \E j \in 1 .. Len(pool.free) : pool.free[j] = p
               \/ \E a \in R : \E i \in 1 .. Len(T[a]) : T[a][i] = p
    <3>1. PICK o \in O : \E i \in 1 .. Len(S[o]) : S[o][i] = p
      BY <2>2
    <3>2. CASE o = f
      BY <1>1, <3>1, <3>2
    <3>3. CASE o \in R
      BY <1>1, <3>1, <3>3
    <3> QED BY <3>2, <3>3
  <2> QED BY <1>3, <1>5, <2>3, <2>4, <2>5, <2>6 DEF PagesHeldOnce, Flags, Elems
<1> QED BY <1>2, <1>4, <1>5 DEF S

\* A pool and the tables that share it, in a state the operations keep.
Sound(pool, T, R) ==
  /\ pool \in PoolType
  /\ T \in [R -> Seq(Pages)]
  /\ PagesHeldOnce(pool, T)
  /\ CountsBalance(pool)

\* allocatePage, k times, onto the end of r's table.
LEMMA AllocateSound ==
  ASSUME NEW R, NEW pool, NEW T, Sound(pool, T, R), NEW r \in R,
         NEW k \in 0 .. Len(pool.free)
  PROVE  Sound(AllocatePages(pool, k),
               [T EXCEPT ![r] = Transferred(pool.free, T[r], k)], R)
<1> DEFINE free == pool.free
           t    == T[r]
           new  == AllocatePages(pool, k)
           U    == [T EXCEPT ![r] = Transferred(free, t, k)]
<1>1. /\ pool \in PoolType /\ T \in [R -> Seq(Pages)] /\ free \in Seq(Pages)
      /\ PagesHeldOnce(pool, T) /\ CountsBalance(pool)
  BY DEF Sound, PoolType
<1>2. t \in Seq(Pages) /\ Len(free) \in Nat /\ k \in Nat /\ k <= Len(free)
  BY <1>1
<1>3. /\ new.free = Dropped(free, k)
      /\ new.allocated = pool.allocated \cup Top(free, k)
      /\ new.allocations = pool.allocations + k
      /\ new.releases = pool.releases
      /\ new.peak = MaxOf(pool.peak, UsedPages(pool) + k)
  BY DEF AllocatePages
<1>4. Dropped(free, k) \in Seq(Pages) /\ Len(Dropped(free, k)) = Len(free) - k
  BY <1>1, DroppedProperties
<1>5. Top(free, k) \subseteq Elems(free) /\ Elems(free) \subseteq Pages
  BY <1>1, <1>2, TransferredElems
<1>6. /\ pool.allocations \in Nat /\ pool.releases \in Nat /\ pool.peak \in Nat
      /\ pool.allocated \subseteq Pages /\ PoolPages \in Nat
  BY <1>1, PagedKVAssumption DEF PoolType
<1>7. CountsBalance(new) /\ new.peak \in Nat
  <2>1. UsedPages(new) = UsedPages(pool) + k /\ UsedPages(new) <= PoolPages
    BY <1>2, <1>3, <1>4, <1>6 DEF UsedPages
  <2>2. UsedPages(pool) \in Int
    BY <1>2, <1>6 DEF UsedPages
  <2> HIDE DEF new
  <2> QED BY <1>1, <1>2, <1>3, <1>6, <2>1, <2>2 DEF CountsBalance, MaxOf
<1>8. new \in PoolType
  BY <1>2, <1>3, <1>4, <1>5, <1>6, <1>7 DEF AllocatePages, PoolType
<1>9. Transferred(free, t, k) \in Seq(Pages) /\ U \in [R -> Seq(Pages)]
  BY <1>1, <1>2, TransferredProperties
<1>10. PagesHeldOnce(new, U)
  <2>1. PICK f : f \notin R
    BY NoSetContainsEverything
  <2> DEFINE S == Stacks(free, T, R, f)
             W == [S EXCEPT ![f] = Dropped(S[f], k), ![r] = Transferred(S[f], S[r], k)]
  <2>2. /\ S \in [R \cup {f} -> Seq(Pages)]
        /\ Partitioned(S, R \cup {f}, Pages) /\ Flags(pool)
    BY <1>1, <2>1, HeldOnceIsPartition
  <2>3. S[f] = free /\ S[r] = t /\ f # r
    BY <2>1 DEF Stacks
  <2>4. Partitioned(W, R \cup {f}, Pages)
    <3>1. k \in 0 .. Len(S[f]) /\ f \in R \cup {f} /\ r \in R \cup {f}
      BY <2>3
    <3> HIDE DEF S
    <3> QED BY <2>2, <2>3, <3>1, TransferKeepsPartition
  <2>5. W = Stacks(new.free, U, R, f)
    BY <1>1, <1>3, <2>1, <2>3 DEF Stacks
  <2>6. Flags(new)
    <3>1. Elems(new.free) = Elems(free) \ Top(free, k)
      <4>1. \A i, j \in 1 .. Len(free) : free[i] = free[j] => i = j
        BY <1>1 DEF PagesHeldOnce
      <4> QED BY <1>1, <1>3, <4>1, DroppedElems
    <3> HIDE DEF new
    <3> QED BY <1>3, <1>5, <2>2, <3>1 DEF Flags
  <2> HIDE DEF W, new, U
  <2> QED BY <1>8, <1>9, <2>1, <2>4, <2>5, <2>6, HeldOnceIsPartition
<1> QED BY <1>7, <1>8, <1>9, <1>10 DEF Sound

\* releasePage on the last k pages of r's table.
LEMMA ReleaseSound ==
  ASSUME NEW R, NEW pool, NEW T, Sound(pool, T, R), NEW r \in R,
         NEW k \in 0 .. Len(T[r])
  PROVE  Sound(ReleasePages(pool, T[r], k), [T EXCEPT ![r] = Dropped(T[r], k)], R)
<1> DEFINE free == pool.free
           t    == T[r]
           new  == ReleasePages(pool, t, k)
           U    == [T EXCEPT ![r] = Dropped(t, k)]
<1>1. /\ pool \in PoolType /\ T \in [R -> Seq(Pages)] /\ free \in Seq(Pages)
      /\ PagesHeldOnce(pool, T) /\ CountsBalance(pool)
  BY DEF Sound, PoolType
<1>2. /\ t \in Seq(Pages) /\ Len(free) \in Nat /\ Len(t) \in Nat
      /\ k \in Nat /\ k <= Len(t)
  BY <1>1
<1>3. /\ new \in [free : {Transferred(t, free, k)},
                  allocated : {pool.allocated \ Top(t, k)},
                  allocations : {pool.allocations},
                  releases : {pool.releases + k}, peak : {pool.peak}]
  BY <1>1 DEF ReleasePages, PoolType
<1>4. /\ Transferred(t, free, k) \in Seq(Pages)
      /\ Len(Transferred(t, free, k)) = Len(free) + k
  BY ZenonT(60), <1>1, <1>2, TransferredProperties
<1>5. /\ Elems(Transferred(t, free, k)) = Elems(free) \cup Top(t, k)
      /\ Top(t, k) \subseteq Pages
  BY <1>1, <1>2, TransferredElems
<1>6. /\ pool.allocations \in Nat /\ pool.releases \in Nat /\ pool.peak \in Nat
      /\ pool.allocated \subseteq Pages /\ PoolPages \in Nat
  BY <1>1, PagedKVAssumption DEF PoolType
<1>7. new \in PoolType
  BY <1>2, <1>3, <1>4, <1>6 DEF PoolType
<1>8. Dropped(t, k) \in Seq(Pages) /\ U \in [R -> Seq(Pages)]
  BY <1>1, <1>2, DroppedProperties
<1> HIDE DEF new
<1>9. CountsBalance(new)
  <2>1. /\ Len(new.free) = Len(free) + k
        /\ new.allocations = pool.allocations
        /\ new.releases = pool.releases + k
        /\ new.peak = pool.peak
    BY <1>3, <1>4
  <2>2. UsedPages(new) = UsedPages(pool) - k /\ UsedPages(pool) \in Int
    BY <1>2, <1>6, <2>1 DEF UsedPages
  <2> QED BY <1>1, <1>2, <1>6, <2>1, <2>2 DEF CountsBalance
<1>10. PagesHeldOnce(new, U)
  <2>1. PICK f : f \notin R
    BY NoSetContainsEverything
  <2> DEFINE S == Stacks(free, T, R, f)
             W == [S EXCEPT ![r] = Dropped(S[r], k), ![f] = Transferred(S[r], S[f], k)]
  <2>2. /\ S \in [R \cup {f} -> Seq(Pages)]
        /\ Partitioned(S, R \cup {f}, Pages) /\ Flags(pool)
    BY <1>1, <2>1, HeldOnceIsPartition
  <2>3. S[f] = free /\ S[r] = t /\ f # r
    BY <2>1 DEF Stacks
  <2>4. Partitioned(W, R \cup {f}, Pages)
    <3>1. k \in 0 .. Len(S[r]) /\ f \in R \cup {f} /\ r \in R \cup {f}
      BY <2>3
    <3> HIDE DEF S
    <3> QED BY <2>2, <2>3, <3>1, TransferKeepsPartition
  <2>5. W = Stacks(new.free, U, R, f)
    BY <1>1, <1>3, <2>1, <2>3 DEF Stacks
  <2>6. Flags(new)
    BY <1>3, <1>5, <2>2 DEF Flags
  <2> HIDE DEF W, U
  <2> QED BY <1>7, <1>8, <2>1, <2>4, <2>5, <2>6, HeldOnceIsPartition
<1> QED BY <1>7, <1>8, <1>9, <1>10 DEF Sound, new

\* resizePageAllocation, whether it grows, shrinks or gives back what it took:
\* it has the pages asked for or the table it had, and keeps common entries.
LEMMA ResizeSound ==
  ASSUME NEW R, NEW pool, NEW T, Sound(pool, T, R), NEW r \in R, NEW n \in Nat,
         NEW out, out = ResizePageAllocation(pool, T[r], n)
  PROVE  /\ Sound(out.pool, [T EXCEPT ![r] = out.table], R)
         /\ out.ok \in BOOLEAN
         /\ out.table \in Seq(Pages)
         /\ out.ok => Len(out.table) = n
         /\ ~out.ok => out.table = T[r]
         /\ n <= Len(T[r]) => out.ok
         /\ \A i \in 1 .. Len(T[r]) : i <= n => out.table[i] = T[r][i]
<1> DEFINE t    == T[r]
           free == pool.free
<1>1. /\ pool \in PoolType /\ T \in [R -> Seq(Pages)] /\ free \in Seq(Pages)
      /\ PagesHeldOnce(pool, T) /\ CountsBalance(pool)
  BY DEF Sound, PoolType
<1>2. t \in Seq(Pages) /\ Len(free) \in Nat /\ Len(t) \in Nat
  BY <1>1
<1>3. /\ pool.allocations \in Nat /\ pool.releases \in Nat /\ pool.peak \in Nat
      /\ PoolPages \in Nat
  BY <1>1, PagedKVAssumption DEF PoolType
<1>4. CASE n - Len(t) > Len(free)
  <2>1. /\ out.table = t /\ out.ok = FALSE
        /\ out.pool = [pool EXCEPT !.allocations = @ + Len(free),
                                  !.releases    = @ + Len(free),
                                  !.peak        = MaxOf(@, PoolPages)]
    BY <1>4 DEF ResizePageAllocation
  <2>2. /\ out.pool.free = free /\ out.pool.allocated = pool.allocated
        /\ out.pool.allocations = pool.allocations + Len(free)
        /\ out.pool.releases = pool.releases + Len(free)
        /\ out.pool.peak = MaxOf(pool.peak, PoolPages)
    BY <1>1, <2>1 DEF PoolType
  <2>3. MaxOf(pool.peak, PoolPages) = PoolPages
    BY <1>1, <1>3 DEF MaxOf, CountsBalance
  <2>4. out.pool \in PoolType
    <3>1. out.pool \in [free : {free}, allocated : {pool.allocated},
                      allocations : {pool.allocations + Len(free)},
                      releases : {pool.releases + Len(free)},
                      peak : {MaxOf(pool.peak, PoolPages)}]
      BY <1>1, <2>1 DEF PoolType
    <3>2. free \in Seq(Pages) /\ pool.allocated \subseteq Pages
      BY <1>1 DEF PoolType
    <3> HIDE DEF free
    <3> QED BY <1>2, <1>3, <2>3, <3>1, <3>2 DEF PoolType
  <2>5. CountsBalance(out.pool)
    BY <1>1, <1>2, <1>3, <2>2, <2>3 DEF CountsBalance, UsedPages
  <2>6. PagesHeldOnce(out.pool, T)
    BY <1>1, <2>2 DEF PagesHeldOnce
  <2>7. [T EXCEPT ![r] = out.table] = T
    BY <1>1, <2>1
  <2>8. Sound(out.pool, [T EXCEPT ![r] = out.table], R)
    BY <1>1, <2>4, <2>5, <2>6, <2>7 DEF Sound
  <2>9. ~(n <= Len(t))
    BY <1>2, <1>4
  <2> QED BY <1>2, <2>1, <2>8, <2>9
<1>5. CASE n - Len(t) <= Len(free) /\ n - Len(t) > 0
  <2> DEFINE k == n - Len(t)
  <2>1. /\ k \in 0 .. Len(free)
        /\ out.table = Transferred(free, t, k) /\ out.ok = TRUE
        /\ out.pool = AllocatePages(pool, k)
    BY <1>2, <1>5 DEF ResizePageAllocation
  <2>2. Len(t) + k = n /\ ~(n <= Len(t))
    BY <1>2, <1>5
  <2> HIDE DEF k
  <2>3. Sound(out.pool, [T EXCEPT ![r] = out.table], R)
    BY <2>1, AllocateSound
  <2>4. /\ out.table \in Seq(Pages) /\ Len(out.table) = Len(t) + k
        /\ \A i \in 1 .. Len(t) : out.table[i] = t[i]
    <3>1. free \in Seq(Pages) /\ t \in Seq(Pages)
      BY <1>1
    <3> HIDE DEF free, t
    <3> QED BY <2>1, <3>1, TransferredProperties
  <2> QED BY <2>1, <2>2, <2>3, <2>4
<1>6. CASE n - Len(t) <= 0
  <2> DEFINE k == -(n - Len(t))
  <2>1. /\ k \in 0 .. Len(t)
        /\ out.table = Dropped(t, k) /\ out.ok = TRUE
        /\ out.pool = ReleasePages(pool, t, k)
    BY <1>2, <1>6 DEF ResizePageAllocation
  <2>2. Len(t) - k = n
    BY <1>2
  <2> HIDE DEF k
  <2>3. Sound(out.pool, [T EXCEPT ![r] = out.table], R)
    BY <2>1, ReleaseSound
  <2>4. /\ out.table \in Seq(Pages) /\ Len(out.table) = Len(t) - k
        /\ \A i \in 1 .. Len(t) - k : out.table[i] = t[i]
    BY SMTT(40), <1>2, <2>1, DroppedProperties
  <2>5. \A i \in 1 .. Len(t) : i <= n => out.table[i] = t[i]
    BY <2>2, <2>4
  <2> QED BY <2>1, <2>2, <2>3, <2>4, <2>5
<1>7. (n - Len(t) > Len(free)) \/ (n - Len(t) <= Len(free) /\ n - Len(t) > 0)
      \/ n - Len(t) <= 0
  <2>1. Len(free) \in Int /\ Len(t) \in Int
    BY <1>2
  <2> HIDE DEF t, free
  <2> QED BY <2>1
<1> QED BY <1>4, <1>5, <1>6, <1>7

\* ~KVCacheState gives back every page of its table.
LEMMA DestroyedSound ==
  ASSUME NEW R, NEW pool, NEW T, Sound(pool, T, R), NEW r \in R,
         NEW state, state.table = T[r]
  PROVE  Sound(Destroyed(pool, state), [T EXCEPT ![r] = <<>>], R)
<1> DEFINE t    == T[r]
           free == pool.free
           new  == Destroyed(pool, state)
           U    == [T EXCEPT ![r] = <<>>]
<1>1. /\ pool \in PoolType /\ T \in [R -> Seq(Pages)] /\ free \in Seq(Pages)
      /\ PagesHeldOnce(pool, T) /\ CountsBalance(pool)
  BY DEF Sound, PoolType
<1>2. t \in Seq(Pages) /\ Len(free) \in Nat /\ Len(t) \in Nat
  BY <1>1
<1>3. /\ pool.allocations \in Nat /\ pool.releases \in Nat /\ pool.peak \in Nat
      /\ pool.allocated \subseteq Pages /\ PoolPages \in Nat
  BY <1>1, PagedKVAssumption DEF PoolType
<1>4. /\ new.free = free \o t
      /\ new.allocated = pool.allocated \ Elems(t)
      /\ new.allocations = pool.allocations
      /\ new.releases = pool.releases + Len(t)
      /\ new.peak = pool.peak
      /\ new \in PoolType
  <2>1. Elems(t) = {t[i] : i \in DOMAIN t}
    BY <1>2 DEF Elems
  <2>2. free \o t \in Seq(Pages)
    BY <1>1, <1>2
  <2>3. new \in [free : {free \o t}, allocated : {pool.allocated \ Elems(t)},
                allocations : {pool.allocations},
                releases : {pool.releases + Len(t)}, peak : {pool.peak}]
    BY <1>1, <2>1 DEF Destroyed, PoolType
  <2> HIDE DEF new
  <2>4. new \in PoolType
    <3> DEFINE joined == free \o t
               count  == Len(t)
    <3>1. joined \in Seq(Pages) /\ count \in Nat
      BY <1>2, <2>2
    <3>2. /\ new = [free |-> new.free, allocated |-> new.allocated,
                   allocations |-> new.allocations,
                   releases |-> new.releases, peak |-> new.peak]
          /\ new.free = joined /\ new.allocated = pool.allocated \ Elems(t)
          /\ new.allocations = pool.allocations
          /\ new.releases = pool.releases + count
          /\ new.peak = pool.peak
      BY <2>3
    <3> HIDE DEF joined, count
    <3>3. new.releases \in Nat /\ new.allocated \subseteq Pages
      BY <1>3, <3>1, <3>2
    <3> QED BY <1>3, <3>1, <3>2, <3>3 DEF PoolType
  <2> QED BY <2>3, <2>4
<1>5. U \in [R -> Seq(Pages)]
  BY <1>1
<1>6. Len(new.free) = Len(free) + Len(t) /\ Elems(new.free) = Elems(free) \cup Elems(t)
  BY <1>1, <1>2, <1>4, AppendedElems
<1> HIDE DEF new
<1>7. CountsBalance(new)
  <2>1. UsedPages(new) = UsedPages(pool) - Len(t) /\ UsedPages(pool) \in Int
    BY <1>2, <1>3, <1>4, <1>6 DEF UsedPages
  <2> QED BY <1>1, <1>2, <1>3, <1>4, <2>1 DEF CountsBalance
<1>8. PagesHeldOnce(new, U)
  <2>1. PICK f : f \notin R
    BY NoSetContainsEverything
  <2> DEFINE S == Stacks(free, T, R, f)
             W == [S EXCEPT ![r] = <<>>, ![f] = S[f] \o S[r]]
  <2>2. /\ S \in [R \cup {f} -> Seq(Pages)]
        /\ Partitioned(S, R \cup {f}, Pages) /\ Flags(pool)
    BY <1>1, <2>1, HeldOnceIsPartition
  <2>3. S[f] = free /\ S[r] = t /\ f # r
    BY <2>1 DEF Stacks
  <2>4. Partitioned(W, R \cup {f}, Pages)
    <3>1. f \in R \cup {f} /\ r \in R \cup {f}
      OBVIOUS
    <3> HIDE DEF S
    <3> QED BY <2>2, <2>3, <3>1, AppendKeepsPartition
  <2>5. W = Stacks(new.free, U, R, f)
    BY <1>1, <1>4, <2>1, <2>3 DEF Stacks
  <2>6. Flags(new)
    BY <1>4, <1>6, <2>2 DEF Flags
  <2> HIDE DEF W, U
  <2> QED BY <1>4, <1>5, <2>1, <2>4, <2>5, <2>6, HeldOnceIsPartition
<1> QED BY <1>4, <1>5, <1>7, <1>8 DEF Sound, new

----------------------------------------------------------------------------
\* Quotient and remainder by the page size, for the solver.
LEMMA Division ==
  ASSUME NEW d \in Nat \ {0}, NEW p \in Nat
  PROVE  /\ p \div d \in Nat
         /\ p % d \in 0 .. d - 1
         /\ p = d * (p \div d) + (p % d)
OBVIOUS

\* A page number and an offset determine a position.
LEMMA DivisionInjective ==
  ASSUME NEW d \in Nat \ {0}, NEW p \in Nat, NEW q \in Nat,
         p \div d = q \div d, p % d = q % d
  PROVE  p = q
BY Division

\* An allocated token position has a page when the table covers the length.
LEMMA CoveredIsMapped ==
  ASSUME NEW t \in Seq(Pages), NEW n \in Nat, Len(t) >= PagesFor(n), NEW q \in 0 .. n - 1
  PROVE  Mapped(t, q) /\ SlotOf(t, q) \in Slots /\ q \div PageSize + 1 \in 1 .. Len(t)
<1>1. PageSize \in Nat \ {0} /\ Len(t) \in Nat
  BY PagedKVAssumption
<1>2. q \div PageSize < PagesFor(n) /\ q \div PageSize \in Nat
  BY <1>1 DEF PagesFor
<1>3. q % PageSize \in 0 .. PageSize - 1
  BY <1>1
<1>4. PagesFor(n) \in Nat
  BY <1>1 DEF PagesFor
<1>5. q \div PageSize + 1 \in 1 .. Len(t)
  BY <1>1, <1>2, <1>4
<1> QED BY <1>1, <1>2, <1>3, <1>4, <1>5 DEF Mapped, SlotOf, Slots

\* Two positions, of one request or of two, never share a slot.
LEMMA SlotsDistinct ==
  ASSUME NEW R, NEW pool, NEW T, Sound(pool, T, R), NEW a \in R, NEW b \in R,
         NEW p \in Nat, NEW q \in Nat, Mapped(T[a], p), Mapped(T[b], q),
         SlotOf(T[a], p) = SlotOf(T[b], q)
  PROVE  a = b /\ p = q
<1>1. PageSize \in Nat \ {0} /\ T \in [R -> Seq(Pages)]
  BY PagedKVAssumption DEF Sound
<1>2. Len(T[a]) \in Nat /\ Len(T[b]) \in Nat
  BY <1>1
<1>3. p \div PageSize \in Nat /\ q \div PageSize \in Nat
  BY <1>1, Division
<1>4. /\ p \div PageSize + 1 \in 1 .. Len(T[a])
      /\ q \div PageSize + 1 \in 1 .. Len(T[b])
  BY <1>2, <1>3 DEF Mapped
<1>5. /\ T[a][p \div PageSize + 1] = T[b][q \div PageSize + 1]
      /\ p % PageSize = q % PageSize
  BY DEF SlotOf
<1>6. a = b /\ p \div PageSize + 1 = q \div PageSize + 1
  BY <1>1, <1>4, <1>5 DEF Sound, PagesHeldOnce
<1>7. p \div PageSize = q \div PageSize
  BY <1>3, <1>6
<1> QED BY <1>1, <1>5, <1>6, <1>7, DivisionInjective

----------------------------------------------------------------------------
StateType ==
  [table : Seq(Pages), length : 0 .. Capacity,
   devTable : Seq(Pages), devLength : 0 .. Capacity]

\* A new pool is sound, with every page free, before any request has a table.
LEMMA NewPoolSound ==
  ASSUME NEW R
  PROVE  /\ Sound(NewPool, [r \in R |-> <<>>], R)
         /\ Len(NewPool.free) = PoolPages
         /\ NewState \in StateType
<1>1. PoolPages \in Nat /\ PoolPages > 0 /\ Capacity \in Nat /\ Capacity > 0
  BY PagedKVAssumption
<1>2. /\ NewPool.free \in Seq(Pages) /\ Len(NewPool.free) = PoolPages
      /\ \A i \in 1 .. PoolPages : NewPool.free[i] = i - 1
  BY <1>1 DEF NewPool, Pages
<1>3. NewPool \in PoolType
  BY <1>2 DEF NewPool, PoolType
<1>4. NewState \in StateType
  BY <1>1 DEF NewState, StateType
<1>5. CountsBalance(NewPool)
  BY <1>1, <1>2 DEF CountsBalance, UsedPages, NewPool
<1>6. PagesHeldOnce(NewPool, [r \in R |-> <<>>])
  <2>1. \A p \in Pages : p + 1 \in 1 .. PoolPages /\ NewPool.free[p + 1] = p
    BY <1>1, <1>2 DEF Pages
  <2>2. NewPool.allocated = {}
    BY DEF NewPool
  <2>3. \A p \in Pages : \E j \in 1 .. Len(NewPool.free) : NewPool.free[j] = p
    BY <1>2, <2>1
  <2>4. \A i, j \in 1 .. Len(NewPool.free) : NewPool.free[i] = NewPool.free[j] => i = j
    BY <1>1, <1>2
  <2>5. NewPool.allocated = Pages \ {NewPool.free[j] : j \in 1 .. Len(NewPool.free)}
    BY <2>2, <2>3
  <2> DEFINE T == [r \in R |-> <<>>]
  <2>6. DOMAIN T = R /\ \A a \in R : T[a] = <<>> /\ 1 .. Len(T[a]) = {}
    OBVIOUS
  <2> HIDE DEF T
  <2> QED BY <2>3, <2>4, <2>5, <2>6 DEF PagesHeldOnce
<1>7. [r \in R |-> <<>>] \in [R -> Seq(Pages)]
  OBVIOUS
<1> QED BY <1>2, <1>3, <1>4, <1>5, <1>6, <1>7 DEF Sound

\* A longer prefix never needs fewer pages.
LEMMA PagesForIsMonotone ==
  ASSUME NEW m \in Nat, NEW n \in Nat
  PROVE  /\ PagesFor(m) \in Nat
         /\ m <= n => PagesFor(m) <= PagesFor(n)
         /\ PagesFor(0) = 0
<1>1. PageSize \in Nat \ {0}
  BY PagedKVAssumption
<1>2. PagesFor(m) \in Nat
  BY <1>1, Division DEF PagesFor
<1>3. m <= n => PagesFor(m) <= PagesFor(n)
  BY <1>1 DEF PagesFor
<1>4. PagesFor(0) = 0
  BY <1>1 DEF PagesFor
<1> QED BY <1>2, <1>3, <1>4

\* stageLength, with any of its device writes failing: the request ends with
\* the pages of the new length and a device that has them, or with the pages
\* it had; the pages it had stay at their places.
LEMMA StageSound ==
  ASSUME NEW R, NEW pool, NEW T, Sound(pool, T, R), NEW r \in R,
         NEW state \in StateType, state.table = T[r],
         Len(T[r]) = PagesFor(state.length),
         NEW n \in Nat, n > state.length, NEW faults,
         NEW out, out = StageLength(pool, state, n, faults)
  PROVE  /\ Sound(out.pool, [T EXCEPT ![r] = out.state.table], R)
         /\ out.state \in StateType
         /\ out.ok \in BOOLEAN
         /\ out.state.length = state.length
         /\ out.ok => /\ n <= Capacity
                      /\ Len(out.state.table) = PagesFor(n)
                      /\ out.state.devTable = out.state.table
                      /\ out.state.devLength = n
         /\ ~out.ok => Len(out.state.table) = PagesFor(state.length)
         /\ \A i \in 1 .. Len(T[r]) : out.state.table[i] = T[r][i]
<1> DEFINE grown  == ResizePageAllocation(pool, T[r], PagesFor(n))
           undone == ResizePageAllocation(grown.pool, grown.table, Len(T[r]))
           seen   == IF "table" \in faults THEN state.devTable
                     ELSE IF "rewrite" \in faults THEN grown.table
                     ELSE undone.table
           U      == [T EXCEPT ![r] = grown.table]
<1>1. T \in [R -> Seq(Pages)] /\ T[r] \in Seq(Pages) /\ Len(T[r]) \in Nat
  BY DEF Sound
<1>2. /\ PagesFor(n) \in Nat /\ PagesFor(n) >= Len(T[r])
      /\ state.length \in 0 .. Capacity /\ Capacity \in Nat
  <2>1. state.length \in 0 .. Capacity /\ Capacity \in Nat
    BY PagedKVAssumption DEF StateType
  <2>2. state.length \in Nat /\ state.length <= n
    BY <2>1
  <2> QED BY <2>1, <2>2, PagesForIsMonotone
<1>3. /\ Sound(grown.pool, U, R)
      /\ grown.ok \in BOOLEAN
      /\ grown.table \in Seq(Pages)
      /\ grown.ok => Len(grown.table) = PagesFor(n)
      /\ ~grown.ok => grown.table = T[r]
      /\ \A i \in 1 .. Len(T[r]) : grown.table[i] = T[r][i]
  <2>1. \A i \in 1 .. Len(T[r]) : i <= PagesFor(n)
    BY <1>1, <1>2
  <2> HIDE DEF grown
  <2>2. grown = ResizePageAllocation(pool, T[r], PagesFor(n))
    BY DEF grown
  <2> QED BY <1>2, <2>1, <2>2, ResizeSound DEF U
<1>4. /\ Sound(undone.pool, [T EXCEPT ![r] = undone.table], R)
      /\ undone.table \in Seq(Pages)
      /\ Len(undone.table) = Len(T[r])
      /\ \A i \in 1 .. Len(T[r]) : undone.table[i] = T[r][i]
  <2>1. /\ U[r] = grown.table
        /\ [U EXCEPT ![r] = undone.table] = [T EXCEPT ![r] = undone.table]
    BY <1>1
  <2>2. Len(T[r]) <= Len(grown.table)
    BY <1>1, <1>2, <1>3
  <2>3. undone = ResizePageAllocation(grown.pool, U[r], Len(T[r]))
    BY <2>1
  <2> HIDE DEF undone, U, grown
  <2>4. /\ Sound(undone.pool, [U EXCEPT ![r] = undone.table], R)
        /\ undone.table \in Seq(Pages)
        /\ undone.ok => Len(undone.table) = Len(T[r])
        /\ Len(T[r]) <= Len(U[r]) => undone.ok
        /\ \A i \in 1 .. Len(U[r]) : i <= Len(T[r]) => undone.table[i] = U[r][i]
    BY <1>1, <1>3, <2>3, ResizeSound
  <2>5. ASSUME NEW i \in 1 .. Len(T[r])  PROVE  undone.table[i] = T[r][i]
    <3>1. Len(grown.table) \in Nat
      BY <1>3
    <3>2. i \in 1 .. Len(U[r]) /\ i <= Len(T[r])
      BY <1>1, <2>1, <2>2, <3>1
    <3> QED BY <1>3, <2>1, <2>4, <3>2
  <2> QED BY <2>1, <2>2, <2>4, <2>5
<1>5. state.devTable \in Seq(Pages) /\ seen \in Seq(Pages)
  BY <1>3, <1>4 DEF StateType
<1> HIDE DEF grown, undone, seen, U
<1>6. CASE n = 0 \/ n > Capacity \/ ~grown.ok
  <2>1. out.state = state /\ out.ok = FALSE
        /\ (out.pool = pool \/ (out.pool = grown.pool /\ grown.table = T[r]))
    BY <1>3, <1>6 DEF StageLength, Outcome, grown
  <2>2. [T EXCEPT ![r] = out.state.table] = T
    BY <1>1, <2>1
  <2>3. grown.table = T[r] => U = T
    BY <1>1 DEF U
  <2> QED BY <1>1, <1>3, <2>1, <2>2, <2>3
<1>7. CASE n # 0 /\ n <= Capacity /\ grown.ok /\ faults \cap {"table", "length"} # {}
  <2>1. /\ out.pool = undone.pool /\ out.ok = FALSE
        /\ out.state = [state EXCEPT !.table = undone.table, !.devTable = seen]
    <3>1. ~(n = 0 \/ n > Capacity)
      BY <1>2, <1>7
    <3>2. out = Outcome(undone.pool,
                       [state EXCEPT !.table = undone.table, !.devTable = seen],
                       FALSE)
      BY <1>7, <3>1, Zenon DEF StageLength, grown, undone, seen
    <3> QED BY <3>2 DEF Outcome
  <2>2. /\ out.state \in StateType /\ out.state.table = undone.table
        /\ out.state.length = state.length
    BY <1>4, <1>5, <2>1 DEF StateType
  <2> QED BY <1>4, <2>1, <2>2
<1>8. CASE n # 0 /\ n <= Capacity /\ grown.ok /\ faults \cap {"table", "length"} = {}
  <2>1. /\ out.pool = grown.pool /\ out.ok = TRUE
        /\ out.state = [state EXCEPT !.table = grown.table,
                                    !.devTable = grown.table, !.devLength = n]
    BY <1>2, <1>8 DEF StageLength, Outcome, grown
  <2>2. n \in 0 .. Capacity
    BY <1>2, <1>8
  <2>3. /\ out.state \in StateType /\ out.state.table = grown.table
        /\ out.state.length = state.length
        /\ out.state.devTable = grown.table /\ out.state.devLength = n
    BY <1>3, <2>1, <2>2 DEF StateType
  <2> QED BY <1>3, <1>8, <2>1, <2>3 DEF U
<1> QED BY <1>2, <1>3, <1>6, <1>7, <1>8

\* rollbackLength to a length whose pages the table holds: always succeeds on
\* the host side, whichever device write fails.
LEMMA RollbackSound ==
  ASSUME NEW R, NEW pool, NEW T, Sound(pool, T, R), NEW r \in R,
         NEW state \in StateType, state.table = T[r],
         NEW n \in 0 .. Capacity, PagesFor(n) <= Len(T[r]), NEW faults,
         NEW out, out = RollbackLength(pool, state, n, faults)
  PROVE  /\ Sound(out.pool, [T EXCEPT ![r] = out.state.table], R)
         /\ out.state \in StateType
         /\ out.state.length = state.length
         /\ Len(out.state.table) = PagesFor(n)
         /\ \A i \in 1 .. Len(T[r]) : i <= PagesFor(n) => out.state.table[i] = T[r][i]
<1> DEFINE resized == ResizePageAllocation(pool, T[r], PagesFor(n))
           tabled  == [state EXCEPT !.table = resized.table, !.devTable = resized.table]
<1>1. n \in Nat /\ n <= Capacity /\ ~(n > Capacity) /\ PagesFor(n) \in Nat
  BY PagedKVAssumption, PagesForIsMonotone
<1>2. /\ Sound(resized.pool, [T EXCEPT ![r] = resized.table], R)
      /\ resized.table \in Seq(Pages)
      /\ resized.ok
      /\ Len(resized.table) = PagesFor(n)
      /\ \A i \in 1 .. Len(T[r]) : i <= PagesFor(n) => resized.table[i] = T[r][i]
  <2> HIDE DEF resized
  <2>1. resized = ResizePageAllocation(pool, T[r], PagesFor(n))
    BY DEF resized
  <2> QED BY <1>1, <2>1, ResizeSound
<1> HIDE DEF resized
<1>3. /\ out.pool = resized.pool
      /\ out.state \in {[state EXCEPT !.table = resized.table], tabled,
                        [tabled EXCEPT !.devLength = n]}
  BY <1>1, <1>2 DEF RollbackLength, Outcome, resized
<1>4. /\ out.state \in StateType /\ out.state.table = resized.table
      /\ out.state.length = state.length
  BY <1>2, <1>3 DEF StateType
<1> QED BY <1>2, <1>3, <1>4

\* reset: it succeeds, or keeps everything, or has released the pages.
LEMMA ResetSound ==
  ASSUME NEW R, NEW pool, NEW T, Sound(pool, T, R), NEW r \in R,
         NEW state \in StateType, state.table = T[r], NEW faults,
         NEW out, out = Reset(pool, state, faults)
  PROVE  /\ Sound(out.pool, [T EXCEPT ![r] = out.state.table], R)
         /\ out.state \in StateType
         /\ out.ok \in BOOLEAN
         /\ out.ok => out.state = NewState
         /\ ~out.ok => /\ out.state.length = state.length
                       /\ out.state.table \in {T[r], <<>>}
<1> DEFINE emptied == ResizePageAllocation(pool, T[r], 0)
<1>1. T \in [R -> Seq(Pages)] /\ T[r] \in Seq(Pages) /\ 0 <= Len(T[r])
  BY DEF Sound
<1>2. Sound(emptied.pool, [T EXCEPT ![r] = <<>>], R) /\ emptied.table = <<>>
  <2> HIDE DEF emptied
  <2>1. emptied = ResizePageAllocation(pool, T[r], 0)
    BY DEF emptied
  <2>2. /\ Sound(emptied.pool, [T EXCEPT ![r] = emptied.table], R)
        /\ emptied.table \in Seq(Pages) /\ Len(emptied.table) = 0
    <3>1. 0 \in Nat
      OBVIOUS
    <3>2. /\ Sound(emptied.pool, [T EXCEPT ![r] = emptied.table], R)
          /\ emptied.table \in Seq(Pages)
          /\ emptied.ok => Len(emptied.table) = 0
          /\ 0 <= Len(T[r]) => emptied.ok
      BY <2>1, <3>1, ResizeSound
    <3> QED BY <1>1, <3>2
  <2>3. emptied.table = <<>>
    BY <2>2
  <2> QED BY <2>2, <2>3
<1> HIDE DEF emptied
<1>3. CASE "length" \in faults
  <2>1. out.pool = pool /\ out.state = state /\ out.ok = FALSE
    BY <1>3 DEF Reset, Outcome
  <2>2. [T EXCEPT ![r] = out.state.table] = T
    BY <1>1, <2>1
  <2> QED BY <2>1, <2>2
<1>4. CASE "length" \notin faults /\ "table" \in faults
  <2>1. /\ out.pool = emptied.pool /\ out.ok = FALSE
        /\ out.state = [state EXCEPT !.table = <<>>, !.devLength = 0]
    BY <1>2, <1>4 DEF Reset, Outcome, emptied
  <2>2. 0 \in 0 .. Capacity /\ <<>> \in Seq(Pages)
    BY PagedKVAssumption
  <2>3. /\ out.state \in StateType /\ out.state.table = <<>>
        /\ out.state.length = state.length
    BY <2>1, <2>2 DEF StateType
  <2> QED BY <1>2, <2>1, <2>3
<1>5. CASE "length" \notin faults /\ "table" \notin faults
  <2>1. out.pool = emptied.pool /\ out.ok = TRUE /\ out.state = NewState
    BY <1>5 DEF Reset, Outcome, emptied
  <2>2. NewState \in StateType /\ NewState.table = <<>>
    BY PagedKVAssumption DEF NewState, StateType
  <2> QED BY <1>2, <2>1, <2>2
<1> QED BY <1>3, <1>4, <1>5

\* restore into an empty cache: it holds the whole prefix, or is empty again.
LEMMA RestoreSound ==
  ASSUME NEW R, NEW pool, NEW T, Sound(pool, T, R), NEW r \in R,
         NEW state \in StateType, state.table = T[r], state.length = 0,
         Len(T[r]) = PagesFor(0), NEW n \in Nat, n > 0, n <= Capacity, NEW faults, NEW undoFaults,
         NEW out, out = Restore(pool, state, n, faults, undoFaults)
  PROVE  /\ Sound(out.pool, [T EXCEPT ![r] = out.state.table], R)
         /\ out.state \in StateType
         /\ out.ok \in BOOLEAN
         /\ out.ok => /\ StageLength(pool, state, n, faults).ok
                      /\ out.state.length = n
                      /\ out.state.table = StageLength(pool, state, n, faults).state.table
                      /\ Len(out.state.table) = PagesFor(n)
         /\ ~out.ok => /\ out.state.length = 0
                       /\ Len(out.state.table) = PagesFor(0)
<1> DEFINE staged == StageLength(pool, state, n, faults)
<1> HIDE DEF staged
<1> DEFINE rolled == RollbackLength(staged.pool, staged.state, 0, undoFaults)
           U      == [T EXCEPT ![r] = staged.state.table]
<1>1. /\ T \in [R -> Seq(Pages)]
      /\ n \in Nat /\ n > 0 /\ n <= Capacity /\ Capacity \in Nat
      /\ Len(T[r]) = PagesFor(0)
  BY PagedKVAssumption, PagesForIsMonotone DEF Sound
<1>2. /\ Sound(staged.pool, U, R)
      /\ staged.state \in StateType
      /\ staged.ok \in BOOLEAN
      /\ staged.state.length = 0
      /\ staged.ok => Len(staged.state.table) = PagesFor(n)
  <2>1. Len(T[r]) = PagesFor(state.length) /\ n > state.length
    BY <1>1
  <2>2. /\ Sound(staged.pool, U, R)
        /\ staged.state \in StateType
        /\ staged.ok \in BOOLEAN
        /\ staged.state.length = state.length
        /\ staged.ok => Len(staged.state.table) = PagesFor(n)
    <3>1. n \in Nat
      BY <1>1
    <3> HIDE DEF U
    <3>2. /\ Sound(staged.pool, [T EXCEPT ![r] = staged.state.table], R)
          /\ staged.state \in StateType
          /\ staged.ok \in BOOLEAN
          /\ staged.state.length = state.length
          /\ staged.ok => /\ n <= Capacity
                          /\ Len(staged.state.table) = PagesFor(n)
                          /\ staged.state.devTable = staged.state.table
                          /\ staged.state.devLength = n
      BY <2>1, <3>1, StageSound DEF staged
    <3> QED BY <3>2 DEF U
  <2> QED BY <2>2
<1>3. /\ Sound(rolled.pool, [T EXCEPT ![r] = rolled.state.table], R)
      /\ rolled.state \in StateType
      /\ rolled.state.length = 0
      /\ Len(rolled.state.table) = PagesFor(0)
  <2>1. /\ U[r] = staged.state.table
        /\ \A x : [U EXCEPT ![r] = x] = [T EXCEPT ![r] = x]
    BY <1>1
  <2>2. PagesFor(0) <= Len(U[r])
    BY SMTT(40), <1>1, <1>2, <2>1, PagesForIsMonotone DEF StateType
  <2>3. 0 \in 0 .. Capacity
    BY <1>1
  <2> HIDE DEF U, rolled
  <2>4. rolled = RollbackLength(staged.pool, staged.state, 0, undoFaults)
    BY DEF rolled
  <2>5. /\ Sound(rolled.pool, [U EXCEPT ![r] = rolled.state.table], R)
        /\ rolled.state \in StateType
        /\ rolled.state.length = staged.state.length
        /\ Len(rolled.state.table) = PagesFor(0)
    BY <1>2, <2>1, <2>2, <2>3, <2>4, RollbackSound
  <2> QED BY <1>2, <2>1, <2>5
<1> HIDE DEF rolled, U
<1>4. ~(state.length # 0 \/ n = 0 \/ n > Capacity)
  BY <1>1
<1>5. CASE staged.ok /\ "prefix" \notin faults
  <2>1. out = Outcome(staged.pool, CommitLength(staged.state, n), TRUE)
    BY <1>4, <1>5, Zenon DEF Restore, staged
  <2>2. /\ out.pool = staged.pool /\ out.ok = TRUE
        /\ out.state = [staged.state EXCEPT !.length = n]
    BY <2>1 DEF Outcome, CommitLength
  <2>3. /\ out.state \in StateType /\ out.state.length = n
        /\ out.state.table = staged.state.table
    <3>1. n \in 0 .. Capacity
      BY <1>1
    <3> QED BY <1>2, <2>2, <3>1 DEF StateType
  <2> QED BY <1>2, <1>5, <2>2, <2>3 DEF U, staged
<1>6. CASE ~(staged.ok /\ "prefix" \notin faults)
  <2>1. out = Outcome(rolled.pool, rolled.state, FALSE)
    BY <1>4, <1>6, Zenon DEF Restore, rolled, staged
  <2>2. out.pool = rolled.pool /\ out.ok = FALSE /\ out.state = rolled.state
    BY <2>1 DEF Outcome
  <2> QED BY <1>2, <1>3, <2>2 DEF U
<1> QED BY <1>5, <1>6

----------------------------------------------------------------------------
(* How the operations count when no device write fails.                    *)

\* The state of r, one of those that share the pool.
Holder(pool, T, R, r, state) ==
  Sound(pool, T, R) /\ r \in R /\ state \in StateType /\ state.table = T[r]

\* What a call that wants more pages does to the counts of a pool.
Took(pool, out, missing) ==
  /\ missing \in Nat
  /\ out.ok <=> missing <= Len(pool.free)
  /\ out.ok => /\ Len(out.pool.free) = Len(pool.free) - missing
               /\ out.pool.allocations = pool.allocations + missing
               /\ out.pool.releases = pool.releases

\* What a call that gives back all the pages it held does.
GaveBack(pool, out, held) ==
  /\ out.ok /\ out.state = NewState
  /\ Len(out.pool.free) = Len(pool.free) + held
  /\ out.pool.allocations = pool.allocations
  /\ out.pool.releases = pool.releases + held

\* stageLength of a length the table does not exceed succeeds when the free
\* list has the pages that are missing, and takes as many as are missing.
LEMMA StageCounts ==
  ASSUME NEW R, NEW pool, NEW T, NEW r, NEW state, Holder(pool, T, R, r, state),
         NEW n \in 1 .. Capacity, Len(T[r]) <= PagesFor(n),
         NEW out, out = StageLength(pool, state, n, {})
  PROVE  Took(pool, out, PagesFor(n) - Len(T[r]))
<1>0. Sound(pool, T, R) /\ r \in R /\ state \in StateType /\ state.table = T[r]
  BY DEF Holder
<1> DEFINE t       == T[r]
           missing == PagesFor(n) - Len(t)
           grown   == ResizePageAllocation(pool, t, PagesFor(n))
<1>1. /\ pool.free \in Seq(Pages) /\ t \in Seq(Pages)
      /\ pool.releases \in Nat /\ pool.allocations \in Nat
      /\ Capacity \in Nat /\ n \in Nat
  BY <1>0, PagedKVAssumption DEF Sound, PoolType
<1>2. /\ PagesFor(n) \in Nat /\ Len(t) \in Nat /\ missing \in Nat
      /\ Len(pool.free) \in Nat
  <2>1. PagesFor(n) \in Nat
    BY <1>1, PagesForIsMonotone
  <2> QED BY <1>1, <2>1
<1>3. /\ grown.ok <=> missing <= Len(pool.free)
      /\ grown.ok => /\ Len(grown.pool.free) = Len(pool.free) - missing
                     /\ grown.pool.allocations = pool.allocations + missing
                     /\ grown.pool.releases = pool.releases
  <2>1. CASE missing > Len(pool.free)
    BY <1>2, <2>1 DEF ResizePageAllocation
  <2>2. CASE missing > 0 /\ ~(missing > Len(pool.free))
    <3>1. grown.ok = TRUE /\ grown.pool = AllocatePages(pool, missing)
      BY <1>2, <2>2 DEF ResizePageAllocation
    <3>2. Len(Dropped(pool.free, missing)) = Len(pool.free) - missing
      <4>1. missing \in 0 .. Len(pool.free)
        BY <1>2, <2>2
      <4> HIDE DEF missing
      <4> QED BY <1>1, <4>1, DroppedProperties
    <3> QED BY <1>2, <2>2, <3>1, <3>2 DEF AllocatePages
  <2>3. CASE missing = 0
    <3>1. grown.ok = TRUE /\ grown.pool = ReleasePages(pool, t, -missing)
      BY <1>2, <2>3 DEF ResizePageAllocation
    <3>2. Len(Transferred(t, pool.free, 0)) = Len(pool.free)
      <4>1. 0 \in 0 .. Len(t)
        BY <1>2
      <4> HIDE DEF t
      <4> QED BY <1>1, <1>2, <4>1, TransferredProperties
    <3>3. -missing = 0
      BY <2>3
    <3> HIDE DEF missing
    <3> QED BY <1>0, <1>1, <1>2, <2>3, <3>1, <3>2, <3>3 DEF ReleasePages, PoolType, Sound
  <2> QED BY <1>2, <2>1, <2>2, <2>3
<1>4. ~(n = 0 \/ n > Capacity)
  BY <1>1
<1>5. /\ out.ok = grown.ok
      /\ out.ok => out.pool = grown.pool
  <2> HIDE DEF grown
  <2>1. grown = ResizePageAllocation(pool, state.table, PagesFor(n))
    BY <1>0 DEF grown
  <2>2. grown.ok \in BOOLEAN
    <3>1. grown = ResizePageAllocation(pool, T[r], PagesFor(n))
      BY <1>0, <2>1
    <3> QED BY <1>0, <1>2, <3>1, ResizeSound
  <2>3. {} \cap {"table", "length"} = {}
    OBVIOUS
  <2>4. CASE grown.ok
    BY <1>4, <2>1, <2>3, <2>4 DEF StageLength, Outcome
  <2>5. CASE ~grown.ok
    BY <1>4, <2>1, <2>2, <2>5 DEF StageLength, Outcome
  <2> QED BY <2>4, <2>5
<1> HIDE DEF grown, missing
<1>6. Took(pool, out, missing)
  BY <1>2, <1>3, <1>5 DEF Took
<1> QED BY <1>6 DEF missing

\* reset gives back every page of the table.
LEMMA ResetCounts ==
  ASSUME NEW R, NEW pool, NEW T, NEW r, NEW state, Holder(pool, T, R, r, state),
         NEW out, out = Reset(pool, state, {})
  PROVE  GaveBack(pool, out, Len(T[r]))
<1>0. Sound(pool, T, R) /\ r \in R /\ state \in StateType /\ state.table = T[r]
  BY DEF Holder
<1> DEFINE t     == T[r]
           grown == ResizePageAllocation(pool, t, 0)
<1>1. /\ pool.free \in Seq(Pages) /\ t \in Seq(Pages) /\ pool \in PoolType
  BY <1>0 DEF Sound, PoolType
<1>2. Len(t) \in Nat /\ Len(pool.free) \in Nat
  BY <1>1
<1>3. grown.pool = ReleasePages(pool, t, Len(t))
  BY <1>2 DEF ResizePageAllocation
<1>4. Len(Transferred(t, pool.free, Len(t))) = Len(pool.free) + Len(t)
  <2> DEFINE k == Len(t)
  <2>1. k \in 0 .. Len(t)
    BY <1>2
  <2> HIDE DEF k, t
  <2>2. Len(Transferred(t, pool.free, k)) = Len(pool.free) + k
    BY ZenonT(60), <1>1, <2>1, TransferredProperties
  <2> QED BY <2>2 DEF k
<1>5. /\ Len(grown.pool.free) = Len(pool.free) + Len(t)
      /\ grown.pool.allocations = pool.allocations
      /\ grown.pool.releases = pool.releases + Len(t)
  BY <1>1, <1>3, <1>4 DEF ReleasePages, PoolType
<1>6. out = Outcome(grown.pool, NewState, TRUE)
  BY <1>0 DEF Reset
<1> HIDE DEF grown
<1>7. out.pool = grown.pool /\ out.ok = TRUE /\ out.state = NewState
  BY <1>6 DEF Outcome
<1> QED BY <1>5, <1>7 DEF GaveBack

\* restore into an empty cache is a stage and a commit.
LEMMA RestoreIsStaged ==
  ASSUME NEW pool, NEW state, state.length = 0, NEW n \in 1 .. Capacity,
         NEW none, none = {}, NEW staged, staged = StageLength(pool, state, n, none),
         staged.ok \in BOOLEAN, NEW out, out = Restore(pool, state, n, none, none)
  PROVE  /\ out.ok = staged.ok
         /\ out.ok => /\ out.pool = staged.pool
                      /\ out.state = CommitLength(staged.state, n)
<1>1. ~(state.length # 0 \/ n = 0 \/ n > Capacity)
  BY PagedKVAssumption
<1>2. CASE staged.ok
  <2>1. out = Outcome(staged.pool, CommitLength(staged.state, n), TRUE)
    BY <1>1, <1>2 DEF Restore
  <2>2. /\ out.ok = TRUE /\ out.pool = staged.pool
        /\ out.state = CommitLength(staged.state, n)
    <3> HIDE DEF CommitLength
    <3> QED BY <2>1 DEF Outcome
  <2>3. staged.ok = TRUE
    BY <1>2
  <2> QED BY <2>2, <2>3
<1>3. CASE ~staged.ok
  <2>1. out.ok = FALSE
    BY <1>1, <1>3 DEF Restore, Outcome
  <2> QED BY <1>3, <2>1
<1> QED BY <1>2, <1>3
=============================================================================
