--------------------------- MODULE SequenceLemmas ---------------------------
(***************************************************************************)
(* What the lists that the generator makes of lists have where: facts      *)
(* about FlattenSeq of the community modules.                              *)
(***************************************************************************)
EXTENDS Integers, Sequences, SequencesExt, TLAPS, WellFoundedInduction, SequenceTheorems


\* A set of numbers that is not empty has a least element.
LEMMA Least ==
  ASSUME NEW S \in SUBSET Nat, S # {}
  PROVE  \E n \in S : \A k \in S : n <= k
<1> DEFINE R == {p \in Nat \X Nat : p[1] < p[2]}
<1>1. IsWellFoundedOn(R, Nat)
  BY NatLessThanWellFounded DEF OpToRel
<1>2. PICK n \in S : \A k \in S : ~(<<k, n>> \in R)
  BY <1>1, WFMin
<1>3. ASSUME NEW k \in S PROVE n <= k
  <2>1. k \in Nat /\ n \in Nat
    OBVIOUS
  <2>2. CASE k < n
    <3>1. <<k, n>> \in R
      BY <2>1, <2>2
    <3> QED
      BY <1>2, <3>1
  <2> QED
    BY <2>1, <2>2
<1> QED
  BY <1>3

\* Induction: what holds of 0 and of n + 1 where it holds of n, here as a set.
LEMMA Induction ==
  ASSUME NEW G, 0 \in G, \A n \in Nat : n \in G => n + 1 \in G
  PROVE  Nat \subseteq G
<1> SUFFICES ASSUME Nat \ G # {} PROVE FALSE
  OBVIOUS
<1>1. PICK n \in Nat \ G : \A k \in Nat \ G : n <= k
  BY Least
<1>2. n # 0 /\ n - 1 \in Nat /\ ~(n <= n - 1)
  BY <1>1
<1>3. n - 1 \in G /\ n = (n - 1) + 1
  BY <1>1, <1>2
<1> QED
  BY <1>1, <1>2, <1>3

\* The pieces that FlattenSeq puts together, up to the n-th.
IsFlattening(f, A) ==
  f = [i \in 1..Len(A) |-> IF i = 1 THEN A[i] ELSE f[i - 1] \o A[i]]

LEMMA FlattenExists ==
  ASSUME NEW A, Len(A) \in Nat
  PROVE  \E f : IsFlattening(f, A)
<1> DEFINE Up(n) == \E f : f = [i \in 1..n |-> IF i = 1 THEN A[i] ELSE f[i - 1] \o A[i]]
           G == {n \in Nat : Up(n)}
<1>1. Up(0)
  <2>1. <<>> = [i \in 1..0 |-> IF i = 1 THEN A[i] ELSE <<>>[i - 1] \o A[i]]
    OBVIOUS
  <2> QED
    BY <2>1
<1>2. ASSUME NEW n \in Nat, Up(n) PROVE Up(n + 1)
  <2>1. PICK f : f = [i \in 1..n |-> IF i = 1 THEN A[i] ELSE f[i - 1] \o A[i]]
    BY <1>2
  <2> DEFINE g == [i \in 1..(n + 1) |-> IF i <= n THEN f[i] ELSE
                                        IF i = 1 THEN A[i] ELSE f[i - 1] \o A[i]]
  <2>2. ASSUME NEW i \in 1..(n + 1) PROVE g[i] = IF i = 1 THEN A[i] ELSE g[i - 1] \o A[i]
    <3>1. CASE i <= n
      <4>1. i \in 1..n /\ (i # 1 => i - 1 \in 1..(n + 1) /\ i - 1 <= n)
        BY <3>1
      <4> QED
        BY <2>1, <3>1, <4>1
    <3>2. CASE i = n + 1
      <4>1. ~(i <= n) /\ (i # 1 => i - 1 \in 1..(n + 1) /\ i - 1 <= n)
        BY <3>2
      <4> QED
        BY <4>1
    <3> QED
      BY <3>1, <3>2
  <2>3. g = [i \in 1..(n + 1) |-> IF i = 1 THEN A[i] ELSE g[i - 1] \o A[i]]
    BY <2>2
  <2> HIDE DEF g
  <2> QED
    BY <2>3
<1> HIDE DEF Up
<1>3. Nat \subseteq G
  <2>1. 0 \in G /\ \A n \in Nat : n \in G => n + 1 \in G
    BY <1>1, <1>2
  <2> QED
    BY <2>1, Induction
<1>4. Up(Len(A))
  BY <1>3
<1> QED
  BY <1>4 DEF Up, IsFlattening

\* f has the joins that FlattenSeq makes on its way, one for each list of A.
JoinsUp(f, A) ==
  /\ FlattenSeq(A) = f[Len(A)]
  /\ f[1] = A[1]
  /\ \A i \in 2..Len(A) : f[i] = f[i - 1] \o A[i]

LEMMA FlattenParts ==
  ASSUME NEW A, Len(A) \in Nat \ {0}
  PROVE  \E f : JoinsUp(f, A)
<1> DEFINE F == CHOOSE f : f = [i \in 1..Len(A) |-> IF i = 1 THEN A[i] ELSE f[i - 1] \o A[i]]
<1>1. F = [i \in 1..Len(A) |-> IF i = 1 THEN A[i] ELSE F[i - 1] \o A[i]]
  BY FlattenExists DEF IsFlattening
<1>2. FlattenSeq(A) = F[Len(A)]
  BY DEF FlattenSeq
<1> HIDE DEF F
<1>3. \A i \in 1..Len(A) : F[i] = IF i = 1 THEN A[i] ELSE F[i - 1] \o A[i]
  BY <1>1
<1>4. 1 \in 1..Len(A) /\ \A i \in 2..Len(A) : i \in 1..Len(A) /\ i # 1
  OBVIOUS
<1>5. F[1] = A[1] /\ \A i \in 2..Len(A) : F[i] = F[i - 1] \o A[i]
  BY <1>3, <1>4
<1> QED
  BY <1>2, <1>5 DEF JoinsUp

\* What c, made of a and x, has where.
LEMMA Joined ==
  ASSUME NEW S, NEW a \in Seq(S), NEW x \in Seq(S), NEW c, c = a \o x
  PROVE  /\ c \in Seq(S) /\ Len(c) = Len(a) + Len(x)
         /\ \A k \in 1..Len(c) :
              \/ k \in 1..Len(a) /\ k <= Len(a) /\ c[k] = a[k]
              \/ k > Len(a) /\ k - Len(a) \in 1..Len(x) /\ c[k] = x[k - Len(a)]
<1>1. /\ c \in Seq(S) /\ Len(c) = Len(a) + Len(x) /\ Len(a) \in Nat /\ Len(x) \in Nat
      /\ \A k \in 1..Len(a) + Len(x) :
           c[k] = IF k <= Len(a) THEN a[k] ELSE x[k - Len(a)]
  BY ConcatProperties, LenProperties
<1> QED
  BY <1>1

\* Two sequences of sequences of the same lengths, put together, go through the
\* same places.
Together(A, B, S, T) ==
  /\ FlattenSeq(A) \in Seq(S) /\ FlattenSeq(B) \in Seq(T)
  /\ Len(FlattenSeq(A)) = Len(FlattenSeq(B))
  /\ \A k \in 1..Len(FlattenSeq(A)) : \E i \in 1..Len(A) : \E j \in 1..Len(A[i]) :
       FlattenSeq(A)[k] = A[i][j] /\ FlattenSeq(B)[k] = B[i][j]

LEMMA FlattenTogether ==
  ASSUME NEW S, NEW T, NEW A \in Seq(Seq(S)), NEW B \in Seq(Seq(T)), Len(A) = Len(B),
         \A i \in 1..Len(A) : Len(A[i]) = Len(B[i])
  PROVE  Together(A, B, S, T)
<1> USE DEF Together
<1>1. CASE Len(A) = 0
  <2>1. FlattenSeq(A) = A /\ FlattenSeq(B) = B
    BY <1>1 DEF FlattenSeq
  <2>2. A = <<>> /\ B = <<>>
    BY <1>1, EmptySeq
  <2>3. /\ <<>> \in Seq(S) /\ <<>> \in Seq(T) /\ Len(<<>>) = 0
    BY EmptySeq
  <2> QED
    BY <2>1, <2>2, <2>3
<1>2. CASE Len(A) # 0
  <2>0. /\ Len(A) \in Nat \ {0} /\ Len(B) \in Nat \ {0}
        /\ \A i \in 1..Len(A) : A[i] \in Seq(S) /\ B[i] \in Seq(T)
    BY <1>2, LenProperties, ElementOfSeq
  <2>01. PICK f : JoinsUp(f, A)
    BY <2>0, FlattenParts
  <2>02. PICK g : JoinsUp(g, B)
    BY <2>0, FlattenParts
  <2>1. /\ FlattenSeq(A) = f[Len(A)] /\ f[1] = A[1]
        /\ \A i \in 2..Len(A) : f[i] = f[i - 1] \o A[i]
    BY <2>01 DEF JoinsUp
  <2>2. /\ FlattenSeq(B) = g[Len(B)] /\ g[1] = B[1]
        /\ \A i \in 2..Len(B) : g[i] = g[i - 1] \o B[i]
    BY <2>02 DEF JoinsUp
  <2> DEFINE Good(n) ==
        /\ f[n] \in Seq(S) /\ g[n] \in Seq(T) /\ Len(f[n]) = Len(g[n])
        /\ \A k \in 1..Len(f[n]) : \E i \in 1..Len(A) : \E j \in 1..Len(A[i]) :
             f[n][k] = A[i][j] /\ g[n][k] = B[i][j]
             G == {n \in Nat : n \in 1..Len(A) => Good(n)}
  <2>3. Good(1)
    <3>1. 1 \in 1..Len(A) /\ A[1] \in Seq(S) /\ B[1] \in Seq(T)
      BY <2>0
    <3> QED
      BY <2>1, <2>2, <3>1
  <2>4. ASSUME NEW n \in 2..Len(A), Good(n - 1) PROVE Good(n)
    <3>1. /\ f[n] = f[n - 1] \o A[n] /\ g[n] = g[n - 1] \o B[n] /\ n \in 1..Len(A)
          /\ A[n] \in Seq(S) /\ B[n] \in Seq(T) /\ Len(A[n]) = Len(B[n])
      <4>1. n \in 1..Len(A) /\ n \in 2..Len(B)
        OBVIOUS
      <4> QED
        BY <2>0, <2>1, <2>2, <4>1
    <3> DEFINE a == f[n - 1]
               b == g[n - 1]
    <3>2. /\ a \in Seq(S) /\ b \in Seq(T) /\ Len(a) = Len(b)
          /\ \A k \in 1..Len(a) : \E i \in 1..Len(A) : \E j \in 1..Len(A[i]) :
               a[k] = A[i][j] /\ b[k] = B[i][j]
      BY <2>4
    <3> HIDE DEF a, b
    <3>3. /\ f[n] = a \o A[n] /\ g[n] = b \o B[n]
      BY <3>1 DEF a, b
    <3>4. /\ f[n] \in Seq(S) /\ Len(f[n]) = Len(a) + Len(A[n])
          /\ \A k \in 1..Len(f[n]) :
               \/ k \in 1..Len(a) /\ k <= Len(a) /\ f[n][k] = a[k]
               \/ k > Len(a) /\ k - Len(a) \in 1..Len(A[n]) /\ f[n][k] = A[n][k - Len(a)]
      <4> DEFINE x == A[n]
                 c == f[n]
      <4>1. x \in Seq(S) /\ a \in Seq(S) /\ c = a \o x
        BY <3>1, <3>2, <3>3
      <4> HIDE DEF x, c
      <4>2. /\ c \in Seq(S) /\ Len(c) = Len(a) + Len(x)
            /\ \A k \in 1..Len(c) :
                 \/ k \in 1..Len(a) /\ k <= Len(a) /\ c[k] = a[k]
                 \/ k > Len(a) /\ k - Len(a) \in 1..Len(x) /\ c[k] = x[k - Len(a)]
        BY <4>1, Joined
      <4> QED
        BY <4>2 DEF x, c
    <3>5. /\ g[n] \in Seq(T) /\ Len(g[n]) = Len(b) + Len(B[n])
          /\ \A k \in 1..Len(g[n]) :
               \/ k \in 1..Len(b) /\ k <= Len(b) /\ g[n][k] = b[k]
               \/ k > Len(b) /\ k - Len(b) \in 1..Len(B[n]) /\ g[n][k] = B[n][k - Len(b)]
      BY <3>1, <3>2, <3>3, Joined
    <3>6. ASSUME NEW k \in 1..Len(f[n])
          PROVE  \E i \in 1..Len(A) : \E j \in 1..Len(A[i]) :
                   f[n][k] = A[i][j] /\ g[n][k] = B[i][j]
      <4>0. Len(f[n]) = Len(g[n]) /\ Len(a) \in Nat /\ k \in Nat
        BY <3>1, <3>2, <3>4, <3>5, LenProperties
      <4>1. CASE k <= Len(a)
        <5>1. f[n][k] = a[k] /\ k \in 1..Len(a)
          BY <3>4, <4>0, <4>1
        <5>2. g[n][k] = b[k]
          BY <3>2, <3>5, <4>0, <4>1
        <5> QED
          BY <3>2, <5>1, <5>2
      <4>2. CASE k > Len(a)
        <5>1. k - Len(a) \in 1..Len(A[n]) /\ f[n][k] = A[n][k - Len(a)]
          BY <3>4, <4>0, <4>2
        <5>2. g[n][k] = B[n][k - Len(a)]
          BY <3>2, <3>5, <4>0, <4>2
        <5> QED
          BY <3>1, <5>1, <5>2
      <4> QED
        BY <4>0, <4>1, <4>2
    <3> QED
      BY <3>1, <3>2, <3>4, <3>5, <3>6
  <2> HIDE DEF Good
  <2>5. Nat \subseteq G
    <3>1. 0 \in G
      OBVIOUS
    <3>2. ASSUME NEW n \in Nat, n \in G PROVE n + 1 \in G
      <4>1. CASE n = 0
        BY <2>3, <4>1
      <4>2. CASE n # 0 /\ n + 1 \in 1..Len(A)
        <5>1. n + 1 \in 2..Len(A) /\ n \in 1..Len(A) /\ (n + 1) - 1 = n
          BY <2>0, <4>2
        <5> QED
          BY <2>4, <3>2, <5>1
      <4> QED
        BY <4>1, <4>2
    <3> QED
      BY <3>1, <3>2, Induction
  <2>6. Good(Len(A))
    BY <2>0, <2>5
  <2> QED
    BY <2>1, <2>2, <2>6 DEF Good
<1> QED
  BY <1>1, <1>2

\* The places of a sequence of sequences, put together: each of them once.
Places(A) == FlattenSeq([i \in 1..Len(A) |-> [j \in 1..Len(A[i]) |-> <<i, j>>]])

Place == Nat \X Nat

\* p has the places of the first n sequences of A.
Filled(p, A, n) ==
  /\ p \in Seq(Place)
  /\ \A k \in 1..Len(p) : p[k][1] <= n
  /\ \A i \in 1..n : \A j \in 1..Len(A[i]) : \E k \in 1..Len(p) : p[k] = <<i, j>>
  /\ \A k, l \in 1..Len(p) : p[k] = p[l] => k = l

IsJoin(c, a, x, R) ==
  /\ c \in R /\ Len(c) = Len(a) + Len(x)
  /\ \A k \in 1..Len(c) :
       \/ k \in 1..Len(a) /\ k <= Len(a) /\ c[k] = a[k]
       \/ k > Len(a) /\ k - Len(a) \in 1..Len(x) /\ c[k] = x[k - Len(a)]

LEMMA FilledNext ==
  ASSUME NEW A, NEW n \in Nat, NEW m, m = n + 1, NEW a, Filled(a, A, n),
         NEW x \in Seq(Place), Len(x) = Len(A[m]), \A j \in 1..Len(x) : x[j] = <<m, j>>,
         NEW c, c = a \o x
  PROVE  Filled(c, A, m)
<1>1. /\ a \in Seq(Place) /\ \A k \in 1..Len(a) : a[k][1] <= n
      /\ \A i \in 1..n : \A j \in 1..Len(A[i]) : \E k \in 1..Len(a) : a[k] = <<i, j>>
      /\ \A k, l \in 1..Len(a) : a[k] = a[l] => k = l
  BY DEF Filled
<1>2. /\ c \in Seq(Place) /\ Len(c) = Len(a) + Len(x)
      /\ \A k \in 1..Len(c) :
           \/ k \in 1..Len(a) /\ k <= Len(a) /\ c[k] = a[k]
           \/ k > Len(a) /\ k - Len(a) \in 1..Len(x) /\ c[k] = x[k - Len(a)]
  <2>1. a \in Seq(Place) /\ x \in Seq(Place) /\ c = a \o x
    BY <1>1
  <2>2. ASSUME NEW P, NEW u \in Seq(P), NEW v \in Seq(P), NEW w, w = u \o v
        PROVE  IsJoin(w, u, v, Seq(P))
    BY <2>2, Joined DEF IsJoin
  <2>3. IsJoin(c, a, x, Seq(Place))
    BY <2>1, <2>2
  <2> QED
    BY <2>3 DEF IsJoin
<1>3. Len(a) \in Nat /\ Len(x) \in Nat
  BY <1>1, LenProperties
<1>4. \A k \in 1..Len(a) : a[k][1] \in Nat
  <2>1. \A k \in 1..Len(a) : a[k] \in Place
    BY <1>1, ElementOfSeq
  <2> QED
    BY <2>1 DEF Place
<1>5. ASSUME NEW k \in 1..Len(c)
      PROVE  \/ k \in 1..Len(a) /\ c[k] = a[k] /\ c[k][1] <= n /\ c[k][1] \in Nat
             \/ k \notin 1..Len(a) /\ c[k] = <<m, k - Len(a)>> /\ c[k][1] = m
  <2>1. CASE k \in 1..Len(a) /\ c[k] = a[k]
    BY <1>1, <1>4, <2>1
  <2>2. CASE k > Len(a) /\ k - Len(a) \in 1..Len(x) /\ c[k] = x[k - Len(a)]
    <3>1. k \notin 1..Len(a)
      BY <1>3, <2>2
    <3>2. c[k] = <<m, k - Len(a)>>
      BY <2>2
    <3>3. c[k][1] = m
      BY <3>2
    <3> QED
      BY <3>1, <3>2, <3>3
  <2> QED
    BY <1>2, <2>1, <2>2
<1>6. \A k \in 1..Len(c) : c[k][1] <= m
  BY <1>5
<1>7. ASSUME NEW i \in 1..m, NEW j \in 1..Len(A[i])
      PROVE  \E k \in 1..Len(c) : c[k] = <<i, j>>
  <2>1. CASE i = m
    <3>1. /\ Len(a) + j \in 1..Len(c) /\ ~(Len(a) + j <= Len(a))
          /\ (Len(a) + j) - Len(a) = j
      BY <1>2, <1>3, <2>1
    <3> QED
      BY <1>2, <2>1, <3>1
  <2>2. CASE i # m
    <3>1. i \in 1..n
      BY <2>2
    <3>2. PICK k \in 1..Len(a) : a[k] = <<i, j>>
      BY <1>1, <3>1
    <3>3. k \in 1..Len(c) /\ ~(k > Len(a))
      BY <1>2, <1>3, <3>2
    <3> QED
      BY <1>2, <3>2, <3>3
  <2> QED
    BY <2>1, <2>2
<1>8. ASSUME NEW k \in 1..Len(c), NEW l \in 1..Len(c), c[k] = c[l] PROVE k = l
  <2>1. CASE k \in 1..Len(a) /\ l \in 1..Len(a)
    BY <1>1, <1>5, <1>8, <2>1
  <2>2. CASE k \notin 1..Len(a) /\ l \notin 1..Len(a)
    <3>1. c[k] = <<m, k - Len(a)>> /\ c[l] = <<m, l - Len(a)>>
      BY <1>5, <2>2
    <3>2. c[k][2] = k - Len(a) /\ c[l][2] = l - Len(a)
      BY <3>1
    <3> QED
      BY <1>2, <1>3, <1>8, <3>2
  <2>3. ASSUME NEW y \in 1..Len(c), NEW z \in 1..Len(c), y \in 1..Len(a), z \notin 1..Len(a)
        PROVE  c[y] # c[z]
    <3>1. c[y][1] <= n /\ c[y][1] \in Nat
      BY <1>5, <2>3
    <3>2. c[z][1] = m
      BY <1>5, <2>3
    <3>3. c[y][1] # c[z][1]
      BY <3>1, <3>2
    <3> QED
      BY <3>3
  <2> QED
    BY <1>8, <2>1, <2>2, <2>3
<1> QED
  BY <1>2, <1>6, <1>7, <1>8 DEF Filled

LEMMA PlacesOnce ==
  ASSUME NEW S, NEW A \in Seq(Seq(S))
  PROVE  Filled(Places(A), A, Len(A))
<1> DEFINE P == [i \in 1..Len(A) |-> [j \in 1..Len(A[i]) |-> <<i, j>>]]
<1>0. /\ Len(A) \in Nat
      /\ \A i \in 1..Len(A) : A[i] \in Seq(S) /\ Len(A[i]) \in Nat
  BY LenProperties, ElementOfSeq
<1>1. /\ Len(P) = Len(A)
      /\ \A i \in 1..Len(A) :
           /\ P[i] \in Seq(Place) /\ Len(P[i]) = Len(A[i])
           /\ \A j \in 1..Len(P[i]) : P[i][j] = <<i, j>>
  BY <1>0 DEF Place
<1>2. Places(A) = FlattenSeq(P)
  BY DEF Places
<1>3. CASE Len(A) = 0
  <2>1. P = <<>>
    BY <1>3
  <2>2. Places(A) = <<>>
    BY <1>1, <1>2, <1>3, <2>1 DEF FlattenSeq
  <2>3. <<>> \in Seq(Place) /\ Len(<<>>) = 0
    BY EmptySeq
  <2> QED
    BY <1>3, <2>2, <2>3 DEF Filled
<1> HIDE DEF P
<1>4. CASE Len(A) # 0
  <2>0. Len(P) \in Nat \ {0}
    BY <1>0, <1>1, <1>4
  <2>01. PICK f : JoinsUp(f, P)
    BY <2>0, FlattenParts
  <2>1. /\ FlattenSeq(P) = f[Len(P)] /\ f[1] = P[1]
        /\ \A i \in 2..Len(P) : f[i] = f[i - 1] \o P[i]
    BY <2>01 DEF JoinsUp
  <2> DEFINE G == {n \in Nat : n \in 1..Len(A) => Filled(f[n], A, n)}
  <2>2. Filled(f[1], A, 1)
    <3>1. 1 \in 1..Len(A)
      BY <1>1, <2>0
    <3>2. /\ f[1] \in Seq(Place) /\ Len(f[1]) = Len(A[1])
          /\ \A k \in 1..Len(f[1]) : f[1][k] = <<1, k>>
      BY <1>1, <2>1, <3>1
    <3> DEFINE p == f[1]
    <3>3. p \in Seq(Place) /\ Len(p) = Len(A[1]) /\ \A k \in 1..Len(p) : p[k] = <<1, k>>
      BY <3>2
    <3> HIDE DEF p
    <3>4. \A k \in 1..Len(p) : p[k][1] <= 1
      BY <3>3
    <3>5. \A i \in 1..1 : \A j \in 1..Len(A[i]) : \E k \in 1..Len(p) : p[k] = <<i, j>>
      BY <3>3
    <3>6. \A k, l \in 1..Len(p) : p[k] = p[l] => k = l
      <4>1. \A k \in 1..Len(p) : p[k][2] = k
        BY <3>3
      <4> QED
        BY <4>1
    <3>7. Filled(p, A, 1)
      BY <3>3, <3>4, <3>5, <3>6 DEF Filled
    <3> QED
      BY <3>7 DEF p
  <2>3. ASSUME NEW n \in Nat, n \in G PROVE n + 1 \in G
    <3>1. CASE n = 0
      BY <2>2, <3>1
    <3>2. CASE n # 0 /\ n + 1 \in 1..Len(A)
      <4>1. n + 1 \in 2..Len(P) /\ n \in 1..Len(A) /\ (n + 1) - 1 = n
        BY <1>0, <1>1, <3>2
      <4>2. Filled(f[n], A, n) /\ f[n + 1] = f[n] \o P[n + 1]
        BY <2>1, <2>3, <4>1
      <4>3. /\ P[n + 1] \in Seq(Place) /\ Len(P[n + 1]) = Len(A[n + 1])
            /\ \A j \in 1..Len(P[n + 1]) : P[n + 1][j] = <<n + 1, j>>
        BY <1>1, <3>2
      <4> DEFINE m == n + 1
                 x == P[m]
                 c == f[m]
      <4>4. /\ Filled(f[n], A, n) /\ c = f[n] \o x /\ m = n + 1
            /\ x \in Seq(Place) /\ Len(x) = Len(A[m]) /\ \A j \in 1..Len(x) : x[j] = <<m, j>>
        BY <4>2, <4>3
      <4> HIDE DEF m, x, c
      <4>5. Filled(c, A, m)
        BY <4>4, FilledNext
      <4>6. Filled(f[n + 1], A, n + 1)
        BY <4>5 DEF c, m
      <4> QED
        BY <4>6
    <3> QED
      BY <3>1, <3>2
  <2>4. Nat \subseteq G
    <3>1. 0 \in G
      OBVIOUS
    <3> HIDE DEF G
    <3> QED
      BY <2>3, <3>1, Induction
  <2> QED
    BY <1>0, <1>1, <1>2, <1>4, <2>1, <2>4
<1> QED
  BY <1>3, <1>4

\* A sequence of sequences, put together, has each of their places once.
LEMMA FlattenPlaces ==
  ASSUME NEW S, NEW A \in Seq(Seq(S))
  PROVE  /\ FlattenSeq(A) \in Seq(S) /\ Filled(Places(A), A, Len(A))
         /\ Len(Places(A)) = Len(FlattenSeq(A))
         /\ \A k \in 1..Len(FlattenSeq(A)) : \E i \in 1..Len(A) : \E j \in 1..Len(A[i]) :
              FlattenSeq(A)[k] = A[i][j] /\ Places(A)[k] = <<i, j>>
<1> DEFINE P == [i \in 1..Len(A) |-> [j \in 1..Len(A[i]) |-> <<i, j>>]]
<1>1. /\ Len(A) \in Nat
      /\ \A i \in 1..Len(A) : A[i] \in Seq(S) /\ Len(A[i]) \in Nat
  BY LenProperties, ElementOfSeq
<1>2. /\ P \in Seq(Seq(Place)) /\ Len(P) = Len(A)
      /\ \A i \in 1..Len(A) : /\ Len(P[i]) = Len(A[i])
                              /\ \A j \in 1..Len(A[i]) : P[i][j] = <<i, j>>
  BY <1>1 DEF Place
<1>3. FlattenSeq(P) = Places(A)
  BY DEF Places
<1> HIDE DEF P
<1>4. Together(A, P, S, Place)
  BY <1>2, FlattenTogether
<1>5. \A k \in 1..Len(FlattenSeq(A)) : \E i \in 1..Len(A) : \E j \in 1..Len(A[i]) :
        FlattenSeq(A)[k] = A[i][j] /\ FlattenSeq(P)[k] = <<i, j>>
  <2> TAKE k \in 1..Len(FlattenSeq(A))
  <2>1. PICK i \in 1..Len(A) : \E j \in 1..Len(A[i]) :
          FlattenSeq(A)[k] = A[i][j] /\ FlattenSeq(P)[k] = P[i][j]
    BY <1>4 DEF Together
  <2> QED
    BY <1>2, <2>1
<1> QED
  BY <1>3, <1>4, <1>5, PlacesOnce DEF Together

\* A list of n lists, of the lengths L.
Shaped(A, n, L) ==
  A = [i \in 1..n |-> A[i]] /\ \A i \in 1..n : A[i] = [j \in 1..L[i] |-> A[i][j]]

\* f and g have their m elements from the same places of A and B.
InStep(f, g, A, B, n, L, m) ==
  /\ f = [k \in 1..m |-> f[k]] /\ g = [k \in 1..m |-> g[k]]
  /\ \A k \in 1..m : \E i \in 1..n : \E j \in 1..L[i] : f[k] = A[i][j] /\ g[k] = B[i][j]

LEMMA ListsTogether ==
  ASSUME NEW n \in Nat, NEW L, \A i \in 1..n : L[i] \in Nat,
         NEW A, NEW B, Shaped(A, n, L), Shaped(B, n, L)
  PROVE  \E m \in Nat : InStep(FlattenSeq(A), FlattenSeq(B), A, B, n, L, m)
<1> DEFINE S == UNION {{A[i][j] : j \in 1..L[i]} : i \in 1..n}
           T == UNION {{B[i][j] : j \in 1..L[i]} : i \in 1..n}
<1>1. ASSUME NEW C, Shaped(C, n, L), NEW R, \A i \in 1..n : \A j \in 1..L[i] : C[i][j] \in R
      PROVE  /\ C \in Seq(Seq(R)) /\ Len(C) = n /\ \A i \in 1..n : Len(C[i]) = L[i]
  <2>1. ASSUME NEW i \in 1..n PROVE C[i] \in Seq(R) /\ Len(C[i]) = L[i]
    <3> DEFINE s == C[i]
               l == L[i]
    <3>1. s = [j \in 1..l |-> s[j]] /\ l \in Nat /\ \A j \in 1..l : s[j] \in R
      BY <1>1 DEF Shaped
    <3> HIDE DEF s, l
    <3>2. s \in Seq(R) /\ Len(s) = l
      BY <3>1
    <3> QED
      BY <3>2 DEF s, l
  <2>2. C = [i \in 1..n |-> C[i]]
    BY <1>1 DEF Shaped
  <2> QED
    BY <2>1, <2>2
<1>2. \A i \in 1..n : \A j \in 1..L[i] : A[i][j] \in S /\ B[i][j] \in T
  OBVIOUS
<1> HIDE DEF S, T
<1>3. /\ A \in Seq(Seq(S)) /\ B \in Seq(Seq(T)) /\ Len(A) = n /\ Len(B) = n
      /\ \A i \in 1..n : Len(A[i]) = L[i] /\ Len(B[i]) = L[i]
  BY <1>1, <1>2
<1>4. Together(A, B, S, T)
  BY <1>3, FlattenTogether
<1> DEFINE m == Len(FlattenSeq(A))
<1>5. /\ m \in Nat
      /\ FlattenSeq(A) = [k \in 1..m |-> FlattenSeq(A)[k]]
      /\ FlattenSeq(B) = [k \in 1..m |-> FlattenSeq(B)[k]]
  BY <1>4, LenProperties DEF Together
<1>6. \A k \in 1..m : \E i \in 1..n : \E j \in 1..L[i] :
        FlattenSeq(A)[k] = A[i][j] /\ FlattenSeq(B)[k] = B[i][j]
  <2> TAKE k \in 1..m
  <2>1. PICK i \in 1..n : \E j \in 1..Len(A[i]) :
          FlattenSeq(A)[k] = A[i][j] /\ FlattenSeq(B)[k] = B[i][j]
    BY <1>3, <1>4 DEF Together
  <2> QED
    BY <1>3, <2>1
<1> QED
  BY <1>5, <1>6 DEF InStep

\* What is joined last comes last.
LEMMA FlattenAppended ==
  ASSUME NEW S, NEW A \in Seq(Seq(S)), NEW x \in Seq(S)
  PROVE  FlattenSeq(Append(A, x)) = FlattenSeq(A) \o x /\ FlattenSeq(A) \in Seq(S)
<1> DEFINE B == Append(A, x)
           n == Len(A)
<1>0. /\ n \in Nat /\ Len(B) = n + 1 /\ Len(B) \in Nat \ {0}
      /\ B[n + 1] = x /\ \A i \in 1..n : B[i] = A[i] /\ A[i] \in Seq(S)
  BY LenProperties, ElementOfSeq
<1> HIDE DEF B
<1>1. PICK g : /\ FlattenSeq(B) = g[n + 1] /\ g[1] = B[1]
               /\ \A i \in 2..(n + 1) : g[i] = g[i - 1] \o B[i]
  <2>1. PICK g : JoinsUp(g, B)
    BY <1>0, FlattenParts
  <2> QED
    BY <1>0, <2>1 DEF JoinsUp
<1> USE DEF B
<1>2. FlattenSeq(A) \in Seq(S)
  BY FlattenPlaces
<1>3. CASE n = 0
  <2>1. FlattenSeq(A) = A /\ A = <<>>
    BY <1>3 DEF FlattenSeq
  <2>2. FlattenSeq(B) = x
    <3> HIDE DEF B
    <3> QED
      BY <1>0, <1>1, <1>3
  <2>3. <<>> \o x = x
    BY ConcatEmptySeq
  <2> QED
    BY <1>2, <2>1, <2>2, <2>3
<1>4. CASE n # 0
  <2>0. PICK f : JoinsUp(f, A)
    <3>1. Len(A) \in Nat \ {0}
      BY <1>0, <1>4
    <3> QED
      BY <3>1, FlattenParts
  <2>1. /\ FlattenSeq(A) = f[n] /\ f[1] = A[1]
        /\ \A i \in 2..n : f[i] = f[i - 1] \o A[i]
    BY <2>0 DEF JoinsUp
  <2> DEFINE G == {k \in Nat : k + 1 <= n => f[k + 1] = g[k + 1]}
  <2>2. 0 \in G
    BY <1>0, <1>1, <1>4, <2>1
  <2>3. ASSUME NEW k \in Nat, k \in G PROVE k + 1 \in G
    <3>1. ASSUME k + 2 <= n PROVE f[k + 2] = g[k + 2]
      <4>1. f[k + 1] = g[k + 1] /\ k + 2 \in 2..n /\ k + 2 \in 2..(n + 1) /\ k + 2 \in 1..n
        BY <1>0, <2>3, <3>1
      <4>2. (k + 2) - 1 = k + 1 /\ B[k + 2] = A[k + 2]
        BY <1>0, <4>1
      <4>3. f[k + 2] = f[(k + 2) - 1] \o A[k + 2]
        BY <2>1, <4>1
      <4>4. g[k + 2] = g[(k + 2) - 1] \o B[k + 2]
        BY <1>1, <4>1
      <4> QED
        BY <4>1, <4>2, <4>3, <4>4
    <3> QED
      BY <3>1
  <2> HIDE DEF G
  <2>4. Nat \subseteq G
    BY <2>2, <2>3, Induction
  <2>5. f[n] = g[n]
    <3>1. n - 1 \in G /\ (n - 1) + 1 = n
      BY <1>0, <1>4, <2>4
    <3> QED
      BY <1>0, <3>1 DEF G
  <2>6. g[n + 1] = g[n] \o x
    <3>1. n + 1 \in 2..(n + 1) /\ (n + 1) - 1 = n
      BY <1>0, <1>4
    <3> QED
      BY <1>0, <1>1, <3>1
  <2> QED
    BY <1>1, <1>2, <2>1, <2>5, <2>6
<1> QED
  BY <1>3, <1>4

\* How three lists are joined: in either order.
Regroups(a, b, c) == (a \o b) \o c = a \o (b \o c)

LEMMA Regrouped ==
  ASSUME NEW S, NEW a \in Seq(S), NEW b \in Seq(S), NEW c \in Seq(S)
  PROVE  Regroups(a, b, c)
BY ConcatAssociative DEF Regroups

\* What is appended to the second of two lists is appended to the two.
AppendsLast(R) ==
  \A a, d \in Seq(R), x \in R : a \o Append(d, x) = Append(a \o d, x) /\ a \o d \in Seq(R)

LEMMA AppendedLast == \A R : AppendsLast(R)
<1>1. ASSUME NEW R, NEW a \in Seq(R), NEW d \in Seq(R), NEW x \in R
      PROVE  a \o Append(d, x) = Append(a \o d, x) /\ a \o d \in Seq(R)
  OBVIOUS
<1> QED
  BY <1>1, Zenon DEF AppendsLast

\* To join all of two lists is to join each, and the two.
LEMMA FlattenJoined ==
  ASSUME NEW S, NEW A \in Seq(Seq(S)), NEW B \in Seq(Seq(S))
  PROVE  FlattenSeq(A \o B) = FlattenSeq(A) \o FlattenSeq(B)
<1> DEFINE G == {n \in Nat : \A C \in Seq(Seq(S)) : Len(C) = n =>
                   FlattenSeq(A \o C) = FlattenSeq(A) \o FlattenSeq(C)}
<1>1. 0 \in G
  <2>1. ASSUME NEW C \in Seq(Seq(S)), Len(C) = 0
        PROVE  FlattenSeq(A \o C) = FlattenSeq(A) \o FlattenSeq(C)
    <3>1. C = <<>> /\ FlattenSeq(C) = C /\ A \o C = A
      BY <2>1 DEF FlattenSeq
    <3>2. FlattenSeq(A) \in Seq(S)
      BY FlattenPlaces
    <3> QED
      BY <3>1, <3>2
  <2> QED
    BY <2>1
<1>2. ASSUME NEW n \in Nat, n \in G PROVE n + 1 \in G
  <2>1. ASSUME NEW C \in Seq(Seq(S)), Len(C) = n + 1
        PROVE  FlattenSeq(A \o C) = FlattenSeq(A) \o FlattenSeq(C)
    <3> DEFINE D == SubSeq(C, 1, n)
               x == C[n + 1]
    <3>1. D \in Seq(Seq(S)) /\ Len(D) = n /\ x \in Seq(S) /\ C = Append(D, x)
      BY <2>1
    <3> HIDE DEF D, x
    <3>2. A \o C = Append(A \o D, x) /\ A \o D \in Seq(Seq(S))
      <4>1. AppendsLast(Seq(S))
        BY AppendedLast
      <4> QED
        BY <3>1, <4>1, Zenon DEF AppendsLast
    <3>3. FlattenSeq(A \o D) = FlattenSeq(A) \o FlattenSeq(D)
      BY <1>2, <3>1
    <3>4. FlattenSeq(C) = FlattenSeq(D) \o x /\ FlattenSeq(D) \in Seq(S)
      <4>1. FlattenSeq(Append(D, x)) = FlattenSeq(D) \o x /\ FlattenSeq(D) \in Seq(S)
        BY <3>1, FlattenAppended, Zenon
      <4> QED
        BY <3>1, <4>1, Zenon
    <3>5. FlattenSeq(A \o C) = FlattenSeq(A \o D) \o x
      <4> DEFINE J == A \o D
      <4>1. J \in Seq(Seq(S)) /\ A \o C = Append(J, x)
        BY <3>2
      <4> HIDE DEF J
      <4>2. FlattenSeq(Append(J, x)) = FlattenSeq(J) \o x
        BY <3>1, <4>1, FlattenAppended, Zenon
      <4>3. FlattenSeq(A \o C) = FlattenSeq(J) \o x
        BY <4>1, <4>2, Zenon
      <4> QED
        BY <4>3, Zenon DEF J
    <3>6. (FlattenSeq(A) \o FlattenSeq(D)) \o x = FlattenSeq(A) \o (FlattenSeq(D) \o x)
      <4>1. FlattenSeq(A) \in Seq(S) /\ FlattenSeq(D) \in Seq(S) /\ x \in Seq(S)
        BY <3>1, <3>4, FlattenPlaces
      <4>2. Regroups(FlattenSeq(A), FlattenSeq(D), x)
        BY <4>1, Regrouped
      <4> QED
        BY <4>2, Zenon DEF Regroups
    <3> QED
      BY <3>3, <3>4, <3>5, <3>6, Zenon
  <2> QED
    BY <2>1
<1> HIDE DEF G
<1>3. Len(B) \in Nat /\ Len(B) \in G
  BY <1>1, <1>2, Induction, LenProperties
<1> QED
  BY <1>3 DEF G
=============================================================================

