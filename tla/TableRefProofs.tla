--------------------------- MODULE TableRefProofs ---------------------------
(***************************************************************************)
(* Proofs about references: what is written is read back, and what is read *)
(* is what the grammar of the package says.                                *)
(***************************************************************************)
EXTENDS RefTexts, SequenceTheorems, FiniteSetTheorems, FunctionTheorems, TLAPS

----------------------------------------------------------------------------
(* Induction, over sets of numbers and of texts.                           *)

\* A set that holds 0, and with each number the next, holds them all.
LEMMA Numbers ==
  ASSUME NEW T, 0 \in T, \A n \in Nat : n \in T => n + 1 \in T
  PROVE  Nat \subseteq T
<1> DEFINE R == {ss \in Nat \X Nat : ss[1] < ss[2]}
<1>1. SUFFICES ASSUME Nat \ T # {} PROVE FALSE
  OBVIOUS
<1>2. OpToRel(<, Nat) = R
  BY DEF OpToRel
<1>3. IsWellFoundedOn(R, Nat)
  BY <1>2, NatLessThanWellFounded, Zenon
<1>4. Nat \ T \subseteq Nat
  OBVIOUS
<1>5. \E n \in Nat \ T : \A k \in Nat \ T : <<k, n>> \notin R
  <2> HIDE DEF R
  <2> QED
    BY <1>1, <1>3, <1>4, WFMin, Zenon
<1>6. PICK n \in Nat \ T : \A k \in Nat \ T : <<k, n>> \notin R
  BY <1>5
<1>7. n # 0
  OBVIOUS
<1>8. n - 1 \in Nat /\ <<n - 1, n>> \in R /\ n = (n - 1) + 1
  BY <1>7
<1>9. n - 1 \in T
  BY <1>6, <1>8
<1> QED
  BY <1>6, <1>8, <1>9

\* A set that holds the empty text, and with each text those with one more
\* character in front, holds them all.
LEMMA Texts ==
  ASSUME NEW S, NEW T, <<>> \in T, \A c \in S, u \in Seq(S) : u \in T => <<c>> \o u \in T
  PROVE  Seq(S) \subseteq T
<1> DEFINE N == {n \in Nat : \A u \in Seq(S) : Len(u) = n => u \in T}
<1>1. 0 \in N
  <2>1. ASSUME NEW u \in Seq(S), Len(u) = 0 PROVE u \in T
    <3>1. u = <<>>
      BY <2>1
    <3> QED
      BY <3>1
  <2> QED
    BY <2>1
<1>2. ASSUME NEW n \in Nat, n \in N PROVE n + 1 \in N
  <2>1. ASSUME NEW u \in Seq(S), Len(u) = n + 1 PROVE u \in T
    <3>1. u # <<>>
      BY <2>1
    <3>2. /\ Head(u) \in S /\ Tail(u) \in Seq(S) /\ Len(Tail(u)) = n
          /\ u = <<Head(u)>> \o Tail(u)
      BY <2>1, <3>1
    <3>3. Tail(u) \in T
      BY <1>2, <3>2, Zenon
    <3> QED
      BY <3>2, <3>3, Zenon
  <2> QED
    BY <2>1
<1>3. Nat \subseteq N
  <2> HIDE DEF N
  <2> QED
    BY <1>1, <1>2, Numbers
<1>4. ASSUME NEW u \in Seq(S) PROVE u \in T
  BY <1>3
<1> QED
  BY <1>4

\* T holds each member of D if it holds those of smaller rank.
Inherits(D, w, T) ==
  /\ \A i \in D : w[i] \in Nat
  /\ \A i \in D : (\A j \in D : w[j] < w[i] => j \in T) => i \in T

\* Such a set holds them all.
LEMMA Ranked ==
  ASSUME NEW D, NEW w, NEW T, Inherits(D, w, T)
  PROVE  D \subseteq T
<1>0. /\ \A i \in D : w[i] \in Nat
      /\ \A i \in D : (\A j \in D : w[j] < w[i] => j \in T) => i \in T
  BY DEF Inherits
<1> DEFINE U == {n \in Nat : \A i \in D : w[i] < n => i \in T}
<1>1. 0 \in U
  BY <1>0
<1>2. ASSUME NEW n \in Nat, n \in U PROVE n + 1 \in U
  <2>1. ASSUME NEW i \in D, w[i] < n + 1 PROVE i \in T
    <3>1. \A j \in D : w[j] < w[i] => w[j] < n
      BY <1>0, <2>1
    <3> QED
      BY <1>0, <1>2, <3>1
  <2> QED
    BY <2>1
<1>3. Nat \subseteq U
  <2> HIDE DEF U
  <2> QED
    BY <1>1, <1>2, Numbers
<1>4. ASSUME NEW i \in D PROVE i \in T
  <2>1. w[i] + 1 \in Nat /\ w[i] < w[i] + 1
    BY <1>0
  <2> QED
    BY <1>3, <2>1
<1> QED
  BY <1>4

----------------------------------------------------------------------------
(* Recursive functions.                                                    *)

\* F says what a function has at i, given what it has at smaller ranks.
Recursion(D, N, w, V, F) ==
  /\ N \in Nat /\ V # {}
  /\ w \in [D -> 0..N] /\ F \in [D \X [D -> V] -> V]
  /\ \A i \in D, a, b \in [D -> V] :
       (\A j \in D : w[j] < w[i] => a[j] = b[j]) => F[<<i, a>>] = F[<<i, b>>]

\* r follows the recursion F on D.
Solves(D, V, F, r) == r \in [D -> V] /\ \A i \in D : r[i] = F[<<i, r>>]

\* There is such a function.
LEMMA RecursiveFunction ==
  ASSUME NEW D, NEW N, NEW w, NEW V, NEW F, Recursion(D, N, w, V, F)
  PROVE  \E r : Solves(D, V, F, r)
<1> DEFINE T == {n \in Nat : \E r \in [D -> V] : \A i \in D : w[i] < n => r[i] = F[<<i, r>>]}
<1>0. N \in Nat /\ \A i \in D : w[i] \in 0..N
  BY DEF Recursion
<1>1. 0 \in T
  <2>1. \A i \in D : ~(w[i] < 0)
    BY <1>0
  <2>2. PICK v \in V : TRUE
    BY DEF Recursion
  <2>3. [i \in D |-> v] \in [D -> V]
    OBVIOUS
  <2> QED
    BY <2>1, <2>3, Zenon
<1>2. ASSUME NEW n \in Nat, n \in T PROVE n + 1 \in T
  <2>1. PICK r \in [D -> V] : \A i \in D : w[i] < n => r[i] = F[<<i, r>>]
    BY <1>2
  <2>2. \A i \in D : F[<<i, r>>] \in V
    BY DEF Recursion
  <2>3. PICK q \in [D -> V] : q = [i \in D |-> IF w[i] = n THEN F[<<i, r>>] ELSE r[i]]
    BY <2>2, Zenon
  <2>4. ASSUME NEW i \in D, w[i] < n + 1 PROVE q[i] = F[<<i, q>>]
    <3>1. \A j \in D : w[j] < w[i] => r[j] = q[j]
      BY <1>0, <2>3, <2>4
    <3>2. F[<<i, r>>] = F[<<i, q>>]
      BY <3>1, Zenon DEF Recursion
    <3>3. q[i] = F[<<i, r>>]
      BY <1>0, <2>1, <2>3, <2>4
    <3> QED
      BY <3>2, <3>3
  <2> QED
    BY <2>4
<1>3. Nat \subseteq T
  <2> HIDE DEF T
  <2> QED
    BY <1>1, <1>2, Numbers
<1>4. PICK r \in [D -> V] : \A i \in D : w[i] < N + 1 => r[i] = F[<<i, r>>]
  BY <1>0, <1>3
<1>5. \A i \in D : w[i] < N + 1
  BY <1>0
<1> QED
  BY <1>4, <1>5 DEF Solves

----------------------------------------------------------------------------
(* Running texts together.                                                 *)

\* One character in front of a text.
LEMMA InFrontAt ==
  ASSUME NEW S, NEW c \in S, NEW u \in Seq(S)
  PROVE  /\ <<c>> \o u \in Seq(S) /\ Len(<<c>> \o u) = Len(u) + 1
         /\ (<<c>> \o u)[1] = c /\ \A j \in 1..Len(u) : (<<c>> \o u)[j + 1] = u[j]
OBVIOUS

\* One text in front of another.
LEMMA JoinedAt ==
  ASSUME NEW S, NEW u \in Seq(S), NEW v \in Seq(S)
  PROVE  /\ u \o v \in Seq(S) /\ Len(u \o v) = Len(u) + Len(v)
         /\ \A j \in 1..(Len(u) + Len(v)) :
              (u \o v)[j] = IF j <= Len(u) THEN u[j] ELSE v[j - Len(u)]
OBVIOUS

\* A part of a text.
LEMMA SubSeqAt ==
  ASSUME NEW S, NEW u \in Seq(S), NEW a \in 1..Len(u), NEW m \in Nat, a + m - 1 <= Len(u)
  PROVE  /\ SubSeq(u, a, a + m - 1) \in Seq(S) /\ Len(SubSeq(u, a, a + m - 1)) = m
         /\ \A j \in 1..m : SubSeq(u, a, a + m - 1)[j] = u[a + j - 1]
OBVIOUS

\* It does not matter which texts are run together first.
LEMMA Joined ==
  ASSUME NEW S
  PROVE  \A a, b, c \in Seq(S) : (a \o b) \o c = a \o (b \o c)
<1> SUFFICES ASSUME NEW a \in Seq(S), NEW b \in Seq(S), NEW c \in Seq(S)
             PROVE  (a \o b) \o c = a \o (b \o c)
  BY Zenon
<1> QED
  BY ConcatAssociative

\* What FlattenSeq computes: f[i] is the first i texts of ss, run together.
Runs(ss, n, f) == f = [i \in 1..n |-> IF i = 1 THEN ss[i] ELSE f[i - 1] \o ss[i]]

\* f holds these, and FlattenSeq computes the last.
RunsTo(S, ss, f) ==
  /\ f \in [1..Len(ss) -> Seq(S)] /\ FlattenSeq(ss) = f[Len(ss)]
  /\ f[1] = ss[1]
  /\ \A i \in 1..Len(ss) : i # 1 => f[i] = f[i - 1] \o ss[i]

\* There are such runs.
LEMMA LastRun ==
  ASSUME NEW S, NEW ss \in Seq(Seq(S)), ss # <<>>
  PROVE  \E f : RunsTo(S, ss, f)
<1>0. PICK n \in Nat : n = Len(ss) /\ n > 0
  <2>1. Len(ss) \in Nat /\ Len(ss) > 0
    OBVIOUS
  <2> QED
    BY <2>1
<1>1. PICK Q : Q = Seq(S)
  OBVIOUS
<1>2. PICK D : D = 1..n
  OBVIOUS
<1>3. \A i \in D : ss[i] \in Q
  BY <1>0, <1>1, <1>2
<1>4. \A p, q \in Q : p \o q \in Q
  BY <1>1
<1>5. PICK w : w = [i \in D |-> i]
  BY Zenon
<1>6. PICK F : F = [x \in D \X [D -> Q] |->
                     IF x[1] = 1 THEN ss[x[1]] ELSE x[2][x[1] - 1] \o ss[x[1]]]
  BY Zenon
<1>7. \A i \in D, a \in [D -> Q] :
        F[<<i, a>>] = IF i = 1 THEN ss[i] ELSE a[i - 1] \o ss[i]
  BY <1>6
<1>8. \A i \in D : i # 1 => i - 1 \in D
  BY <1>2
<1>9. Recursion(D, n, w, Q, F)
  <2>1. w \in [D -> 0..n]
    BY <1>0, <1>2, <1>5
  <2>2. F \in [D \X [D -> Q] -> Q]
    <3>1. ASSUME NEW i \in D, NEW a \in [D -> Q] PROVE F[<<i, a>>] \in Q
      <4>1. CASE i = 1
        BY <1>3, <1>7, <4>1
      <4>2. CASE i # 1
        <5>1. a[i - 1] \in Q /\ ss[i] \in Q
          BY <1>3, <1>8, <4>2
        <5>2. a[i - 1] \o ss[i] \in Q
          BY <1>4, <5>1
        <5> QED
          BY <1>7, <4>2, <5>2, Zenon
      <4> QED
        BY <4>1, <4>2
    <3> QED
      BY <1>6, <3>1, Zenon
  <2>3. ASSUME NEW i \in D, NEW a \in [D -> Q], NEW b \in [D -> Q],
               \A j \in D : w[j] < w[i] => a[j] = b[j]
        PROVE  F[<<i, a>>] = F[<<i, b>>]
    <3>1. i # 1 => a[i - 1] = b[i - 1]
      BY <1>2, <1>5, <1>8, <2>3
    <3>2. F[<<i, a>>] = IF i = 1 THEN ss[i] ELSE a[i - 1] \o ss[i]
      BY <1>7
    <3>3. F[<<i, b>>] = IF i = 1 THEN ss[i] ELSE b[i - 1] \o ss[i]
      BY <1>7
    <3> QED
      BY <3>1, <3>2, <3>3
  <2>4. Q # {}
    BY <1>1
  <2> QED
    BY <2>1, <2>2, <2>3, <2>4, Zenon DEF Recursion
<1>10. PICK f : Solves(D, Q, F, f)
  BY <1>9, RecursiveFunction
<1>11. Runs(ss, n, f)
  <2>1. f \in [D -> Q] /\ \A i \in D : f[i] = F[<<i, f>>]
    BY <1>10 DEF Solves
  <2>2. f = [i \in D |-> f[i]]
    BY <2>1
  <2>3. \A i \in D : f[i] = IF i = 1 THEN ss[i] ELSE f[i - 1] \o ss[i]
    BY <1>7, <2>1, Zenon
  <2>4. f = [i \in D |-> IF i = 1 THEN ss[i] ELSE f[i - 1] \o ss[i]]
    BY <2>2, <2>3, Zenon
  <2> QED
    BY <1>2, <2>4, Zenon DEF Runs
<1>12. PICK h : h = CHOOSE g : Runs(ss, n, g)
  OBVIOUS
<1>13. Runs(ss, n, h)
  BY <1>11, <1>12, Zenon
<1>14. FlattenSeq(ss) = h[n]
  BY <1>0, <1>12 DEF FlattenSeq, Runs
<1>15. \A i \in D : h[i] = IF i = 1 THEN ss[i] ELSE h[i - 1] \o ss[i]
  BY <1>2, <1>13, Zenon DEF Runs
<1>16. D \subseteq {i \in D : h[i] \in Q}
  <2>1. ASSUME NEW i \in D, \A j \in D : w[j] < w[i] => h[j] \in Q
        PROVE  h[i] \in Q
    <3>1. CASE i = 1
      BY <1>3, <1>15, <3>1
    <3>2. CASE i # 1
      <4>1. h[i - 1] \in Q /\ ss[i] \in Q
        BY <1>2, <1>3, <1>5, <1>8, <2>1, <3>2
      <4>2. h[i - 1] \o ss[i] \in Q
        BY <1>4, <4>1
      <4> QED
        BY <1>15, <3>2, <4>2
    <3> QED
      BY <3>1, <3>2
  <2>2. \A i \in D : w[i] \in Nat
    BY <1>2, <1>5
  <2>3. PICK T : T = {i \in D : h[i] \in Q}
    BY Zenon
  <2>4. \A i \in D : (\A j \in D : w[j] < w[i] => j \in T) => i \in T
    BY <2>1, <2>3
  <2>5. Inherits(D, w, T)
    BY <2>2, <2>4 DEF Inherits
  <2> QED
    BY <2>3, <2>5, Ranked
<1>17. h \in [D -> Q]
  <2>1. h = [i \in D |-> h[i]]
    BY <1>2, <1>13 DEF Runs
  <2> QED
    BY <1>16, <2>1
<1>18. h[1] = ss[1]
  <2>1. 1 \in D
    BY <1>0, <1>2
  <2> QED
    BY <1>15, <2>1
<1>19. RunsTo(S, ss, h)
  BY <1>0, <1>1, <1>2, <1>14, <1>15, <1>17, <1>18, Zenon DEF RunsTo
<1> QED
  BY <1>19

\* A list and the same with x in front, m being the length of the one.
InFront(S, x, rest, ss, m) ==
  /\ x \in Seq(S) /\ rest \in Seq(Seq(S)) /\ ss \in Seq(Seq(S))
  /\ m \in Nat /\ Len(rest) = m /\ Len(ss) = m + 1 /\ ss[1] = x
  /\ \A k \in 1..m : ss[k + 1] = rest[k]

\* The runs of the one have x in front of those of the other.
LEMMA RunsInFront ==
  ASSUME NEW S, NEW x, NEW rest, NEW ss, NEW m, InFront(S, x, rest, ss, m), m # 0,
         NEW f, RunsTo(S, ss, f), NEW g, RunsTo(S, rest, g)
  PROVE  FlattenSeq(ss) = x \o FlattenSeq(rest)
<1>0. m \in Nat /\ m > 0 /\ Len(rest) = m /\ Len(ss) = m + 1
  BY DEF InFront
<1>1. f[m + 1] = FlattenSeq(ss) /\ f[1] = x
  BY <1>0 DEF RunsTo, InFront
<1>2. g[m] = FlattenSeq(rest) /\ g[1] = rest[1]
  BY <1>0 DEF RunsTo
<1>3. ASSUME NEW k \in 1..m
      PROVE  f[k + 1] = f[k] \o rest[k]
  <2>1. k + 1 \in 1..Len(ss) /\ k + 1 # 1 /\ (k + 1) - 1 = k
    BY <1>0
  <2>2. f[k + 1] = f[(k + 1) - 1] \o ss[k + 1]
    BY <2>1, Zenon DEF RunsTo
  <2>3. ss[k + 1] = rest[k]
    BY DEF InFront
  <2> QED
    BY <2>1, <2>2, <2>3, Zenon
<1>4. ASSUME NEW k \in 1..m, k # 1
      PROVE  g[k] = g[k - 1] \o rest[k]
  BY <1>0, <1>4, Zenon DEF RunsTo
<1>5. \A k \in 1..m : g[k] \in Seq(S) /\ rest[k] \in Seq(S)
  BY <1>0 DEF RunsTo, InFront
<1>11. \A a, b, c \in Seq(S) : (a \o b) \o c = a \o (b \o c)
  BY Joined
<1> DEFINE T == {k \in Nat : k + 1 \in 1..m => f[k + 2] = x \o g[k + 1]}
<1>6. 0 \in T
  <2>1. 1 \in 1..m /\ 1 + 1 = 2 /\ 0 + 2 = 2 /\ 0 + 1 = 1
    BY <1>0
  <2>2. f[1 + 1] = f[1] \o rest[1]
    BY <1>3, <2>1, Zenon
  <2>3. f[0 + 2] = x \o g[0 + 1]
    BY <1>1, <1>2, <2>1, <2>2, Zenon
  <2> QED
    BY <2>3
<1>7. ASSUME NEW k \in Nat, k \in T PROVE k + 1 \in T
  <2>1. CASE (k + 1) + 1 \in 1..m
    <3>1. PICK i \in 1..m : i = (k + 1) + 1
      BY <2>1
    <3>2. /\ i - 1 \in 1..m /\ i # 1
          /\ k + 1 = i - 1 /\ k + 2 = i /\ (k + 1) + 1 = i /\ (k + 1) + 2 = i + 1
      BY <1>0, <3>1
    <3>3. f[i] = x \o g[i - 1]
      BY <1>7, <3>2, Zenon
    <3>4. f[i + 1] = f[i] \o rest[i]
      BY <1>3, Zenon
    <3>5. g[i] = g[i - 1] \o rest[i]
      BY <1>4, <3>2, Zenon
    <3>6. PICK p \in Seq(S) : p = g[i - 1]
      BY <1>5, <3>2
    <3>7. PICK q \in Seq(S) : q = rest[i]
      BY <1>5
    <3>8. x \in Seq(S)
      BY DEF InFront
    <3>9. (x \o p) \o q = x \o (p \o q)
      BY <1>11, <3>8, Zenon
    <3>10. f[i + 1] = x \o g[i]
      BY <3>3, <3>4, <3>5, <3>6, <3>7, <3>9
    <3>11. f[(k + 1) + 2] = x \o g[(k + 1) + 1]
      BY <3>2, <3>10, Zenon
    <3> QED
      BY <3>11
  <2>2. CASE (k + 1) + 1 \notin 1..m
    BY <2>2
  <2> QED
    BY <2>1, <2>2
<1>8. Nat \subseteq T
  <2> HIDE DEF T
  <2> QED
    BY <1>6, <1>7, Numbers
<1>9. m - 1 \in Nat /\ (m - 1) + 1 \in 1..m /\ (m - 1) + 1 = m /\ (m - 1) + 2 = m + 1
  BY <1>0
<1>10. f[(m - 1) + 2] = x \o g[(m - 1) + 1]
  BY <1>8, <1>9, Zenon
<1> QED
  BY <1>1, <1>2, <1>9, <1>10, Zenon

\* FlattenSeq makes one text of a list of texts.
LEMMA FlattenType ==
  ASSUME NEW S
  PROVE  /\ FlattenSeq(<<>>) = <<>>
         /\ \A ss \in Seq(Seq(S)) : FlattenSeq(ss) \in Seq(S)
<1>1. FlattenSeq(<<>>) = <<>>
  BY DEF FlattenSeq
<1>2. ASSUME NEW ss \in Seq(Seq(S)), ss # <<>> PROVE FlattenSeq(ss) \in Seq(S)
  <2>1. PICK f : RunsTo(S, ss, f)
    BY <1>2, LastRun
  <2>2. Len(ss) \in 1..Len(ss)
    BY <1>2
  <2> QED
    BY <2>1, <2>2, Zenon DEF RunsTo
<1> QED
  BY <1>1, <1>2

\* The first text comes first.
LEMMA FlattenCons ==
  ASSUME NEW S, NEW x \in Seq(S), NEW rest \in Seq(Seq(S))
  PROVE  FlattenSeq(<<x>> \o rest) = x \o FlattenSeq(rest)
<1>1. PICK ss : ss = <<x>> \o rest
  BY Zenon
<1>2. InFront(S, x, rest, ss, Len(rest)) /\ ss # <<>>
  <2>1. <<x>> \in Seq(Seq(S)) /\ Len(<<x>>) = 1 /\ <<x>>[1] = x
    OBVIOUS
  <2>2. /\ ss \in Seq(Seq(S)) /\ Len(ss) = Len(rest) + 1 /\ ss[1] = x
        /\ \A k \in 1..Len(rest) : ss[k + 1] = rest[k]
    BY <1>1, <2>1
  <2>3. Len(rest) \in Nat
    OBVIOUS
  <2>4. ss # <<>>
    BY <2>2, <2>3
  <2> QED
    BY <2>2, <2>3, <2>4 DEF InFront
<1>3. PICK f : RunsTo(S, ss, f)
  <2>1. ss \in Seq(Seq(S))
    BY <1>2 DEF InFront
  <2> QED
    BY <1>2, <2>1, LastRun
<1>4. CASE rest = <<>>
  <2>1. FlattenSeq(rest) = <<>> /\ Len(ss) = 1
    BY <1>2, <1>4, FlattenType DEF InFront
  <2>2. FlattenSeq(ss) = x
    BY <1>2, <1>3, <2>1 DEF RunsTo, InFront
  <2>3. x \o <<>> = x
    OBVIOUS
  <2> QED
    BY <1>1, <2>1, <2>2, <2>3
<1>5. CASE rest # <<>>
  <2>1. PICK g : RunsTo(S, rest, g)
    BY <1>5, LastRun
  <2>2. Len(rest) # 0
    BY <1>5
  <2> QED
    BY <1>1, <1>2, <1>3, <2>1, <2>2, RunsInFront, ZenonT(60)
<1> QED
  BY <1>4, <1>5, Zenon

\* A text with every character spelled out.
Spelled(e, t) == FlattenSeq([i \in DOMAIN t |-> e[t[i]]])

\* It is spelled character by character.
LEMMA Spelling ==
  ASSUME NEW S, NEW e \in [S -> Seq(S)]
  PROVE  /\ Spelled(e, <<>>) = <<>>
         /\ \A u \in Seq(S) : Spelled(e, u) \in Seq(S)
         /\ \A c \in S, u \in Seq(S) : Spelled(e, <<c>> \o u) = e[c] \o Spelled(e, u)
<1> DEFINE Letters(t) == [i \in DOMAIN t |-> e[t[i]]]
<1>1. ASSUME NEW u \in Seq(S)
      PROVE  /\ Letters(u) \in Seq(Seq(S)) /\ Len(Letters(u)) = Len(u)
             /\ \A i \in 1..Len(u) : Letters(u)[i] = e[u[i]]
  <2>1. PICK n \in Nat : n = Len(u) /\ DOMAIN u = 1..n /\ \A i \in 1..n : u[i] \in S
    <3>1. Len(u) \in Nat /\ DOMAIN u = 1..Len(u) /\ \A i \in 1..Len(u) : u[i] \in S
      OBVIOUS
    <3> QED
      BY <3>1, Zenon
  <2>2. PICK Q : Q = Seq(S)
    OBVIOUS
  <2>3. \A i \in 1..n : e[u[i]] \in Q
    BY <2>1, <2>2
  <2>4. PICK l : l = [i \in 1..n |-> e[u[i]]]
    BY Zenon
  <2>5. l \in Seq(Q) /\ Len(l) = n /\ \A i \in 1..n : l[i] = e[u[i]]
    BY <2>3, <2>4
  <2>6. l = Letters(u)
    BY <2>1, <2>4
  <2> QED
    <3> HIDE DEF Letters
    <3> QED
      BY <2>1, <2>2, <2>5, <2>6
<1>2. Letters(<<>>) = <<>>
  OBVIOUS
<1> HIDE DEF Letters
<1>3. ASSUME NEW c \in S, NEW u \in Seq(S)
      PROVE  Letters(<<c>> \o u) = <<e[c]>> \o Letters(u)
  <2>1. /\ <<c>> \o u \in Seq(S) /\ Len(<<c>> \o u) = Len(u) + 1 /\ (<<c>> \o u)[1] = c
        /\ \A i \in 1..Len(u) : (<<c>> \o u)[i + 1] = u[i]
    OBVIOUS
  <2>2. PICK Q : Q = Seq(S)
    OBVIOUS
  <2>3. PICK d \in Q : d = e[c]
    BY <2>2
  <2>4. /\ <<d>> \o Letters(u) \in Seq(Q)
        /\ Len(<<d>> \o Letters(u)) = Len(u) + 1
        /\ (<<d>> \o Letters(u))[1] = d
        /\ \A i \in 1..Len(u) : (<<d>> \o Letters(u))[i + 1] = e[u[i]]
    <3>1. PICK l \in Seq(Q) :
            l = Letters(u) /\ Len(l) = Len(u) /\ \A i \in 1..Len(u) : l[i] = e[u[i]]
      BY <1>1, <2>2
    <3>2. /\ <<d>> \o l \in Seq(Q) /\ Len(<<d>> \o l) = Len(l) + 1 /\ (<<d>> \o l)[1] = d
          /\ \A i \in 1..Len(l) : (<<d>> \o l)[i + 1] = l[i]
      OBVIOUS
    <3> QED
      BY <3>1, <3>2
  <2>5. /\ Letters(<<c>> \o u) \in Seq(Seq(S)) /\ Len(Letters(<<c>> \o u)) = Len(u) + 1
        /\ \A i \in 1..(Len(u) + 1) : Letters(<<c>> \o u)[i] = e[(<<c>> \o u)[i]]
    BY <1>1, <2>1, Zenon
  <2>6. ASSUME NEW i \in 1..(Len(u) + 1)
        PROVE  Letters(<<c>> \o u)[i] = (<<d>> \o Letters(u))[i]
    <3>1. CASE i = 1
      BY <2>1, <2>3, <2>4, <2>5, <3>1, Zenon
    <3>2. CASE i # 1
      <4>1. PICK j \in 1..Len(u) : i = j + 1
        BY <3>2
      <4> QED
        BY <2>1, <2>4, <2>5, <4>1, ZenonT(60)
    <3> QED
      BY <3>1, <3>2, Zenon
  <2>7. Letters(<<c>> \o u) = <<d>> \o Letters(u)
    BY <2>2, <2>4, <2>5, <2>6, SeqEqual, ZenonT(60)
  <2> QED
    BY <2>3, <2>7, Zenon
<1>4. FlattenSeq(<<>>) = <<>> /\ \A ss \in Seq(Seq(S)) : FlattenSeq(ss) \in Seq(S)
  BY FlattenType
<1>5. \A x \in Seq(S), ss \in Seq(Seq(S)) : FlattenSeq(<<x>> \o ss) = x \o FlattenSeq(ss)
  BY FlattenCons, Zenon
<1>6. \A t : Spelled(e, t) = FlattenSeq(Letters(t))
  BY DEF Spelled, Letters
<1>7. Spelled(e, <<>>) = <<>>
  BY <1>2, <1>4, <1>6
<1>8. ASSUME NEW u \in Seq(S) PROVE Spelled(e, u) \in Seq(S)
  BY <1>1, <1>4, <1>6
<1>9. ASSUME NEW c \in S, NEW u \in Seq(S)
      PROVE  Spelled(e, <<c>> \o u) = e[c] \o Spelled(e, u)
  <2>1. e[c] \in Seq(S) /\ Letters(u) \in Seq(Seq(S))
    BY <1>1
  <2>2. FlattenSeq(<<e[c]>> \o Letters(u)) = e[c] \o FlattenSeq(Letters(u))
    BY <1>5, <2>1, Zenon
  <2>3. Spelled(e, <<c>> \o u) = FlattenSeq(Letters(<<c>> \o u))
    BY <1>6
  <2> QED
    BY <1>3, <1>6, <2>2, <2>3, Zenon
<1> QED
  BY <1>7, <1>8, <1>9, Zenon
----------------------------------------------------------------------------
(* Texts within texts.                                                     *)

\* u stands in s, beginning at position i.
Stands(s, i, u) ==
  /\ i \in 1..(Len(s) + 1) /\ i + Len(u) <= Len(s) + 1
  /\ \A j \in 1..Len(u) : s[i + j - 1] = u[j]

\* Its first character does, and the rest does after it; and conversely.
LEMMA StandsFirst ==
  ASSUME NEW S, NEW s \in Seq(S), NEW i, NEW c \in S, NEW u \in Seq(S)
  PROVE  Stands(s, i, <<c>> \o u) <=> i \in 1..Len(s) /\ s[i] = c /\ Stands(s, i + 1, u)
<1>1. PICK n \in Nat : n = Len(s)
  OBVIOUS
<1>2. PICK m \in Nat : m = Len(u)
  OBVIOUS
<1>0. PICK v : v = <<c>> \o u
  BY Zenon
<1>3. /\ v = <<c>> \o u /\ v \in Seq(S) /\ Len(v) = m + 1
      /\ v[1] = c /\ \A j \in 1..m : v[j + 1] = u[j]
  BY <1>0, <1>2, InFrontAt
<1>4. ASSUME Stands(s, i, v)
      PROVE  i \in 1..n /\ s[i] = c /\ Stands(s, i + 1, u)
  <2>1. /\ i \in 1..(n + 1) /\ i + (m + 1) <= n + 1
        /\ \A j \in 1..(m + 1) : s[i + j - 1] = v[j]
    BY <1>1, <1>3, <1>4, Zenon DEF Stands
  <2>2. s[i] = c
    <3>1. 1 \in 1..(m + 1) /\ i + 1 - 1 = i
      BY <2>1
    <3> QED
      BY <1>3, <2>1, <3>1
  <2>3. ASSUME NEW j \in 1..m PROVE s[(i + 1) + j - 1] = u[j]
    <3>1. j + 1 \in 1..(m + 1) /\ (i + 1) + j - 1 = i + (j + 1) - 1
      BY <2>1
    <3> QED
      BY <1>3, <2>1, <3>1, Zenon
  <2>4. i \in 1..n /\ i + 1 \in 1..(n + 1) /\ (i + 1) + m <= n + 1
    BY <2>1
  <2> QED
    BY <1>1, <1>2, <2>2, <2>3, <2>4 DEF Stands
<1>5. ASSUME i \in 1..n, s[i] = c, Stands(s, i + 1, u)
      PROVE  Stands(s, i, v)
  <2>1. (i + 1) + m <= n + 1 /\ \A j \in 1..m : s[(i + 1) + j - 1] = u[j]
    BY <1>1, <1>2, <1>5 DEF Stands
  <2>2. ASSUME NEW j \in 1..(m + 1) PROVE s[i + j - 1] = v[j]
    <3>1. CASE j = 1
      <4>1. i + 1 - 1 = i
        BY <1>5
      <4> QED
        BY <1>3, <1>5, <3>1, <4>1
    <3>2. CASE j # 1
      <4>1. PICK k \in 1..m : j = k + 1
        <5>1. j - 1 \in 1..m /\ j = (j - 1) + 1
          BY <3>2
        <5> QED
          BY <5>1
      <4>2. (i + 1) + k - 1 = i + j - 1
        BY <1>5, <4>1
      <4> QED
        BY <1>3, <2>1, <4>1, <4>2, Zenon
    <3> QED
      BY <3>1, <3>2
  <2>3. i \in 1..(n + 1) /\ i + (m + 1) <= n + 1
    BY <1>5, <2>1
  <2> QED
    BY <1>1, <1>3, <2>2, <2>3 DEF Stands
<1> QED
  BY <1>1, <1>3, <1>4, <1>5

\* The empty text stands everywhere.
LEMMA StandsNothing ==
  ASSUME NEW S, NEW s \in Seq(S), NEW i \in 1..(Len(s) + 1)
  PROVE  Stands(s, i, <<>>)
<1>1. Len(<<>>) = 0 /\ i + 0 = i /\ i <= Len(s) + 1
  OBVIOUS
<1> QED
  BY <1>1 DEF Stands

\* Of two texts that stand one after the other, each stands.
LEMMA StandsBoth ==
  ASSUME NEW S, NEW s \in Seq(S), NEW i, NEW u \in Seq(S), NEW v \in Seq(S)
  PROVE  Stands(s, i, u \o v) <=> Stands(s, i, u) /\ Stands(s, i + Len(u), v)
<1>1. PICK n \in Nat : n = Len(s)
  OBVIOUS
<1>2. PICK m \in Nat : m = Len(u)
  OBVIOUS
<1>3. PICK l \in Nat : l = Len(v)
  OBVIOUS
<1>0. PICK w : w = u \o v
  BY Zenon
<1>4. /\ w = u \o v /\ w \in Seq(S) /\ Len(w) = m + l
      /\ \A j \in 1..(m + l) : w[j] = IF j <= m THEN u[j] ELSE v[j - m]
  BY <1>0, <1>2, <1>3, JoinedAt
<1>5. ASSUME Stands(s, i, w)
      PROVE  Stands(s, i, u) /\ Stands(s, i + m, v)
  <2>1. /\ i \in 1..(n + 1) /\ i + (m + l) <= n + 1
        /\ \A j \in 1..(m + l) : s[i + j - 1] = w[j]
    BY <1>1, <1>4, <1>5, Zenon DEF Stands
  <2>2. ASSUME NEW j \in 1..m PROVE s[i + j - 1] = u[j]
    <3>1. j \in 1..(m + l) /\ j <= m
      OBVIOUS
    <3> QED
      BY <1>4, <2>1, <3>1, Zenon
  <2>3. ASSUME NEW j \in 1..l PROVE s[(i + m) + j - 1] = v[j]
    <3>1. j + m \in 1..(m + l) /\ ~(j + m <= m) /\ (j + m) - m = j
      OBVIOUS
    <3>2. i + (j + m) - 1 = (i + m) + j - 1
      BY <2>1
    <3>3. s[i + (j + m) - 1] = v[(j + m) - m]
      BY <1>4, <2>1, <3>1, Zenon
    <3> QED
      BY <3>1, <3>2, <3>3
  <2>4. i + m <= n + 1 /\ i + m \in 1..(n + 1) /\ (i + m) + l <= n + 1
    BY <2>1
  <2> QED
    BY <1>1, <1>2, <1>3, <2>1, <2>2, <2>3, <2>4 DEF Stands
<1>6. ASSUME Stands(s, i, u), Stands(s, i + m, v)
      PROVE  Stands(s, i, w)
  <2>1. i \in 1..(n + 1) /\ i + m <= n + 1 /\ \A j \in 1..m : s[i + j - 1] = u[j]
    BY <1>1, <1>2, <1>6 DEF Stands
  <2>2. (i + m) + l <= n + 1 /\ \A j \in 1..l : s[(i + m) + j - 1] = v[j]
    BY <1>1, <1>3, <1>6 DEF Stands
  <2>3. ASSUME NEW j \in 1..(m + l) PROVE s[i + j - 1] = w[j]
    <3>1. CASE j <= m
      <4>1. j \in 1..m
        BY <3>1
      <4> QED
        BY <1>4, <2>1, <3>1, <4>1, Zenon
    <3>2. CASE ~(j <= m)
      <4>1. j - m \in 1..l /\ (i + m) + (j - m) - 1 = i + j - 1
        BY <2>1, <3>2
      <4> QED
        BY <1>4, <2>2, <3>2, <4>1, Zenon
    <3> QED
      BY <3>1, <3>2
  <2>4. i + (m + l) <= n + 1
    BY <2>1, <2>2
  <2> QED
    BY <1>1, <1>4, <2>1, <2>3, <2>4, Zenon DEF Stands
<1> QED
  BY <1>2, <1>4, <1>5, <1>6

\* A text that stands at the beginning, and takes it all, is the whole.
LEMMA StandsWhole ==
  ASSUME NEW S, NEW s \in Seq(S), NEW u \in Seq(S)
  PROVE  Stands(s, 1, u) /\ Len(u) = Len(s) <=> u = s
<1>1. PICK n \in Nat : n = Len(s)
  OBVIOUS
<1>2. ASSUME Stands(s, 1, u), Len(u) = n PROVE u = s
  <2>1. ASSUME NEW j \in 1..n PROVE u[j] = s[j]
    <3>1. 1 + j - 1 = j
      OBVIOUS
    <3> QED
      BY <1>2, <2>1, <3>1 DEF Stands
  <2> QED
    BY <1>1, <1>2, <2>1, SeqEqual
<1>3. Stands(s, 1, s)
  <2>1. \A j \in 1..n : 1 + j - 1 = j
    OBVIOUS
  <2>2. 1 \in 1..(n + 1) /\ 1 + n <= n + 1
    OBVIOUS
  <2> QED
    BY <1>1, <2>1, <2>2 DEF Stands
<1> QED
  BY <1>1, <1>2, <1>3

----------------------------------------------------------------------------
(* Back-ticks.                                                             *)

\* The characters texts consist of.
Alphabet == ToSet(Characters)

\* What is known of the characters.
LEMMA Marks ==
  /\ Reserved \cup {Tick} \cup White \subseteq Alphabet
  /\ "end" \notin Alphabet /\ "error" \notin Alphabet
  /\ Text = Seq(Alphabet)
BY CharactersAssumption DEF Alphabet, Text

\* A character as it is spelled between back-ticks.
Twice == [c \in Alphabet |-> IF c = Tick THEN <<Tick, Tick>> ELSE <<c>>]

\* Wrapping spells each back-tick twice.
LEMMA Wrapping ==
  /\ Twice \in [Alphabet -> Seq(Alphabet)]
  /\ \A t \in Text : WrapInBackticks(t) = <<Tick>> \o Spelled(Twice, t) \o <<Tick>>
<1>1. Tick \in Alphabet
  BY Marks
<1>2. ASSUME NEW c \in Alphabet
      PROVE  (IF c = Tick THEN <<Tick, Tick>> ELSE <<c>>) \in Seq(Alphabet)
  <2>1. <<c>> \in Seq(Alphabet) /\ <<Tick, Tick>> \in Seq(Alphabet)
    BY <1>1
  <2> QED
    BY <2>1
<1>3. Twice \in [Alphabet -> Seq(Alphabet)]
  BY <1>2 DEF Twice
<1>4. ASSUME NEW t \in Text
      PROVE  [i \in DOMAIN t |-> IF t[i] = Tick THEN <<Tick, Tick>> ELSE <<t[i]>>]
             = [i \in DOMAIN t |-> Twice[t[i]]]
  <2>1. \A i \in DOMAIN t : t[i] \in Alphabet
    BY Marks
  <2> QED
    BY <2>1 DEF Twice
<1>5. ASSUME NEW t \in Text
      PROVE  WrapInBackticks(t) = <<Tick>> \o Spelled(Twice, t) \o <<Tick>>
  BY <1>4, Zenon DEF WrapInBackticks, Spelled
<1> QED
  BY <1>3, <1>5

\* What Undouble makes of s from position i on, given what it makes of the rest.
Single(s, i, f) ==
  IF i > Len(s) THEN <<>>
  ELSE IF s[i] # Tick THEN <<s[i]>> \o f[i + 1]
  ELSE IF At(s, i + 1) # Tick THEN NotWrapped
  ELSE <<Tick>> \o f[i + 2]

\* f[i] is what it makes of it from i on.
Undoubles(s, f) ==
  /\ f \in [1..(Len(s) + 1) -> Seq(Alphabet \cup {"error"})] /\ Undouble(s) = f[1]
  /\ \A i \in 1..(Len(s) + 1) : f[i] = Single(s, i, f)

\* Positions that Undouble goes on from lie further on, and in reach.
LEMMA Onwards ==
  ASSUME NEW s \in Text, NEW n \in Nat, n = Len(s), NEW i \in 1..(n + 1)
  PROVE  /\ i <= n => i + 1 \in 1..(n + 1) /\ s[i] \in Alphabet
         /\ At(s, i) # "end" => i <= n
         /\ i <= n => At(s, i) = s[i]
<1>1. DOMAIN s = 1..n /\ \A j \in 1..n : s[j] \in Alphabet
  BY Marks
<1> QED
  BY <1>1 DEF At

\* There is such a function.
LEMMA Undoubling ==
  ASSUME NEW s \in Text
  PROVE  \E f : Undoubles(s, f)
<1>1. PICK n \in Nat : n = Len(s)
  BY Marks
<1>2. PICK Q : Q = Seq(Alphabet \cup {"error"})
  OBVIOUS
<1>3. PICK D : D = 1..(n + 1)
  OBVIOUS
<1>4. PICK w : w = [i \in D |-> n + 1 - i]
  BY Zenon
<1>5. \A c \in Alphabet, q \in Q : <<c>> \o q \in Q
  BY <1>2
<1>6. NotWrapped \in Q /\ <<>> \in Q /\ Tick \in Alphabet /\ Tick # "end"
  BY <1>2, Marks DEF NotWrapped, Tick
<1>7. ASSUME NEW i \in D
      PROVE  /\ i <= n => i + 1 \in D /\ s[i] \in Alphabet
             /\ i <= n /\ At(s, i + 1) = Tick => i + 2 \in D
  <2>1. i <= n => i + 1 \in D /\ s[i] \in Alphabet
    BY <1>1, <1>3, Onwards
  <2>2. ASSUME i <= n, At(s, i + 1) = Tick PROVE i + 2 \in D
    <3>1. i + 1 \in 1..(n + 1)
      BY <1>3, <2>1, <2>2
    <3>2. i + 1 <= n
      BY <1>1, <1>6, <2>2, <3>1, Onwards
    <3> QED
      BY <1>3, <3>2
  <2> QED
    BY <2>1, <2>2
<1>8. ASSUME NEW f, NEW i \in D, \A j \in D : j > i => f[j] \in Q
      PROVE  Single(s, i, f) \in Q
  <2>1. CASE i > n
    BY <1>1, <1>6, <2>1 DEF Single
  <2>2. CASE i <= n
    <3>1. i + 1 \in D /\ s[i] \in Alphabet /\ ~(i > n)
      BY <1>3, <1>7, <2>2
    <3>2. f[i + 1] \in Q
      BY <1>3, <1>8, <3>1
    <3>3. <<s[i]>> \o f[i + 1] \in Q
      BY <1>5, <3>1, <3>2
    <3>4. ASSUME At(s, i + 1) = Tick PROVE <<Tick>> \o f[i + 2] \in Q
      <4>1. i + 2 \in D /\ i + 2 > i
        BY <1>3, <1>7, <2>2, <3>4
      <4> QED
        BY <1>5, <1>6, <1>8, <4>1
    <3> QED
      BY <1>1, <1>6, <3>1, <3>3, <3>4 DEF Single
  <2> QED
    BY <1>3, <2>1, <2>2
<1>9. ASSUME NEW i \in D, NEW a, NEW b, \A j \in D : j > i => a[j] = b[j]
      PROVE  Single(s, i, a) = Single(s, i, b)
  <2>1. i <= n => a[i + 1] = b[i + 1]
    BY <1>3, <1>7, <1>9
  <2>2. i <= n /\ At(s, i + 1) = Tick => a[i + 2] = b[i + 2]
    BY <1>3, <1>7, <1>9
  <2> QED
    BY <1>1, <1>3, <2>1, <2>2 DEF Single
<1>10. \A i \in D : w[i] \in 0..(n + 1) /\ \A j \in D : w[j] < w[i] <=> j > i
  BY <1>3, <1>4
<1>11. \E f \in [D -> Q] : f = [i \in D |-> Single(s, i, f)]
  <2>1. PICK F : F = [x \in D \X [D -> Q] |-> Single(s, x[1], x[2])]
    BY Zenon
  <2>2. \A i \in D, a \in [D -> Q] : F[<<i, a>>] = Single(s, i, a)
    BY <2>1
  <2>3. F \in [D \X [D -> Q] -> Q]
    <3>1. ASSUME NEW i \in D, NEW a \in [D -> Q] PROVE Single(s, i, a) \in Q
      BY <1>8
    <3> QED
      BY <2>1, <3>1
  <2>4. ASSUME NEW i \in D, NEW a \in [D -> Q], NEW b \in [D -> Q],
               \A j \in D : w[j] < w[i] => a[j] = b[j]
        PROVE  F[<<i, a>>] = F[<<i, b>>]
    <3>1. \A j \in D : j > i => a[j] = b[j]
      BY <1>10, <2>4
    <3>2. Single(s, i, a) = Single(s, i, b)
      BY <1>9, <3>1
    <3> QED
      BY <2>2, <3>2
  <2>5. Recursion(D, n + 1, w, Q, F)
    <3>1. w \in [D -> 0..(n + 1)] /\ Q # {} /\ n + 1 \in Nat
      BY <1>4, <1>6, <1>10
    <3> QED
      BY <2>3, <2>4, <3>1, Zenon DEF Recursion
  <2>6. PICK f : Solves(D, Q, F, f)
    BY <2>5, RecursiveFunction
  <2>7. f \in [D -> Q] /\ \A i \in D : f[i] = Single(s, i, f)
    BY <2>2, <2>6, Zenon DEF Solves
  <2>8. f = [i \in D |-> Single(s, i, f)]
    BY <2>7
  <2> QED
    BY <2>7, <2>8
<1>12. PICK h : h = CHOOSE f : f = [i \in D |-> Single(s, i, f)]
  OBVIOUS
<1>13. h = [i \in D |-> Single(s, i, h)]
  BY <1>11, <1>12
<1>14. Undouble(s) = h[1]
  BY <1>1, <1>3, <1>12 DEF Undouble, Single
<1>15. \A i \in D : h[i] = Single(s, i, h)
  BY <1>13
<1>16. D \subseteq {i \in D : h[i] \in Q}
  <2>1. PICK T : T = {i \in D : h[i] \in Q}
    BY Zenon
  <2>2. ASSUME NEW i \in D, \A j \in D : w[j] < w[i] => j \in T
        PROVE  i \in T
    <3>1. \A j \in D : j > i => h[j] \in Q
      BY <1>10, <2>1, <2>2
    <3>2. Single(s, i, h) \in Q
      BY <1>8, <3>1
    <3> QED
      BY <1>15, <2>1, <3>2
  <2>3. \A i \in D : w[i] \in Nat
    BY <1>10
  <2>4. Inherits(D, w, T)
    BY <2>2, <2>3 DEF Inherits
  <2> QED
    BY <2>1, <2>4, Ranked
<1>17. h \in [D -> Q]
  BY <1>13, <1>16
<1> QED
  BY <1>1, <1>2, <1>3, <1>14, <1>15, <1>17 DEF Undoubles

\* u is the end of s, from position i on.
Ends(s, i, u) == Stands(s, i, u) /\ i + Len(u) = Len(s) + 1

\* Its first character is there, and the rest is the end after it.
LEMMA EndsFirst ==
  ASSUME NEW S, NEW s \in Seq(S), NEW i, NEW c \in S, NEW u \in Seq(S)
  PROVE  Ends(s, i, <<c>> \o u) <=> i \in 1..Len(s) /\ s[i] = c /\ Ends(s, i + 1, u)
<1>1. Len(<<c>> \o u) = Len(u) + 1 /\ Len(u) \in Nat /\ Len(s) \in Nat
  BY InFrontAt
<1>2. Stands(s, i, <<c>> \o u) <=> i \in 1..Len(s) /\ s[i] = c /\ Stands(s, i + 1, u)
  BY StandsFirst, Zenon
<1>3. ASSUME i \in 1..Len(s)
      PROVE  i + Len(<<c>> \o u) = Len(s) + 1 <=> (i + 1) + Len(u) = Len(s) + 1
  BY <1>1, <1>3
<1> QED
  BY <1>2, <1>3 DEF Ends

\* The empty text is the end after all others.
LEMMA EndsNothing ==
  ASSUME NEW S, NEW s \in Seq(S), NEW i
  PROVE  Ends(s, i, <<>>) <=> i = Len(s) + 1
<1>1. Len(<<>>) = 0 /\ Len(s) \in Nat
  OBVIOUS
<1>2. ASSUME i = Len(s) + 1 PROVE Ends(s, i, <<>>)
  BY <1>1, <1>2 DEF Ends, Stands
<1>3. ASSUME Ends(s, i, <<>>) PROVE i = Len(s) + 1
  BY <1>1, <1>3 DEF Ends, Stands
<1> QED
  BY <1>2, <1>3

\* Undouble finds the text whose back-ticks were doubled.
LEMMA UndoublesAll ==
  ASSUME NEW s \in Text, NEW f, Undoubles(s, f)
  PROVE  \A u \in Text : \A i : Ends(s, i, Spelled(Twice, u)) => f[i] = u
<1> DEFINE T == {u \in Text : \A i : Ends(s, i, Spelled(Twice, u)) => f[i] = u}
<1>1. PICK n \in Nat : n = Len(s) /\ s \in Seq(Alphabet)
  BY Marks
<1>2. /\ Spelled(Twice, <<>>) = <<>>
      /\ \A u \in Seq(Alphabet) : Spelled(Twice, u) \in Seq(Alphabet)
      /\ \A c \in Alphabet, u \in Seq(Alphabet) :
           Spelled(Twice, <<c>> \o u) = Twice[c] \o Spelled(Twice, u)
  BY Wrapping, Spelling, Zenon
<1>3. Tick \in Alphabet
  BY Marks
<1>4. \A i \in 1..(n + 1) : f[i] = Single(s, i, f)
  BY <1>1 DEF Undoubles
<1>5. <<>> \in T
  <2>1. ASSUME NEW i, Ends(s, i, Spelled(Twice, <<>>)) PROVE f[i] = <<>>
    <3>1. i = n + 1
      BY <1>1, <1>2, <2>1, EndsNothing
    <3>2. i \in 1..(n + 1) /\ i > n
      BY <3>1
    <3> QED
      BY <1>1, <1>4, <3>2, Zenon DEF Single
  <2>2. <<>> \in Text
    BY Marks
  <2> QED
    BY <2>1, <2>2
<1>6. ASSUME NEW c \in Alphabet, NEW u \in Seq(Alphabet), u \in T
      PROVE  <<c>> \o u \in T
  <2>1. PICK d \in Seq(Alphabet) : d = Spelled(Twice, u)
    BY <1>2
  <2>2. ASSUME NEW i, Ends(s, i, Spelled(Twice, <<c>> \o u))
        PROVE  f[i] = <<c>> \o u
    <3>1. Ends(s, i, Twice[c] \o d)
      BY <1>2, <2>1, <2>2, Zenon
    <3>2. CASE c # Tick
      <4>1. Ends(s, i, <<c>> \o d)
        BY <3>1, <3>2 DEF Twice
      <4>2. i \in 1..n /\ s[i] = c /\ Ends(s, i + 1, d)
        BY <1>1, <4>1, EndsFirst, Zenon
      <4>3. f[i + 1] = u
        BY <1>6, <2>1, <4>2
      <4>4. i \in 1..(n + 1) /\ ~(i > n)
        BY <4>2
      <4> QED
        BY <1>1, <1>4, <3>2, <4>2, <4>3, <4>4, Zenon DEF Single
    <3>3. CASE c = Tick
      <4>1. <<Tick, Tick>> = <<Tick>> \o <<Tick>> /\ <<Tick>> \in Seq(Alphabet)
        BY <1>3
      <4>2. (<<Tick>> \o <<Tick>>) \o d = <<Tick>> \o (<<Tick>> \o d)
        BY <4>1, Joined
      <4>3. PICK dd \in Seq(Alphabet) : dd = <<Tick>> \o d
        BY <4>1, JoinedAt, Zenon
      <4>4. Ends(s, i, <<Tick>> \o dd)
        BY <3>1, <3>3, <4>1, <4>2, <4>3, Zenon DEF Twice
      <4>5. i \in 1..n /\ s[i] = Tick /\ Ends(s, i + 1, dd)
        BY <1>1, <1>3, <4>4, EndsFirst
      <4>6. i + 1 \in 1..n /\ s[i + 1] = Tick /\ Ends(s, (i + 1) + 1, d)
        BY <1>1, <1>3, <4>3, <4>5, EndsFirst, Zenon
      <4>7. f[i + 2] = u
        <5>1. (i + 1) + 1 = i + 2
          BY <4>5
        <5> QED
          BY <1>6, <2>1, <4>6, <5>1
      <4>8. i \in 1..(n + 1) /\ ~(i > n) /\ At(s, i + 1) = Tick
        BY <1>1, <4>5, <4>6, Onwards
      <4> QED
        BY <1>1, <1>4, <3>3, <4>5, <4>7, <4>8, Zenon DEF Single
    <3> QED
      BY <3>2, <3>3
  <2>3. <<c>> \o u \in Text
    BY InFrontAt, Marks
  <2> QED
    BY <2>2, <2>3
<1>7. Seq(Alphabet) \subseteq T
  <2> HIDE DEF T
  <2> QED
    BY <1>5, <1>6, Texts
<1> QED
  BY <1>7, Marks

\* A text without its first character has no new characters.
LEMMA RestIn ==
  ASSUME NEW S, NEW R, NEW c, NEW q \in Seq(R), <<c>> \o q \in Seq(S), c \in R
  PROVE  c \in S /\ q \in Seq(S)
<1>1. PICK v : v = <<c>> \o q
  BY Zenon
<1>2. PICK m \in Nat : m = Len(q)
  OBVIOUS
<1>3. Len(v) = m + 1 /\ v[1] = c /\ \A j \in 1..m : v[j + 1] = q[j]
  BY <1>1, <1>2, InFrontAt
<1>4. \A j \in 1..(m + 1) : v[j] \in S
  BY <1>1, <1>3
<1>5. c \in S
  <2>1. 1 \in 1..(m + 1)
    OBVIOUS
  <2> QED
    BY <1>3, <1>4, <2>1
<1>6. \A j \in 1..m : q[j] \in S
  <2>1. ASSUME NEW j \in 1..m PROVE q[j] \in S
    <3>1. j + 1 \in 1..(m + 1)
      OBVIOUS
    <3> QED
      BY <1>3, <1>4, <3>1
  <2> QED
    BY <2>1
<1> QED
  BY <1>2, <1>5, <1>6

\* What Undouble makes of a text without an error is what was doubled.
LEMMA UndoublesOnly ==
  ASSUME NEW s \in Text, NEW f, Undoubles(s, f), f[1] \in Seq(Alphabet)
  PROVE  Ends(s, 1, Spelled(Twice, f[1]))
<1>1. PICK n \in Nat : n = Len(s) /\ s \in Seq(Alphabet)
  BY Marks
<1>2. /\ Spelled(Twice, <<>>) = <<>>
      /\ \A u \in Seq(Alphabet) : Spelled(Twice, u) \in Seq(Alphabet)
      /\ \A c \in Alphabet, u \in Seq(Alphabet) :
           Spelled(Twice, <<c>> \o u) = Twice[c] \o Spelled(Twice, u)
  BY Wrapping, Spelling, Zenon
<1>3. Tick \in Alphabet /\ "error" \notin Alphabet /\ Tick # "end"
  BY Marks DEF Tick
<1>4. PICK D : D = 1..(n + 1)
  OBVIOUS
<1>5. PICK w : w = [i \in D |-> n + 1 - i]
  BY Zenon
<1>6. /\ \A i \in D : f[i] = Single(s, i, f)
      /\ \A i \in D : f[i] \in Seq(Alphabet \cup {"error"})
  BY <1>1, <1>4, Zenon DEF Undoubles
<1>7. PICK T : T = {i \in D : f[i] \in Seq(Alphabet) => Ends(s, i, Spelled(Twice, f[i]))}
  BY Zenon
<1>8. ASSUME NEW i \in D, \A j \in D : w[j] < w[i] => j \in T
      PROVE  i \in T
  <2>1. SUFFICES ASSUME f[i] \in Seq(Alphabet)
                 PROVE  Ends(s, i, Spelled(Twice, f[i]))
    BY <1>7
  <2>2. \A j \in D : j > i /\ f[j] \in Seq(Alphabet) => Ends(s, j, Spelled(Twice, f[j]))
    BY <1>4, <1>5, <1>7, <1>8
  <2>3. CASE i = n + 1
    <3>0. i > n
      BY <2>3
    <3>1. f[i] = <<>>
      BY <1>1, <1>6, <3>0, Zenon DEF Single
    <3> QED
      BY <1>1, <1>2, <2>3, <3>1, EndsNothing
  <2>4. CASE i # n + 1 /\ s[i] # Tick
    <3>1. i \in 1..n /\ i + 1 \in D /\ ~(i > n) /\ i + 1 > i
      BY <1>4, <2>4
    <3>2. f[i] = <<s[i]>> \o f[i + 1]
      BY <1>1, <1>6, <2>4, <3>1, Zenon DEF Single
    <3>3. PICK c \in Alphabet : c = s[i]
      BY <1>1, <3>1
    <3>4. PICK q \in Seq(Alphabet \cup {"error"}) : q = f[i + 1]
      BY <1>6, <3>1
    <3>5. q \in Seq(Alphabet)
      BY <2>1, <3>2, <3>3, <3>4, RestIn
    <3>6. Ends(s, i + 1, Spelled(Twice, q))
      BY <2>2, <3>1, <3>4, <3>5
    <3>7. Ends(s, i, <<c>> \o Spelled(Twice, q))
      BY <1>1, <1>2, <3>1, <3>3, <3>5, <3>6, EndsFirst, Zenon
    <3>8. Spelled(Twice, f[i]) = <<c>> \o Spelled(Twice, q)
      <4>1. Twice[c] = <<c>>
        BY <2>4, <3>3 DEF Twice
      <4> QED
        BY <1>2, <3>2, <3>3, <3>4, <3>5, <4>1, Zenon
    <3> QED
      BY <3>7, <3>8
  <2>5. CASE i # n + 1 /\ s[i] = Tick /\ At(s, i + 1) # Tick
    <3>1. f[i] = <<"error">>
      BY <1>1, <1>4, <1>6, <2>5 DEF Single, NotWrapped
    <3>2. Len(<<"error">>) = 1 /\ <<"error">>[1] = "error"
      OBVIOUS
    <3>3. "error" \in Alphabet
      BY <2>1, <3>1, <3>2
    <3> QED
      BY <1>3, <3>3
  <2>6. CASE i # n + 1 /\ s[i] = Tick /\ At(s, i + 1) = Tick
    <3>1. i \in 1..n /\ i + 1 \in 1..n /\ i + 2 \in D /\ ~(i > n) /\ i + 2 > i
      <4>1. i \in 1..n /\ i + 1 \in 1..(n + 1) /\ ~(i > n) /\ i + 2 > i
        BY <1>4, <2>6
      <4>2. i + 1 <= n
        BY <1>1, <1>3, <2>6, <4>1, Onwards
      <4> QED
        BY <1>4, <4>1, <4>2
    <3>2. f[i] = <<Tick>> \o f[i + 2] /\ s[i + 1] = Tick
      <4>1. s[i + 1] = Tick
        BY <1>1, <2>6, <3>1 DEF At
      <4> QED
        BY <1>1, <1>6, <2>6, <3>1, <4>1, Zenon DEF Single
    <3>3. PICK q \in Seq(Alphabet \cup {"error"}) : q = f[i + 2]
      BY <1>6, <3>1
    <3>4. q \in Seq(Alphabet)
      BY <1>3, <2>1, <3>2, <3>3, RestIn
    <3>5. PICK d \in Seq(Alphabet) : d = Spelled(Twice, q)
      BY <1>2, <3>4
    <3>6. Ends(s, (i + 1) + 1, d)
      <4>1. (i + 1) + 1 = i + 2
        BY <3>1
      <4> QED
        BY <2>2, <3>1, <3>3, <3>4, <3>5, <4>1
    <3>7. PICK dd \in Seq(Alphabet) : dd = <<Tick>> \o d
      BY <1>3, InFrontAt, Zenon
    <3>8. Ends(s, i + 1, dd)
      <4>0. PICK k \in 1..Len(s) : k = i + 1 /\ s[k] = Tick /\ Ends(s, k + 1, d)
        BY <1>1, <3>1, <3>2, <3>6
      <4>1. Ends(s, i + 1, <<Tick>> \o d)
        BY <1>1, <1>3, <4>0, EndsFirst
      <4> QED
        BY <3>7, <4>1
    <3>9. Ends(s, i, <<Tick>> \o dd)
      BY <1>1, <1>3, <2>6, <3>1, <3>8, EndsFirst, Zenon
    <3>10. Spelled(Twice, f[i]) = <<Tick>> \o dd
      <4>1. <<Tick, Tick>> = <<Tick>> \o <<Tick>> /\ <<Tick>> \in Seq(Alphabet)
        BY <1>3
      <4>2. (<<Tick>> \o <<Tick>>) \o d = <<Tick>> \o (<<Tick>> \o d)
        BY <4>1, Joined
      <4>3. Twice[Tick] = <<Tick, Tick>>
        BY <1>3 DEF Twice
      <4>4. Spelled(Twice, f[i]) = Twice[Tick] \o d
        BY <1>2, <1>3, <3>2, <3>3, <3>4, <3>5, ZenonT(60)
      <4> QED
        BY <3>7, <4>1, <4>2, <4>3, <4>4, Zenon
    <3> QED
      BY <3>9, <3>10
  <2> QED
    BY <2>3, <2>4, <2>5, <2>6
<1>9. D \subseteq T
  <2>1. \A i \in D : w[i] \in Nat
    BY <1>4, <1>5
  <2>2. Inherits(D, w, T)
    BY <1>8, <2>1 DEF Inherits
  <2> QED
    BY <2>2, Ranked
<1>10. 1 \in D
  BY <1>4
<1> QED
  BY <1>7, <1>9, <1>10

\* A text between back-ticks, and what is between them.
LEMMA Between ==
  ASSUME NEW S, NEW c \in S, NEW u \in Seq(S), NEW w, w = <<c>> \o u \o <<c>>
  PROVE  /\ Len(w) >= 2 /\ w[1] = c /\ w[Len(w)] = c
         /\ SubSeq(w, 2, Len(w) - 1) = u
<1>1. PICK m \in Nat : m = Len(u)
  OBVIOUS
<1>2. PICK v : v = <<c>> \o u
  BY Zenon
<1>3. v \in Seq(S) /\ Len(v) = m + 1 /\ v[1] = c /\ \A j \in 1..m : v[j + 1] = u[j]
  BY <1>1, <1>2, InFrontAt
<1>4. PICK z \in Seq(S) : z = <<c>> /\ Len(z) = 1 /\ z[1] = c
  <2>1. <<c>> \in Seq(S) /\ Len(<<c>>) = 1 /\ <<c>>[1] = c
    OBVIOUS
  <2> QED
    BY <2>1, Zenon
<1>5. /\ w \in Seq(S) /\ Len(w) = (m + 1) + 1
      /\ \A j \in 1..((m + 1) + 1) : w[j] = IF j <= m + 1 THEN v[j] ELSE z[j - (m + 1)]
  <2>1. w = v \o z
    BY <1>2, <1>4
  <2> QED
    BY <1>3, <1>4, <2>1, JoinedAt
<1>6. w[1] = c
  <2>1. 1 \in 1..((m + 1) + 1) /\ 1 <= m + 1
    OBVIOUS
  <2> QED
    BY <1>3, <1>5, <2>1
<1>7. w[m + 2] = c
  <2>1. m + 2 \in 1..((m + 1) + 1) /\ ~(m + 2 <= m + 1) /\ (m + 2) - (m + 1) = 1
    OBVIOUS
  <2>2. w[m + 2] = z[(m + 2) - (m + 1)]
    BY <1>5, <2>1, Zenon
  <2> QED
    BY <1>4, <2>1, <2>2, Zenon
<1>8. SubSeq(w, 2, m + 1) = u
  <2>1. PICK x : x = SubSeq(w, 2, m + 1)
    BY Zenon
  <2>2. x \in Seq(S) /\ Len(x) = m /\ \A j \in 1..m : x[j] = w[j + 1]
    <3>1. \A j \in 1..m : 2 + j - 1 = j + 1 /\ j + 1 \in 1..Len(w)
      BY <1>5
    <3>2. /\ SubSeq(w, 2, m + 1) \in Seq(S) /\ Len(SubSeq(w, 2, m + 1)) = m
          /\ \A j \in 1..m : SubSeq(w, 2, m + 1)[j] = w[2 + j - 1]
      BY <1>5
    <3> QED
      BY <2>1, <3>1, <3>2, Zenon
  <2>3. ASSUME NEW j \in 1..m PROVE x[j] = u[j]
    <3>1. j + 1 \in 1..((m + 1) + 1) /\ j + 1 <= m + 1
      OBVIOUS
    <3>2. w[j + 1] = v[j + 1]
      BY <1>5, <3>1
    <3> QED
      BY <1>3, <2>2, <3>2, Zenon
  <2> QED
    BY <1>1, <2>1, <2>2, <2>3, SeqEqual
<1> QED
  BY <1>5, <1>6, <1>7, <1>8

\* A text with back-ticks at both ends is wrapped around what is between.
LEMMA Around ==
  ASSUME NEW S, NEW w \in Seq(S), Len(w) >= 2, NEW c \in S, w[1] = c, w[Len(w)] = c
  PROVE  /\ SubSeq(w, 2, Len(w) - 1) \in Seq(S)
         /\ w = <<c>> \o SubSeq(w, 2, Len(w) - 1) \o <<c>>
<1>1. PICK n \in Nat : n = Len(w) /\ n >= 2
  OBVIOUS
<1>2. PICK u : u = SubSeq(w, 2, n - 1)
  BY Zenon
<1>3. PICK m \in Nat : n = m + 2
  <2>1. n - 2 \in Nat /\ n = (n - 2) + 2
    BY <1>1
  <2> QED
    BY <2>1
<1>4. u \in Seq(S) /\ Len(u) = m /\ \A j \in 1..m : u[j] = w[j + 1]
  <2>1. \A j \in 1..m : 2 + j - 1 = j + 1 /\ j + 1 \in 1..Len(w)
    BY <1>1, <1>3
  <2>2. n - 1 = m + 1
    BY <1>3
  <2>3. /\ SubSeq(w, 2, m + 1) \in Seq(S) /\ Len(SubSeq(w, 2, m + 1)) = m
        /\ \A j \in 1..m : SubSeq(w, 2, m + 1)[j] = w[2 + j - 1]
    <3>1. 2 \in 1..Len(w) /\ 2 + m - 1 <= Len(w) /\ 2 + m - 1 = m + 1
      BY <1>1, <1>3
    <3>2. /\ SubSeq(w, 2, 2 + m - 1) \in Seq(S) /\ Len(SubSeq(w, 2, 2 + m - 1)) = m
          /\ \A j \in 1..m : SubSeq(w, 2, 2 + m - 1)[j] = w[2 + j - 1]
      BY <3>1, SubSeqAt
    <3> QED
      BY <3>1, <3>2
  <2> QED
    BY <1>2, <2>1, <2>2, <2>3
<1>5. PICK v : v = <<c>> \o u
  BY Zenon
<1>6. v \in Seq(S) /\ Len(v) = m + 1 /\ v[1] = c /\ \A j \in 1..m : v[j + 1] = u[j]
  BY <1>4, <1>5, InFrontAt
<1>7. PICK z \in Seq(S) : z = <<c>> /\ Len(z) = 1 /\ z[1] = c
  <2>1. <<c>> \in Seq(S) /\ Len(<<c>>) = 1 /\ <<c>>[1] = c
    OBVIOUS
  <2> QED
    BY <2>1, Zenon
<1>8. PICK x : x = v \o z
  BY Zenon
<1>9. /\ x \in Seq(S) /\ Len(x) = (m + 1) + 1
      /\ \A j \in 1..((m + 1) + 1) : x[j] = IF j <= m + 1 THEN v[j] ELSE z[j - (m + 1)]
  BY <1>6, <1>7, <1>8, JoinedAt
<1>10. ASSUME NEW j \in 1..n PROVE w[j] = x[j]
  <2>1. CASE j = 1
    <3>1. j \in 1..((m + 1) + 1) /\ j <= m + 1
      BY <2>1
    <3> QED
      BY <1>6, <1>9, <2>1, <3>1
  <2>2. CASE j \in 2..(m + 1)
    <3>1. PICK k \in 1..m : j = k + 1
      <4>1. j - 1 \in 1..m /\ j = (j - 1) + 1
        BY <2>2
      <4> QED
        BY <4>1
    <3>2. j \in 1..((m + 1) + 1) /\ j <= m + 1
      BY <2>2
    <3> QED
      BY <1>4, <1>6, <1>9, <3>1, <3>2, Zenon
  <2>3. CASE j = m + 2
    <3>1. j \in 1..((m + 1) + 1) /\ ~(j <= m + 1) /\ j - (m + 1) = 1
      BY <2>3
    <3>2. x[j] = z[j - (m + 1)]
      BY <1>9, <3>1
    <3> QED
      BY <1>1, <1>3, <1>7, <2>3, <3>1, <3>2
  <2> QED
    BY <1>3, <2>1, <2>2, <2>3
<1>11. Len(x) = n
  BY <1>3, <1>9
<1>12. w = x
  BY <1>1, <1>9, <1>10, <1>11, SeqEqual, Zenon
<1> QED
  BY <1>1, <1>2, <1>4, <1>5, <1>7, <1>8, <1>12, Zenon

\* WrapInBackticks and UnwrapFromBackticks undo each other.
LEMMA Backticks ==
  ASSUME NEW t \in Text
  PROVE  /\ UnwrapFromBackticks(WrapInBackticks(t)) = t
         /\ UnwrapFromBackticks(t) # NotWrapped
            => WrapInBackticks(UnwrapFromBackticks(t)) = t
<1>1. /\ t \in Seq(Alphabet) /\ Tick \in Alphabet /\ "error" \notin Alphabet
      /\ \A u \in Seq(Alphabet) : u \in Text
  BY Marks
<1>2. \A u \in Seq(Alphabet) : Spelled(Twice, u) \in Seq(Alphabet)
  BY Wrapping, Spelling
<1>3. UnwrapFromBackticks(WrapInBackticks(t)) = t
  <2>1. PICK d \in Seq(Alphabet) : d = Spelled(Twice, t)
    BY <1>1, <1>2
  <2>2. PICK w : w = WrapInBackticks(t)
    OBVIOUS
  <2>3. w = <<Tick>> \o d \o <<Tick>>
    BY <2>1, <2>2, Wrapping
  <2>4. Len(w) >= 2 /\ w[1] = Tick /\ w[Len(w)] = Tick /\ SubSeq(w, 2, Len(w) - 1) = d
    BY <1>1, <2>3, Between
  <2>5. PICK f : Undoubles(d, f)
    BY <1>1, Undoubling
  <2>6. Ends(d, 1, d)
    <3>1. Stands(d, 1, d)
      BY StandsWhole
    <3>2. 1 + Len(d) = Len(d) + 1
      OBVIOUS
    <3> QED
      BY <3>1, <3>2 DEF Ends
  <2>7. Undouble(d) = t
    <3>1. f[1] = t
      BY <1>1, <2>1, <2>5, <2>6, UndoublesAll
    <3> QED
      BY <2>5, <3>1 DEF Undoubles
  <2>8. ~Contains(t, "error")
    BY <1>1 DEF Contains
  <2>9. Len(w) \in Nat
    <3>1. w \in Seq(Alphabet)
      BY <1>1, <2>3
    <3> QED
      BY <3>1
  <2> QED
    <3>1. Undouble(SubSeq(w, 2, Len(w) - 1)) = t
      BY <2>4, <2>7, Zenon
    <3>2. ~(Len(w) < 2)
      BY <2>4, <2>9
    <3>3. UnwrapFromBackticks(w) = t
      BY <2>4, <2>8, <3>1, <3>2 DEF UnwrapFromBackticks
    <3> QED
      BY <2>2, <3>3
<1>4. ASSUME UnwrapFromBackticks(t) # NotWrapped
      PROVE  WrapInBackticks(UnwrapFromBackticks(t)) = t
  <2>1. PICK d : d = SubSeq(t, 2, Len(t) - 1)
    BY Zenon
  <2>2. /\ ~(Len(t) < 2) /\ t[1] = Tick /\ t[Len(t)] = Tick
        /\ ~Contains(Undouble(d), "error") /\ UnwrapFromBackticks(t) = Undouble(d)
    BY <1>4, <2>1 DEF UnwrapFromBackticks
  <2>3. Len(t) >= 2
    BY <1>1, <2>2
  <2>4. d \in Seq(Alphabet) /\ t = <<Tick>> \o d \o <<Tick>>
    BY <1>1, <2>1, <2>2, <2>3, Around
  <2>5. PICK f : Undoubles(d, f)
    BY <1>1, <2>4, Undoubling
  <2>6. PICK u \in Seq(Alphabet \cup {"error"}) : u = Undouble(d) /\ u = f[1]
    <3>1. 1 \in 1..(Len(d) + 1)
      BY <2>4
    <3> QED
      BY <2>5, <3>1 DEF Undoubles
  <2>7. u \in Seq(Alphabet)
    <3>1. \A j \in 1..Len(u) : u[j] \in Alphabet
      BY <2>2, <2>6 DEF Contains
    <3> QED
      BY <3>1
  <2>8. Ends(d, 1, Spelled(Twice, u))
    BY <1>1, <2>4, <2>5, <2>6, <2>7, UndoublesOnly
  <2>9. PICK x \in Seq(Alphabet) : x = Spelled(Twice, u)
    BY <1>2, <2>7
  <2>10. Len(x) = Len(d)
    BY <2>4, <2>8, <2>9 DEF Ends
  <2>11. Spelled(Twice, u) = d
    BY <2>4, <2>8, <2>9, <2>10, StandsWhole DEF Ends
  <2> QED
    BY <1>1, <2>2, <2>4, <2>6, <2>7, <2>11, Wrapping, Zenon
<1> QED
  BY <1>3, <1>4

----------------------------------------------------------------------------
(* The order of texts.                                                     *)

\* A set of numbers has a least one.
LEMMA Least ==
  ASSUME NEW K, K \subseteq Nat, K # {}
  PROVE  \E n \in K : \A k \in K : n <= k
<1> DEFINE T == {n \in Nat : \A k \in K : n <= k}
<1>1. SUFFICES ASSUME \A n \in K : \E k \in K : ~(n <= k) PROVE FALSE
  OBVIOUS
<1>2. 0 \in T
  OBVIOUS
<1>3. ASSUME NEW n \in Nat, n \in T PROVE n + 1 \in T
  <2>1. n \notin K
    BY <1>1, <1>3
  <2>2. ASSUME NEW k \in K PROVE n + 1 <= k
    <3>1. k \in Nat /\ n <= k /\ n # k
      BY <1>3, <2>1
    <3> QED
      BY <3>1
  <2> QED
    BY <2>2
<1>4. Nat \subseteq T
  <2> HIDE DEF T
  <2> QED
    BY <1>2, <1>3, Numbers
<1>5. PICK k \in K : k \in Nat
  BY Zenon
<1>6. k + 1 \in T
  BY <1>4
<1> QED
  BY <1>5, <1>6

\* The place of a character tells which it is.
LEMMA Places ==
  ASSUME NEW t \in Text, NEW i
  PROVE  /\ Place(t, i) \in Nat
         /\ i \in DOMAIN t => Place(t, i) > 0 /\ t[i] = Characters[Place(t, i)]
         /\ i \notin DOMAIN t => Place(t, i) = 0
<1>1. CASE i \in DOMAIN t
  <2>1. t[i] \in ToSet(Characters)
    BY <1>1 DEF Text
  <2>2. \E p \in DOMAIN Characters : Characters[p] = t[i]
    BY <2>1 DEF ToSet
  <2>3. Place(t, i) \in DOMAIN Characters /\ Characters[Place(t, i)] = t[i]
    BY <1>1, <2>2 DEF Place
  <2>4. DOMAIN Characters = 1..Len(Characters) /\ Len(Characters) \in Nat
    BY CharactersAssumption
  <2> QED
    BY <1>1, <2>3, <2>4
<1>2. CASE i \notin DOMAIN t
  BY <1>2 DEF Place
<1> QED
  BY <1>1, <1>2

\* t comes before u at position i.
At1(t, u, i) == Place(t, i) < Place(u, i) /\ \A j \in 1..i - 1 : Place(t, j) = Place(u, j)

\* Precedes is a total order.
LEMMA Order ==
  /\ \A t \in Text : ~Precedes(t, t)
  /\ \A t, u \in Text : t # u => Precedes(t, u) \/ Precedes(u, t)
  /\ \A t, u, v \in Text : Precedes(t, u) /\ Precedes(u, v) => Precedes(t, v)
<1>1. ASSUME NEW t \in Text, NEW u \in Text
      PROVE  /\ Precedes(t, u) <=> \E i \in Nat \ {0} : At1(t, u, i)
             /\ \A i : Place(t, i) \in Nat /\ Place(u, i) \in Nat
  <2>1. /\ \A i : Place(t, i) \in Nat /\ Place(u, i) \in Nat
        /\ \A i : i \notin DOMAIN u => Place(u, i) = 0
        /\ DOMAIN u \subseteq Nat \ {0}
    BY Places DEF Text
  <2>2. ASSUME NEW i \in Nat \ {0}, At1(t, u, i) PROVE i \in DOMAIN u
    BY <2>1, <2>2 DEF At1
  <2> QED
    BY <2>1, <2>2 DEF Precedes, At1
<1>2. ASSUME NEW t \in Text PROVE ~Precedes(t, t)
  BY <1>1 DEF At1
<1>3. ASSUME NEW t \in Text, NEW u \in Text, t # u
      PROVE  Precedes(t, u) \/ Precedes(u, t)
  <2> DEFINE K == {i \in Nat \ {0} : Place(t, i) # Place(u, i)}
  <2>1. K # {}
    <3>1. SUFFICES ASSUME \A i \in Nat \ {0} : Place(t, i) = Place(u, i) PROVE t = u
      BY <1>3
    <3>2. PICK A : A = ToSet(Characters) /\ t \in Seq(A) /\ u \in Seq(A)
      BY DEF Text
    <3>3. DOMAIN t = DOMAIN u
      <4>1. DOMAIN t \subseteq Nat \ {0} /\ DOMAIN u \subseteq Nat \ {0}
        BY <3>2
      <4>2. \A i \in Nat \ {0} : i \in DOMAIN t <=> i \in DOMAIN u
        BY <3>1, Places
      <4> QED
        BY <4>1, <4>2
    <3>4. Len(t) = Len(u) /\ DOMAIN t = 1..Len(t)
      <4>1. PICK m \in Nat : m = Len(t) /\ DOMAIN t = 1..m
        BY <3>2
      <4>2. PICK n \in Nat : n = Len(u) /\ DOMAIN u = 1..n
        BY <3>2
      <4>3. 1..m = 1..n
        BY <3>3, <4>1, <4>2, Zenon
      <4>4. m = n
        <5>1. m > 0 => m \in 1..n
          BY <4>3
        <5>2. n > 0 => n \in 1..m
          BY <4>3
        <5> QED
          BY <5>1, <5>2
      <4> QED
        BY <4>1, <4>2, <4>4
    <3>5. ASSUME NEW i \in 1..Len(t) PROVE t[i] = u[i]
      <4>1. i \in DOMAIN t /\ i \in DOMAIN u /\ i \in Nat \ {0}
        BY <3>3, <3>4
      <4> QED
        BY <3>1, <4>1, Places
    <3> QED
      BY <3>2, <3>4, <3>5, SeqEqual
  <2>2. PICK i \in K : \A k \in K : i <= k
    <3>1. K \subseteq Nat
      OBVIOUS
    <3> HIDE DEF K
    <3> QED
      BY <2>1, <3>1, Least, Zenon
  <2>3. \A j \in 1..i - 1 : Place(t, j) = Place(u, j)
    BY <2>2
  <2>4. i \in Nat \ {0} /\ Place(t, i) # Place(u, i)
    OBVIOUS
  <2>5. Place(t, i) \in Nat /\ Place(u, i) \in Nat
    BY <1>1
  <2>6. At1(t, u, i) \/ At1(u, t, i)
    BY <2>3, <2>4, <2>5 DEF At1
  <2> QED
    BY <1>1, <2>4, <2>6
<1>4. ASSUME NEW t \in Text, NEW u \in Text, NEW v \in Text, Precedes(t, u), Precedes(u, v)
      PROVE  Precedes(t, v)
  <2>1. PICK a \in Nat \ {0} : At1(t, u, a)
    BY <1>1, <1>4
  <2>2. PICK b \in Nat \ {0} : At1(u, v, b)
    BY <1>1, <1>4
  <2>3. \A i : Place(t, i) \in Nat /\ Place(u, i) \in Nat /\ Place(v, i) \in Nat
    BY <1>1
  <2>4. PICK i \in Nat \ {0} : i = IF a <= b THEN a ELSE b
    OBVIOUS
  <2>5. ASSUME NEW j \in 1..i - 1 PROVE Place(t, j) = Place(v, j)
    <3>1. j \in 1..a - 1 /\ j \in 1..b - 1
      BY <2>4
    <3> QED
      BY <2>1, <2>2, <3>1 DEF At1
  <2>6. Place(t, i) < Place(v, i)
    <3>1. CASE a < b
      <4>1. i = a /\ a \in 1..b - 1
        BY <2>4, <3>1
      <4> QED
        BY <2>1, <2>2, <2>3, <4>1 DEF At1
    <3>2. CASE b < a
      <4>1. i = b /\ b \in 1..a - 1
        BY <2>4, <3>2
      <4> QED
        BY <2>1, <2>2, <2>3, <4>1 DEF At1
    <3>3. CASE a = b
      <4>1. i = a /\ i = b
        BY <2>4, <3>3
      <4> QED
        BY <2>1, <2>2, <2>3, <4>1 DEF At1
    <3> QED
      BY <3>1, <3>2, <3>3
  <2>7. At1(t, v, i)
    BY <2>5, <2>6 DEF At1
  <2> QED
    BY <1>1, <2>7
<1> QED
  BY <1>2, <1>3, <1>4

\* keys lists K in ascending order.
Lists(keys, K, n) ==
  /\ keys \in [1..n -> K] /\ \A k \in K : \E i \in 1..n : keys[i] = k
  /\ \A i, j \in 1..n : i < j => Precedes(keys[i], keys[j])

\* A finite set of texts has its list, which is what Sorted chooses.
LEMMA SortedLists ==
  ASSUME NEW K, K \subseteq Text, IsFiniteSet(K)
  PROVE  Cardinality(K) \in Nat /\ Lists(Sorted(K), K, Cardinality(K))
<1>1. PICK n \in Nat : n = Cardinality(K)
  BY FS_CardinalityType
<1> DEFINE Below(k) == {j \in K : Precedes(j, k)}
<1>2. ASSUME NEW k \in K
      PROVE  IsFiniteSet(Below(k)) /\ Cardinality(Below(k)) \in 0..(n - 1)
  <2>1. PICK B : B = Below(k)
    BY Zenon
  <2>2. B \subseteq K /\ k \notin B
    BY <2>1, Order
  <2>3. IsFiniteSet(B) /\ Cardinality(B) <= n /\ Cardinality(B) # n
    BY <1>1, <2>2, FS_Subset
  <2>4. Cardinality(B) \in Nat
    BY <2>3, FS_CardinalityType
  <2> QED
    BY <2>1, <2>3, <2>4
<1>3. ASSUME NEW k \in K, NEW l \in K, Precedes(k, l)
      PROVE  Cardinality(Below(k)) < Cardinality(Below(l))
  <2>1. PICK B : B = Below(k)
    BY Zenon
  <2>2. PICK C : C = Below(l)
    BY Zenon
  <2>3. B \subseteq C /\ k \in C /\ k \notin B
    BY <1>3, <2>1, <2>2, Order
  <2>4. IsFiniteSet(C) /\ Cardinality(C) \in Nat /\ Cardinality(B) \in Nat
    <3>1. IsFiniteSet(Below(l)) /\ Cardinality(Below(l)) \in 0..(n - 1)
      BY <1>2
    <3>2. Cardinality(Below(k)) \in 0..(n - 1)
      BY <1>2, Zenon
    <3>3. 0..(n - 1) \subseteq Nat
      OBVIOUS
    <3> HIDE DEF Below
    <3> QED
      BY <2>1, <2>2, <3>1, <3>2, <3>3
  <2>5. Cardinality(B) <= Cardinality(C) /\ Cardinality(B) # Cardinality(C)
    BY <2>3, <2>4, FS_Subset
  <2> QED
    BY <2>1, <2>2, <2>4, <2>5
<1>4. PICK rank : rank = [k \in K |-> Cardinality(Below(k)) + 1]
  BY Zenon
<1>5. rank \in [K -> 1..n]
  <2>1. ASSUME NEW k \in K PROVE Cardinality(Below(k)) + 1 \in 1..n
    <3>1. PICK r \in 0..(n - 1) : r = Cardinality(Below(k))
      BY <1>2, Zenon
    <3> QED
      BY <3>1
  <2> QED
    BY <1>4, <2>1
<1>6. ASSUME NEW k \in K, NEW l \in K, Precedes(k, l) PROVE rank[k] < rank[l]
  <2>1. PICK r \in 0..(n - 1) : r = Cardinality(Below(k))
    BY <1>2, Zenon
  <2>2. PICK q \in 0..(n - 1) : q = Cardinality(Below(l))
    BY <1>2, Zenon
  <2>3. r < q
    BY <1>3, <1>6, <2>1, <2>2
  <2>4. rank[k] = r + 1 /\ rank[l] = q + 1
    BY <1>4, <2>1, <2>2
  <2> QED
    BY <2>3, <2>4
<1> HIDE DEF Below
<1>7. rank \in Injection(K, 1..n)
  <2>1. ASSUME NEW k \in K, NEW l \in K, rank[k] = rank[l] PROVE k = l
    <3>1. rank[k] \in 1..n /\ ~(rank[k] < rank[l]) /\ ~(rank[l] < rank[k])
      BY <1>5, <2>1
    <3> QED
      BY <1>6, <3>1, Order
  <2> QED
    BY <1>5, <2>1 DEF Injection, IsInjective
<1>8. rank \in Surjection(K, 1..n)
  <2>1. IsFiniteSet(1..n) /\ Cardinality(1..n) = n
    <3>1. 1 \in Int /\ n \in Int /\ (IF 1 > n THEN 0 ELSE n - 1 + 1) = n
      OBVIOUS
    <3> QED
      BY <3>1, FS_Interval
  <2> QED
    BY <1>1, <1>7, <2>1, FS_Injection
<1>9. \A i \in 1..n : \E k \in K : rank[k] = i
  BY <1>8 DEF Surjection
<1>10. PICK keys : keys = [i \in 1..n |-> CHOOSE k \in K : rank[k] = i]
  BY Zenon
<1>11. \A i \in 1..n : keys[i] \in K /\ rank[keys[i]] = i
  BY <1>9, <1>10
<1>12. keys \in [1..n -> K]
  BY <1>10, <1>11
<1>13. ASSUME NEW i \in 1..n, NEW j \in 1..n, i < j PROVE Precedes(keys[i], keys[j])
  <2>1. /\ keys[i] \in K /\ keys[j] \in K
        /\ rank[keys[i]] = i /\ rank[keys[j]] = j
    BY <1>11
  <2>2. keys[i] # keys[j] /\ ~(j < i)
    BY <1>13, <2>1
  <2>3. ~Precedes(keys[j], keys[i])
    BY <1>6, <2>1, <2>2
  <2> QED
    BY <2>1, <2>2, <2>3, Order
<1>14. PICK s : s = Sorted(K)
  OBVIOUS
<1>15. s \in [1..n -> K] /\ \A i, j \in 1..n : i < j => Precedes(s[i], s[j])
  <2>1. PICK P : P = {q \in [1..n -> K] : \A i, j \in 1..n : i < j => Precedes(q[i], q[j])}
    BY Zenon
  <2>2. keys \in P
    BY <1>12, <1>13, <2>1
  <2>3. s \in P
    <3>1. s = CHOOSE q \in [1..n -> K] :
                \A i, j \in DOMAIN q : i < j => Precedes(q[i], q[j])
      BY <1>1, <1>14 DEF Sorted
    <3>2. \A q \in [1..n -> K] : DOMAIN q = 1..n
      OBVIOUS
    <3>3. \E q \in [1..n -> K] : \A i, j \in DOMAIN q : i < j => Precedes(q[i], q[j])
      BY <1>12, <1>13, <3>2
    <3>4. s \in [1..n -> K] /\ \A i, j \in DOMAIN s : i < j => Precedes(s[i], s[j])
      BY <3>1, <3>3
    <3> QED
      BY <2>1, <3>2, <3>4
  <2> QED
    BY <2>1, <2>3
<1>16. ASSUME NEW k \in K PROVE \E i \in 1..n : s[i] = k
  <2>1. s \in Injection(1..n, K)
    <3>1. ASSUME NEW i \in 1..n, NEW j \in 1..n, s[i] = s[j] PROVE i = j
      <4>1. ~Precedes(s[i], s[j]) /\ ~Precedes(s[j], s[i])
        BY <1>15, <3>1, Order
      <4>2. ~(i < j) /\ ~(j < i)
        BY <1>15, <4>1
      <4> QED
        BY <4>2
    <3> QED
      BY <1>15, <3>1 DEF Injection, IsInjective
  <2>2. Cardinality(1..n) = n
    <3>1. 1 \in Int /\ n \in Int /\ (IF 1 > n THEN 0 ELSE n - 1 + 1) = n
      OBVIOUS
    <3> QED
      BY <3>1, FS_Interval
  <2>3. s \in Surjection(1..n, K)
    BY <1>1, <2>1, <2>2, FS_Injection
  <2> QED
    BY <2>3 DEF Surjection
<1>17. Lists(s, K, n)
  BY <1>15, <1>16 DEF Lists
<1> QED
  BY <1>1, <1>14, <1>17

----------------------------------------------------------------------------
(* What is written.                                                        *)

\* A character as Escape spells it.
Spelt == [c \in Alphabet |-> IF c \in Reserved THEN <<Backslash, c>> ELSE <<c>>]

\* Escape spells out character by character.
LEMMA Escaping ==
  /\ Spelt \in [Alphabet -> Seq(Alphabet)]
  /\ Escape(<<>>) = <<>>
  /\ \A u \in Seq(Alphabet) : Escape(u) \in Seq(Alphabet)
  /\ \A c \in Alphabet, u \in Seq(Alphabet) : Escape(<<c>> \o u) = Spelt[c] \o Escape(u)
<1>1. Backslash \in Alphabet
  BY Marks DEF Reserved
<1>2. ASSUME NEW c \in Alphabet
      PROVE  (IF c \in Reserved THEN <<Backslash, c>> ELSE <<c>>) \in Seq(Alphabet)
  <2>1. <<c>> \in Seq(Alphabet) /\ <<Backslash, c>> \in Seq(Alphabet)
    BY <1>1
  <2> QED
    BY <2>1
<1>3. Spelt \in [Alphabet -> Seq(Alphabet)]
  BY <1>2 DEF Spelt
<1>4. ASSUME NEW t \in Seq(Alphabet) PROVE Escape(t) = Spelled(Spelt, t)
  <2>1. \A i \in DOMAIN t : t[i] \in Alphabet
    OBVIOUS
  <2>2. [i \in DOMAIN t |-> IF t[i] \in Reserved THEN <<Backslash, t[i]>> ELSE <<t[i]>>]
        = [i \in DOMAIN t |-> Spelt[t[i]]]
    BY <2>1 DEF Spelt
  <2> QED
    BY <2>2, Zenon DEF Escape, Spelled
<1>5. /\ Spelled(Spelt, <<>>) = <<>>
      /\ \A u \in Seq(Alphabet) : Spelled(Spelt, u) \in Seq(Alphabet)
      /\ \A c \in Alphabet, u \in Seq(Alphabet) :
           Spelled(Spelt, <<c>> \o u) = Spelt[c] \o Spelled(Spelt, u)
  BY <1>3, Spelling, Zenon
<1>6. <<>> \in Seq(Alphabet) /\ \A c \in Alphabet, u \in Seq(Alphabet) : <<c>> \o u \in Seq(Alphabet)
  BY InFrontAt
<1> QED
  BY <1>3, <1>4, <1>5, <1>6, Zenon

\* The separators as they may be written.
Seps == [Separators -> Seq(Alphabet)]

\* What is written for the i-th key, and for all.
PairText(r, sep, keys, i) ==
  sep[IF i = 1 THEN "(" ELSE ","] \o Escape(keys[i]) \o sep["="] \o Escape(r.params[keys[i]])
PairTexts(r, sep) ==
  [i \in 1..Cardinality(DOMAIN r.params) |-> PairText(r, sep, Sorted(DOMAIN r.params), i)]

\* What is written consists of texts.
LEMMA WrittenTexts ==
  ASSUME NEW r, IsRef(r), NEW sep \in Seps
  PROVE  /\ PairTexts(r, sep) \in Seq(Seq(Alphabet))
         /\ Written(r, sep) \in Seq(Alphabet)
         /\ Written(r, sep) = Escape(r.table)
              \o IF DOMAIN r.params = {} THEN <<>> ELSE FlattenSeq(PairTexts(r, sep)) \o sep[")"]
<1>1. PICK n \in Nat : n = Cardinality(DOMAIN r.params)
  BY SortedLists DEF IsRef
<1>2. PICK keys : keys = Sorted(DOMAIN r.params)
  OBVIOUS
<1>3. keys \in [1..n -> DOMAIN r.params]
  BY <1>1, <1>2, SortedLists DEF IsRef, Lists
<1>4. /\ r.table \in Seq(Alphabet) /\ DOMAIN r.params \subseteq Seq(Alphabet)
      /\ \A k \in DOMAIN r.params : r.params[k] \in Seq(Alphabet)
  BY Marks DEF IsRef
<1>5. ASSUME NEW i \in 1..n PROVE PairText(r, sep, keys, i) \in Seq(Alphabet)
  <2>1. PICK k \in Seq(Alphabet) : k = Escape(keys[i])
    BY <1>3, <1>4, Escaping
  <2>2. PICK v \in Seq(Alphabet) : v = Escape(r.params[keys[i]])
    BY <1>3, <1>4, Escaping
  <2>3. PICK a \in Seq(Alphabet) : a = sep[IF i = 1 THEN "(" ELSE ","]
    BY Zenon DEF Seps, Separators
  <2>4. PICK b \in Seq(Alphabet) : b = sep["="]
    BY Zenon DEF Seps, Separators
  <2>5. a \o k \o b \o v \in Seq(Alphabet)
    OBVIOUS
  <2> QED
    BY <2>1, <2>2, <2>3, <2>4, <2>5, Zenon DEF PairText
<1>6. PairTexts(r, sep) = [i \in 1..n |-> PairText(r, sep, keys, i)]
  BY <1>1, <1>2 DEF PairTexts
<1>7. PICK ss \in Seq(Seq(Alphabet)) : ss = PairTexts(r, sep)
  <2>1. PICK Q : Q = Seq(Alphabet)
    OBVIOUS
  <2>2. [i \in 1..n |-> PairText(r, sep, keys, i)] \in Seq(Q)
    BY <1>5, <2>1
  <2> QED
    BY <1>6, <2>1, <2>2
<1>8. PICK l \in Seq(Alphabet) : l = FlattenSeq(ss)
  BY FlattenType
<1>9. PICK e \in Seq(Alphabet) : e = Escape(r.table)
  BY <1>4, Escaping
<1>10. PICK z \in Seq(Alphabet) : z = sep[")"]
  BY ZenonT(60) DEF Seps, Separators
<1>11. Written(r, sep) = e \o IF DOMAIN r.params = {} THEN <<>> ELSE l \o z
  <2>1. DOMAIN keys = 1..n
    BY <1>3
  <2>2. [i \in DOMAIN keys |-> PairText(r, sep, keys, i)] = ss
    BY <1>6, <1>7, <2>1
  <2> QED
    BY <1>2, <1>8, <1>9, <1>10, <2>2, Zenon DEF Written, PairText
<1>12. e \o <<>> \in Seq(Alphabet) /\ e \o (l \o z) \in Seq(Alphabet)
  <2>1. l \o z \in Seq(Alphabet) /\ <<>> \in Seq(Alphabet)
    BY JoinedAt
  <2> QED
    BY <2>1, JoinedAt
<1> QED
  BY <1>7, <1>8, <1>9, <1>10, <1>11, <1>12

\* String writes a text.
LEMMA StringText ==
  ASSUME NEW r, IsRef(r)
  PROVE  String(r) \in Text
<1>1. [c \in Separators |-> <<c>>] \in Seps
  <2>1. \A c \in Separators : c \in Alphabet
    BY Marks DEF Reserved
  <2> QED
    BY <2>1 DEF Seps
<1> QED
  BY <1>1, Marks, WrittenTexts, Zenon DEF String

\* The text is one, and that of the reference, if there is one.
TextOK == text \in Text /\ (ref # None => IsRef(ref) /\ text = String(ref))

\* It always is.
LEMMA TextAlways == Spec => []TextOK
<1>1. Init => TextOK
  BY DEF Init, TextOK, Text
<1>2. TextOK /\ [Next]_vars => TextOK'
  <2> SUFFICES ASSUME TextOK, [Next]_vars
               PROVE  TextOK'
    OBVIOUS
  <2>1. CASE Type
    <3>1. PICK c \in Typed : text' = Append(text, c)
      BY <2>1 DEF Type
    <3>2. c \in ToSet(Characters)
      BY RefsAssumption
    <3>3. text' \in Text
      BY <3>1, <3>2 DEF TextOK, Text
    <3> QED
      BY <2>1, <3>3 DEF Type, TextOK
  <2>2. CASE Write
    <3>1. IsRef(ref') /\ text' = String(ref')
      BY <2>2, RefsAssumption DEF Write
    <3> QED
      BY <3>1, StringText DEF TextOK
  <2>3. CASE Clear
    BY <2>3 DEF Clear, TextOK, Text
  <2>4. CASE UNCHANGED vars
    BY <2>4 DEF vars, TextOK
  <2> QED
    BY <2>1, <2>2, <2>3, <2>4 DEF Next
<1> QED
  BY <1>1, <1>2, PTL DEF Spec

\* Any text comes back out of back-ticks, and nothing else is unwrapped than
\* what they were put around.
THEOREM BackticksComeBackAlways == Spec => []BackticksComeBack
<1>1. TextOK => BackticksComeBack
  BY Backticks DEF TextOK, BackticksComeBack
<1> QED
  BY <1>1, TextAlways, PTL

----------------------------------------------------------------------------
(* Reading characters.                                                     *)

\* The characters that end what is read,
Stops(topLevel) == IF topLevel THEN {"("} ELSE {",", "=", ")"}
\* what reading s can return,
ReadResult(s) == [text : Seq(Alphabet), next : 0..(Len(s) + 1)]
\* and one character read in front of the rest.
Go(c, rest) == [rest EXCEPT !.text = <<c>> \o @]

\* What readChars reads from position i on, given what it reads further on.
ReadStep(s, topLevel, i, f) ==
  IF i > Len(s) \/ At(s, i) \in Stops(topLevel) THEN [text |-> <<>>, next |-> i]
  ELSE IF s[i] = Backslash /\ At(s, i + 1) \in Reserved THEN Go(s[i + 1], f[i + 2])
  ELSE IF s[i] \in Reserved THEN [text |-> <<>>, next |-> 0]
  ELSE Go(s[i], f[i + 1])

\* f[i] is what it reads from i on.
Reads(s, topLevel, f) ==
  /\ f \in [1..(Len(s) + 1) -> ReadResult(s)]
  /\ \A i \in 1..(Len(s) + 1) :
       f[i] = ReadStep(s, topLevel, i, f) /\ ReadChars(s, i, topLevel) = f[i]

\* Going on keeps what was read.
LEMMA Goes ==
  ASSUME NEW s, NEW c \in Alphabet, NEW r \in ReadResult(s)
  PROVE  Go(c, r) = [text |-> <<c>> \o r.text, next |-> r.next] /\ Go(c, r) \in ReadResult(s)
<1>1. PICK t \in Seq(Alphabet), n \in 0..(Len(s) + 1) : r = [text |-> t, next |-> n]
  BY DEF ReadResult
<1>2. <<c>> \o t \in Seq(Alphabet)
  BY InFrontAt
<1>3. PICK v : v = <<c>> \o t
  BY Zenon
<1>4. r.text = t /\ r.next = n
  BY <1>1
<1>5. [[text |-> t, next |-> n] EXCEPT !.text = v] = [text |-> v, next |-> n]
  OBVIOUS
<1>6. Go(c, r) = [text |-> v, next |-> n]
  BY <1>1, <1>3, <1>4, <1>5 DEF Go
<1>7. v \in Seq(Alphabet)
  BY <1>2, <1>3
<1>8. [text |-> v, next |-> n] \in ReadResult(s)
  BY <1>7 DEF ReadResult
<1> QED
  BY <1>3, <1>4, <1>6, <1>8

\* There is such a function.
LEMMA Reading ==
  ASSUME NEW s \in Text, NEW topLevel
  PROVE  \E f : Reads(s, topLevel, f)
<1>1. PICK n \in Nat : n = Len(s)
  BY Marks
<1>2. PICK Q : Q = ReadResult(s)
  OBVIOUS
<1>3. PICK D : D = 1..(n + 1)
  OBVIOUS
<1>4. PICK w : w = [i \in D |-> n + 1 - i]
  BY Zenon
<1>5. \A c \in Alphabet, q \in Q : Go(c, q) \in Q
  BY <1>2, Goes, Zenon
<1>6. "end" \notin Reserved /\ <<>> \in Seq(Alphabet)
  BY DEF Reserved, Separators, Backslash
<1>7. ASSUME NEW i \in D
      PROVE  /\ i <= n => i + 1 \in D /\ s[i] \in Alphabet
             /\ i <= n /\ At(s, i + 1) \in Reserved => i + 2 \in D /\ s[i + 1] \in Alphabet
  <2>1. i <= n => i + 1 \in D /\ s[i] \in Alphabet
    BY <1>1, <1>3, Onwards
  <2>2. ASSUME i <= n, At(s, i + 1) \in Reserved PROVE i + 2 \in D /\ s[i + 1] \in Alphabet
    <3>1. i + 1 \in 1..(n + 1)
      BY <1>3, <2>1, <2>2
    <3>2. At(s, i + 1) # "end"
      BY <1>6, <2>2
    <3>3. i + 1 <= n /\ s[i + 1] \in Alphabet
      BY <1>1, <3>1, <3>2, Onwards
    <3> QED
      BY <1>3, <3>1, <3>3
  <2> QED
    BY <2>1, <2>2
<1>8. ASSUME NEW f, NEW i \in D, \A j \in D : j > i => f[j] \in Q
      PROVE  ReadStep(s, topLevel, i, f) \in Q
  <2>1. [text |-> <<>>, next |-> i] \in Q /\ [text |-> <<>>, next |-> 0] \in Q
    BY <1>1, <1>2, <1>3, <1>6 DEF ReadResult
  <2>2. ASSUME i <= n PROVE Go(s[i], f[i + 1]) \in Q
    <3>1. i + 1 \in D /\ i + 1 > i /\ s[i] \in Alphabet
      BY <1>3, <1>7, <2>2
    <3> QED
      BY <1>5, <1>8, <3>1
  <2>3. ASSUME i <= n, At(s, i + 1) \in Reserved PROVE Go(s[i + 1], f[i + 2]) \in Q
    <3>1. i + 2 \in D /\ i + 2 > i /\ s[i + 1] \in Alphabet
      BY <1>3, <1>7, <2>3, SMTT(60)
    <3> QED
      BY <1>5, <1>8, <3>1
  <2>4. i > n \/ i <= n
    BY <1>3
  <2> QED
    BY <1>1, <2>1, <2>2, <2>3, <2>4 DEF ReadStep
<1>9. ASSUME NEW i \in D, NEW a, NEW b, \A j \in D : j > i => a[j] = b[j]
      PROVE  ReadStep(s, topLevel, i, a) = ReadStep(s, topLevel, i, b)
  <2>1. i <= n => a[i + 1] = b[i + 1]
    BY <1>3, <1>7, <1>9
  <2>2. i <= n /\ At(s, i + 1) \in Reserved => a[i + 2] = b[i + 2]
    BY <1>3, <1>7, <1>9, SMTT(30)
  <2>3. i > n \/ i <= n
    BY <1>3
  <2> QED
    BY <1>1, <2>1, <2>2, <2>3 DEF ReadStep
<1>10. \A i \in D : w[i] \in 0..(n + 1) /\ \A j \in D : w[j] < w[i] <=> j > i
  BY <1>3, <1>4
<1>11. \E f \in [D -> Q] : f = [i \in D |-> ReadStep(s, topLevel, i, f)]
  <2>1. PICK F : F = [x \in D \X [D -> Q] |-> ReadStep(s, topLevel, x[1], x[2])]
    BY Zenon
  <2>2. \A i \in D, a \in [D -> Q] : F[<<i, a>>] = ReadStep(s, topLevel, i, a)
    BY <2>1
  <2>3. F \in [D \X [D -> Q] -> Q]
    <3>1. ASSUME NEW i \in D, NEW a \in [D -> Q] PROVE ReadStep(s, topLevel, i, a) \in Q
      BY <1>8
    <3> QED
      BY <2>1, <3>1
  <2>4. ASSUME NEW i \in D, NEW a \in [D -> Q], NEW b \in [D -> Q],
               \A j \in D : w[j] < w[i] => a[j] = b[j]
        PROVE  F[<<i, a>>] = F[<<i, b>>]
    <3>1. \A j \in D : j > i => a[j] = b[j]
      BY <1>10, <2>4
    <3>2. ReadStep(s, topLevel, i, a) = ReadStep(s, topLevel, i, b)
      BY <1>9, <3>1
    <3> QED
      BY <2>2, <3>2
  <2>5. Recursion(D, n + 1, w, Q, F)
    <3>1. w \in [D -> 0..(n + 1)] /\ n + 1 \in Nat
      BY <1>4, <1>10
    <3>2. Q # {}
      <4>1. [text |-> <<>>, next |-> 0] \in Q
        BY <1>1, <1>2, <1>6 DEF ReadResult
      <4> QED
        BY <4>1
    <3> QED
      BY <2>3, <2>4, <3>1, <3>2, Zenon DEF Recursion
  <2>6. PICK f : Solves(D, Q, F, f)
    BY <2>5, RecursiveFunction
  <2>7. f \in [D -> Q] /\ \A i \in D : f[i] = ReadStep(s, topLevel, i, f)
    BY <2>2, <2>6, Zenon DEF Solves
  <2>8. f = [i \in D |-> ReadStep(s, topLevel, i, f)]
    BY <2>7
  <2> QED
    BY <2>7, <2>8
<1>12. PICK h : h = CHOOSE f : f = [i \in D |-> ReadStep(s, topLevel, i, f)]
  OBVIOUS
<1>13. h = [i \in D |-> ReadStep(s, topLevel, i, h)]
  BY <1>11, <1>12
<1>14. ASSUME NEW i \in D PROVE ReadChars(s, i, topLevel) = h[i]
  BY <1>1, <1>3, <1>12, Zenon DEF ReadChars, ReadStep, Stops, Go
<1>15. \A i \in D : h[i] = ReadStep(s, topLevel, i, h)
  BY <1>13
<1>16. D \subseteq {i \in D : h[i] \in Q}
  <2>1. PICK T : T = {i \in D : h[i] \in Q}
    BY Zenon
  <2>2. ASSUME NEW i \in D, \A j \in D : w[j] < w[i] => j \in T
        PROVE  i \in T
    <3>1. \A j \in D : j > i => h[j] \in Q
      BY <1>10, <2>1, <2>2
    <3>2. ReadStep(s, topLevel, i, h) \in Q
      BY <1>8, <3>1
    <3> QED
      BY <1>15, <2>1, <3>2
  <2>3. \A i \in D : w[i] \in Nat
    BY <1>10
  <2>4. Inherits(D, w, T)
    BY <2>2, <2>3 DEF Inherits
  <2> QED
    BY <2>1, <2>4, Ranked
<1>17. h \in [D -> Q]
  BY <1>13, <1>16
<1> QED
  BY <1>1, <1>2, <1>3, <1>14, <1>15, <1>17 DEF Reads

\* What readChars does at a position: it stops, it reads an escaped character,
\* it fails, or it reads a character that is not reserved.
LEMMA ReadCharsAt ==
  ASSUME NEW s \in Text, NEW topLevel, NEW i \in 1..(Len(s) + 1)
  PROVE  /\ ReadChars(s, i, topLevel) \in ReadResult(s)
         /\ i > Len(s) \/ At(s, i) \in Stops(topLevel)
            => ReadChars(s, i, topLevel) = [text |-> <<>>, next |-> i]
         /\ s[i] = Backslash /\ i \in 1..Len(s) /\ At(s, i + 1) \in Reserved
            => /\ i + 1 \in 1..Len(s) /\ i + 2 \in 1..(Len(s) + 1)
               /\ ReadChars(s, i, topLevel)
                  = [text |-> <<s[i + 1]>> \o ReadChars(s, i + 2, topLevel).text,
                     next |-> ReadChars(s, i + 2, topLevel).next]
         /\ i \in 1..Len(s) /\ s[i] \in Reserved \ Stops(topLevel)
            /\ ~(s[i] = Backslash /\ At(s, i + 1) \in Reserved)
            => ReadChars(s, i, topLevel) = [text |-> <<>>, next |-> 0]
         /\ i \in 1..Len(s) /\ s[i] \notin Reserved
            => /\ i + 1 \in 1..(Len(s) + 1)
               /\ ReadChars(s, i, topLevel)
                  = [text |-> <<s[i]>> \o ReadChars(s, i + 1, topLevel).text,
                     next |-> ReadChars(s, i + 1, topLevel).next]
<1>1. PICK n \in Nat : n = Len(s)
  BY Marks
<1>2. PICK f : Reads(s, topLevel, f)
  BY Reading
<1>3. \A j \in 1..(n + 1) : ReadChars(s, j, topLevel) = f[j] /\ f[j] \in ReadResult(s)
  BY <1>1, <1>2 DEF Reads
<1>4. f[i] = ReadStep(s, topLevel, i, f)
  BY <1>2 DEF Reads
<1>5. Stops(topLevel) \subseteq Reserved /\ Backslash \notin Stops(topLevel)
      /\ Backslash \in Reserved /\ "end" \notin Reserved
  BY Zenon DEF Stops, Reserved, Separators, Backslash
<1>6. i \in 1..n => At(s, i) = s[i] /\ s[i] \in Alphabet /\ ~(i > n) /\ i + 1 \in 1..(n + 1)
  BY <1>1, Onwards
<1>7. ASSUME i \in 1..n, At(s, i + 1) \in Reserved
      PROVE  i + 1 \in 1..n /\ i + 2 \in 1..(n + 1) /\ s[i + 1] \in Alphabet
  <2>1. At(s, i + 1) # "end" /\ i + 1 \in 1..(n + 1)
    BY <1>5, <1>6, <1>7
  <2>2. i + 1 <= n /\ s[i + 1] \in Alphabet
    BY <1>1, <2>1, Onwards
  <2> QED
    BY <2>1, <2>2
<1>8. ASSUME i > n \/ At(s, i) \in Stops(topLevel)
      PROVE  f[i] = [text |-> <<>>, next |-> i]
  BY <1>1, <1>4, <1>8 DEF ReadStep
<1>9. ASSUME i \in 1..n, s[i] = Backslash, At(s, i + 1) \in Reserved
      PROVE  f[i] = [text |-> <<s[i + 1]>> \o f[i + 2].text, next |-> f[i + 2].next]
  <2>1. f[i] = Go(s[i + 1], f[i + 2])
    BY <1>1, <1>4, <1>5, <1>6, <1>9 DEF ReadStep
  <2> QED
    BY <1>3, <1>7, <1>9, <2>1, Goes, Zenon
<1>10. ASSUME i \in 1..n, s[i] \in Reserved \ Stops(topLevel),
              ~(s[i] = Backslash /\ At(s, i + 1) \in Reserved)
       PROVE  f[i] = [text |-> <<>>, next |-> 0]
  BY <1>1, <1>4, <1>6, <1>10 DEF ReadStep
<1>11. ASSUME i \in 1..n, s[i] \notin Reserved
       PROVE  f[i] = [text |-> <<s[i]>> \o f[i + 1].text, next |-> f[i + 1].next]
  <2>1. f[i] = Go(s[i], f[i + 1])
    BY <1>1, <1>4, <1>5, <1>6, <1>11 DEF ReadStep
  <2> QED
    BY <1>3, <1>6, <1>11, <2>1, Goes, Zenon
<1>12. i \in 1..(n + 1)
  BY <1>1
<1> QED
  BY <1>1, <1>3, <1>6, <1>7, <1>8, <1>9, <1>10, <1>11, <1>12, Zenon

\* It reads a character that is not reserved,
LEMMA ReadsPlain ==
  ASSUME NEW s \in Text, NEW topLevel, NEW i \in 1..Len(s), s[i] \notin Reserved
  PROVE  /\ i + 1 \in 1..(Len(s) + 1)
         /\ ReadChars(s, i, topLevel)
            = [text |-> <<s[i]>> \o ReadChars(s, i + 1, topLevel).text,
               next |-> ReadChars(s, i + 1, topLevel).next]
<1>1. i \in 1..(Len(s) + 1)
  BY Marks
<1> QED
  BY <1>1, ReadCharsAt, ZenonT(60)

\* and one that is escaped.
LEMMA ReadsReserved ==
  ASSUME NEW s \in Text, NEW topLevel, NEW i \in 1..Len(s),
         s[i] = Backslash, At(s, i + 1) \in Reserved
  PROVE  /\ i + 1 \in 1..Len(s) /\ i + 2 \in 1..(Len(s) + 1)
         /\ ReadChars(s, i, topLevel)
            = [text |-> <<s[i + 1]>> \o ReadChars(s, i + 2, topLevel).text,
               next |-> ReadChars(s, i + 2, topLevel).next]
<1>1. i \in 1..(Len(s) + 1)
  BY Marks
<1> QED
  BY <1>1, ReadCharsAt, ZenonT(60)

\* It stops at the end and at a separator.
LEMMA ReadsStop ==
  ASSUME NEW s \in Text, NEW topLevel, NEW i \in 1..(Len(s) + 1),
         i > Len(s) \/ At(s, i) \in Stops(topLevel)
  PROVE  ReadChars(s, i, topLevel) = [text |-> <<>>, next |-> i]
BY ReadCharsAt, Zenon

----------------------------------------------------------------------------
(* Blanks.                                                                 *)

\* The least and the greatest of a set of numbers.
LEMMA MinIs ==
  ASSUME NEW K, K \subseteq Int, NEW x \in K, \A k \in K : x <= k
  PROVE  Min(K) = x
<1>1. PICK m : m = Min(K)
  OBVIOUS
<1>2. m \in K /\ \A k \in K : m <= k
  BY <1>1, Zenon DEF Min
<1>3. m <= x /\ x <= m /\ m \in Int /\ x \in Int
  BY <1>2
<1> QED
  BY <1>1, <1>3

\* A greatest element of a set of numbers is its maximum.
LEMMA MaxIs ==
  ASSUME NEW K, K \subseteq Int, NEW x \in K, \A k \in K : k <= x
  PROVE  Max(K) = x
<1>1. PICK m : m = Max(K)
  OBVIOUS
<1>2. \A k \in K : x >= k
  OBVIOUS
<1>3. m \in K /\ \A k \in K : m >= k
  BY <1>1, <1>2, Zenon DEF Max
<1>4. m >= x /\ m <= x /\ m \in Int /\ x \in Int
  BY <1>3
<1> QED
  BY <1>1, <1>4

\* A bounded set of numbers has a greatest one.
LEMMA Greatest ==
  ASSUME NEW K, NEW n \in Nat, K \subseteq 0..n, K # {}
  PROVE  \E x \in K : \A k \in K : k <= x
<1>1. PICK L : L = {n - k : k \in K}
  BY Zenon
<1>2. L \subseteq Nat /\ L # {}
  <2>1. ASSUME NEW k \in K PROVE n - k \in Nat /\ n - k \in L
    <3>1. k \in 0..n
      OBVIOUS
    <3> QED
      BY <1>1, <3>1
  <2> QED
    BY <1>1, <2>1, Zenon
<1>3. PICK l \in L : \A j \in L : l <= j
  BY <1>2, Least, Zenon
<1>4. PICK x \in K : l = n - x
  BY <1>1, <1>3
<1>5. ASSUME NEW k \in K PROVE k <= x
  <2>1. n - k \in L
    BY <1>1
  <2>2. l <= n - k
    BY <1>3, <2>1
  <2>3. k \in 0..n /\ x \in 0..n
    OBVIOUS
  <2> QED
    BY <1>4, <2>2, <2>3
<1> QED
  BY <1>5

\* SkipWS goes on to a position that holds no blank,
LEMMA SkipsBlanks ==
  ASSUME NEW s \in Text, NEW i \in 1..(Len(s) + 1)
  PROVE  SkipWS(s, i) \in i..(Len(s) + 1) /\ At(s, SkipWS(s, i)) # Blank
<1>1. PICK n \in Nat : n = Len(s)
  BY Marks
<1>2. PICK K : K = {j \in i..(n + 1) : At(s, j) # Blank}
  BY Zenon
<1>3. n + 1 \in K
  <2>1. n + 1 \notin DOMAIN s
    BY <1>1, Marks
  <2>2. At(s, n + 1) # Blank
    BY <2>1, Marks DEF At, White
  <2>3. n + 1 \in i..(n + 1)
    BY <1>1
  <2> QED
    BY <1>2, <2>2, <2>3
<1>4. K \subseteq Nat
  BY <1>1, <1>2
<1>5. PICK x \in K : \A k \in K : x <= k
  BY <1>3, <1>4, Least, Zenon
<1>6. Min(K) = x
  <2>1. K \subseteq Int
    BY <1>4
  <2> QED
    BY <1>5, <2>1, MinIs, Zenon
<1>7. SkipWS(s, i) = x
  BY <1>1, <1>2, <1>6 DEF SkipWS
<1> QED
  BY <1>1, <1>2, <1>7

\* the first from i on.
LEMMA SkipsTo ==
  ASSUME NEW s \in Text, NEW i \in 1..(Len(s) + 1), NEW j \in i..(Len(s) + 1),
         At(s, j) # Blank, \A k \in i..(j - 1) : At(s, k) = Blank
  PROVE  SkipWS(s, i) = j
<1>1. PICK n \in Nat : n = Len(s)
  BY Marks
<1>2. PICK K : K = {k \in i..(n + 1) : At(s, k) # Blank}
  BY Zenon
<1>3. j \in K /\ K \subseteq Int
  BY <1>1, <1>2
<1>4. ASSUME NEW k \in K PROVE j <= k
  <2>1. k \in i..(n + 1) /\ ~(k \in i..(j - 1))
    BY <1>2
  <2> QED
    BY <1>1, <2>1
<1>5. Min(K) = j
  BY <1>3, <1>4, MinIs, Zenon
<1> QED
  BY <1>1, <1>2, <1>5 DEF SkipWS

\* The first m characters of a text.
LEMMA Beginnings ==
  ASSUME NEW S, NEW t \in Seq(S), NEW m \in 1..Len(t)
  PROVE  /\ SubSeq(t, 1, m) \in Seq(S) /\ Len(SubSeq(t, 1, m)) = m
         /\ \A j \in 1..m : SubSeq(t, 1, m)[j] = t[j]
<1>1. 1 \in 1..Len(t) /\ m \in Nat /\ 1 + m - 1 = m /\ m <= Len(t)
  OBVIOUS
<1>2. \A j \in 1..m : 1 + j - 1 = j
  OBVIOUS
<1>3. /\ SubSeq(t, 1, 1 + m - 1) \in Seq(S) /\ Len(SubSeq(t, 1, 1 + m - 1)) = m
      /\ \A j \in 1..m : SubSeq(t, 1, 1 + m - 1)[j] = t[1 + j - 1]
  BY <1>1, SubSeqAt
<1> QED
  BY <1>1, <1>2, <1>3

\* TrimRight cuts off what follows the last character that is no blank.
LEMMA TrimRightIs ==
  ASSUME NEW t \in Seq(Alphabet), NEW m \in 0..Len(t),
         m # 0 => t[m] # Blank, \A j \in (m + 1)..Len(t) : t[j] = Blank
  PROVE  TrimRight(t) = IF m = 0 THEN <<>> ELSE SubSeq(t, 1, m)
<1>1. PICK n \in Nat : n = Len(t) /\ DOMAIN t = 1..n
  <2>1. Len(t) \in Nat /\ DOMAIN t = 1..Len(t)
    OBVIOUS
  <2> QED
    BY <2>1, Zenon
<1>2. PICK K : K = {i \in DOMAIN t : \E j \in i..n : t[j] # Blank}
  BY Zenon
<1>3. K = 1..m
  <2>1. ASSUME NEW i \in 1..m PROVE i \in K
    <3>1. m \in i..n /\ t[m] # Blank /\ i \in 1..n
      BY <1>1
    <3> QED
      BY <1>1, <1>2, <3>1
  <2>2. ASSUME NEW i \in K PROVE i \in 1..m
    <3>1. PICK j \in i..n : t[j] # Blank
      BY <1>2
    <3>2. i \in 1..n /\ ~(j \in (m + 1)..n)
      BY <1>1, <1>2, <3>1
    <3> QED
      BY <1>1, <3>2
  <2> QED
    BY <2>1, <2>2, Zenon
<1>4. TrimRight(t) = Span(t, K)
  BY <1>1, <1>2 DEF TrimRight
<1>5. CASE m = 0
  <2>1. K = {}
    BY <1>3, <1>5
  <2> QED
    BY <1>4, <1>5, <2>1 DEF Span
<1>6. CASE m # 0
  <2>1. 1 \in K /\ m \in K /\ K \subseteq Int /\ K # {}
    BY <1>1, <1>3, <1>6
  <2>2. \A k \in K : 1 <= k /\ k <= m
    BY <1>1, <1>3
  <2>3. Min(K) = 1 /\ Max(K) = m
    BY <2>1, <2>2, MinIs, MaxIs, Zenon
  <2> QED
    BY <1>4, <1>6, <2>1, <2>3 DEF Span
<1> QED
  BY <1>5, <1>6

\* Nothing but blanks is trimmed.
LEMMA Trims ==
  ASSUME NEW u \in Seq(Alphabet), At(u, Len(u)) # Blank, NEW b \in {<<>>, <<Blank>>}
  PROVE  TrimRight(u \o b) = u
<1>1. PICK m \in Nat : m = Len(u) /\ DOMAIN u = 1..m
  <2>1. Len(u) \in Nat /\ DOMAIN u = 1..Len(u)
    OBVIOUS
  <2> QED
    BY <2>1, Zenon
<1>2. PICK l \in Nat : l = Len(b) /\ b \in Seq(Alphabet) /\ \A j \in 1..l : b[j] = Blank
  <2>1. Blank \in Alphabet
    BY Marks DEF White
  <2>2. CASE b = <<>>
    <3>1. Len(b) = 0 /\ b \in Seq(Alphabet)
      BY <2>2
    <3> QED
      BY <3>1
  <2>3. CASE b = <<Blank>>
    <3>1. Len(b) = 1 /\ b \in Seq(Alphabet) /\ b[1] = Blank
      BY <2>1, <2>3
    <3> QED
      BY <3>1
  <2> QED
    BY <2>2, <2>3
<1>3. PICK t : t = u \o b
  BY Zenon
<1>4. /\ t \in Seq(Alphabet) /\ Len(t) = m + l
      /\ \A j \in 1..(m + l) : t[j] = IF j <= m THEN u[j] ELSE b[j - m]
  BY <1>1, <1>2, <1>3, JoinedAt
<1>5. m \in 0..Len(t)
  BY <1>4
<1>6. m # 0 => t[m] # Blank
  <2>1. m # 0 => m \in 1..m /\ m \in 1..(m + l) /\ m <= m
    OBVIOUS
  <2> QED
    BY <1>1, <1>4, <2>1 DEF At
<1>7. ASSUME NEW j \in (m + 1)..Len(t) PROVE t[j] = Blank
  <2>1. j \in 1..(m + l) /\ ~(j <= m) /\ j - m \in 1..l
    BY <1>4
  <2> QED
    BY <1>2, <1>4, <2>1
<1>8. TrimRight(t) = IF m = 0 THEN <<>> ELSE SubSeq(t, 1, m)
  BY <1>4, <1>5, <1>6, <1>7, TrimRightIs, Zenon
<1>9. CASE m = 0
  <2>1. u = <<>>
    BY <1>1, <1>9
  <2> QED
    BY <1>3, <1>8, <1>9, <2>1
<1>10. CASE m # 0
  <2>1. PICK x : x = SubSeq(t, 1, m)
    BY Zenon
  <2>2. m \in 1..Len(t)
    BY <1>4, <1>10
  <2>3. x \in Seq(Alphabet) /\ Len(x) = m /\ \A j \in 1..m : x[j] = t[j]
    BY <1>4, <2>1, <2>2, Beginnings
  <2>4. ASSUME NEW j \in 1..m PROVE x[j] = u[j]
    <3>1. j \in 1..(m + l) /\ j <= m
      OBVIOUS
    <3> QED
      BY <1>4, <2>3, <3>1
  <2>5. x = u
    BY <1>1, <2>3, <2>4, SeqEqual
  <2> QED
    BY <1>3, <1>8, <1>10, <2>1, <2>5
<1> QED
  BY <1>9, <1>10

\* What is trimmed ends in no blank, and begins as before.
LEMMA Trimmed ==
  ASSUME NEW t \in Seq(Alphabet)
  PROVE  /\ TrimRight(t) \in Seq(Alphabet)
         /\ At(TrimRight(t), Len(TrimRight(t))) # Blank
         /\ TrimRight(t) # <<>> => At(TrimRight(t), 1) = At(t, 1)
<1>1. PICK n \in Nat : n = Len(t) /\ DOMAIN t = 1..n
  <2>1. Len(t) \in Nat /\ DOMAIN t = 1..Len(t)
    OBVIOUS
  <2> QED
    BY <2>1, Zenon
<1>2. PICK K : K = {0} \cup {j \in 1..n : t[j] # Blank}
  BY Zenon
<1>3. PICK m \in K : \A k \in K : k <= m
  <2>1. K \subseteq 0..n /\ K # {}
    BY <1>2
  <2> QED
    BY <2>1, Greatest, Zenon
<1>4. m \in 0..Len(t) /\ (m # 0 => t[m] # Blank)
  BY <1>1, <1>2
<1>5. ASSUME NEW j \in (m + 1)..Len(t) PROVE t[j] = Blank
  <2>1. j \in 1..n /\ ~(j <= m)
    BY <1>1, <1>4
  <2> QED
    BY <1>2, <1>3, <2>1
<1>6. TrimRight(t) = IF m = 0 THEN <<>> ELSE SubSeq(t, 1, m)
  BY <1>4, <1>5, TrimRightIs
<1>7. Blank # "end"
  BY Marks DEF White
<1>8. CASE m = 0
  <2>1. TrimRight(t) = <<>> /\ <<>> \in Seq(Alphabet) /\ At(<<>>, Len(<<>>)) = "end"
    BY <1>6, <1>8 DEF At
  <2> QED
    BY <1>7, <2>1
<1>9. CASE m # 0
  <2>1. PICK x : x = SubSeq(t, 1, m)
    BY Zenon
  <2>2. m \in 1..Len(t)
    BY <1>1, <1>4, <1>9
  <2>3. x \in Seq(Alphabet) /\ Len(x) = m /\ \A j \in 1..m : x[j] = t[j]
    BY <2>1, <2>2, Beginnings
  <2>4. 1 \in 1..m /\ m \in 1..m /\ 1 \in 1..n /\ DOMAIN x = 1..m
    BY <1>1, <2>2, <2>3
  <2>5. At(x, Len(x)) # Blank /\ At(x, 1) = At(t, 1)
    BY <1>1, <1>4, <1>9, <2>3, <2>4 DEF At
  <2> QED
    BY <1>6, <1>9, <2>1, <2>3, <2>5
<1> QED
  BY <1>8, <1>9

----------------------------------------------------------------------------
(* Reading what was written.                                               *)

\* An escaped text is read, and then what follows it.
LEMMA ReadsEscaped ==
  ASSUME NEW s \in Text, NEW topLevel
  PROVE  \A u \in Seq(Alphabet) : \A i : Stands(s, i, Escape(u)) =>
           /\ i + Len(Escape(u)) \in 1..(Len(s) + 1)
           /\ ReadChars(s, i, topLevel)
              = [text |-> u \o ReadChars(s, i + Len(Escape(u)), topLevel).text,
                 next |-> ReadChars(s, i + Len(Escape(u)), topLevel).next]
<1> DEFINE R(i) == ReadChars(s, i, topLevel)
<1> DEFINE Read(i, u, k) ==
      /\ i \in 1..(Len(s) + 1) /\ k \in 1..(Len(s) + 1)
      /\ R(i) = [text |-> u \o R(k).text, next |-> R(k).next]
<1> DEFINE T == {u \in Seq(Alphabet) : \A i : Stands(s, i, Escape(u))
                                        => Read(i, u, i + Len(Escape(u)))}
<1>1. PICK n \in Nat : n = Len(s) /\ s \in Seq(Alphabet)
  BY Marks
<1>2. \A i \in 1..(n + 1) : R(i) \in ReadResult(s)
  BY <1>1, ReadCharsAt, Zenon
<1>7. ASSUME NEW i \in 1..n
      PROVE  /\ s[i] \notin Reserved =>
                  i + 1 \in 1..(n + 1)
                  /\ R(i) = [text |-> <<s[i]>> \o R(i + 1).text, next |-> R(i + 1).next]
             /\ s[i] = Backslash /\ At(s, i + 1) \in Reserved =>
                  i + 2 \in 1..(n + 1)
                  /\ R(i) = [text |-> <<s[i + 1]>> \o R(i + 2).text, next |-> R(i + 2).next]
  <2>1. i \in 1..(Len(s) + 1) /\ i \in 1..Len(s)
    BY <1>1
  <2>2. s[i] \notin Reserved =>
          i + 1 \in 1..(n + 1)
          /\ R(i) = [text |-> <<s[i]>> \o R(i + 1).text, next |-> R(i + 1).next]
    BY <1>1, <2>1, ReadsPlain, Zenon
  <2>3. s[i] = Backslash /\ At(s, i + 1) \in Reserved =>
          i + 2 \in 1..(n + 1)
          /\ R(i) = [text |-> <<s[i + 1]>> \o R(i + 2).text, next |-> R(i + 2).next]
    BY <1>1, <2>1, ReadsReserved, Zenon
  <2> QED
    BY <2>2, <2>3
<1>8. \A i, c, u : c \in Alphabet /\ u \in Seq(Alphabet) /\ Stands(s, i, <<c>> \o u)
                  => i \in 1..n /\ s[i] = c /\ Stands(s, i + 1, u)
  BY <1>1, StandsFirst, Zenon
<1> HIDE DEF R
<1>3. \A i \in 1..(n + 1) : R(i).text \in Seq(Alphabet)
  BY <1>2 DEF ReadResult
<1>4. <<>> \in T
  <2>1. ASSUME NEW i, Stands(s, i, <<>>) PROVE Read(i, <<>>, i + Len(<<>>))
    <3>1. i \in 1..(n + 1) /\ i + Len(<<>>) = i
      BY <1>1, <2>1 DEF Stands
    <3>2. PICK t \in Seq(Alphabet), k \in 0..(Len(s) + 1) : R(i) = [text |-> t, next |-> k]
      BY <1>2, <3>1 DEF ReadResult
    <3>3. <<>> \o t = t
      OBVIOUS
    <3> QED
      BY <1>1, <3>1, <3>2, <3>3
  <2>2. <<>> \in Seq(Alphabet)
    OBVIOUS
  <2> QED
    BY <2>1, <2>2, Escaping, Zenon
<1>5. ASSUME NEW c \in Alphabet, NEW u \in Seq(Alphabet), u \in T
      PROVE  <<c>> \o u \in T
  <2>1. PICK d \in Seq(Alphabet) : d = Escape(u) /\ Len(d) \in Nat
    BY Escaping
  <2>2. Escape(<<c>> \o u) = Spelt[c] \o d
    BY <2>1, Escaping, Zenon
  <2>3. \A i : Stands(s, i, d) => Read(i, u, i + Len(d))
    BY <1>5, <2>1
  <2> HIDE DEF T
  <2>4. ASSUME NEW i, NEW k, NEW z, Read(i, u, z), k \in 1..(n + 1),
               R(k) = [text |-> <<c>> \o R(i).text, next |-> R(i).next]
        PROVE  Read(k, <<c>> \o u, z)
    <3>1. PICK t \in Seq(Alphabet) : t = R(z).text
      BY <1>1, <1>3, <2>4, Zenon
    <3>2. R(i).text = u \o t /\ R(i).next = R(z).next
      <4>1. R(i) = [text |-> u \o t, next |-> R(z).next]
        BY <2>4, <3>1
      <4> QED
        BY <4>1
    <3>3. <<c>> \in Seq(Alphabet)
      OBVIOUS
    <3>4. <<c>> \o (u \o t) = (<<c>> \o u) \o t
      BY <3>3, Joined
    <3> QED
      BY <1>1, <2>4, <3>1, <3>2, <3>4, Zenon
  <2>5. ASSUME NEW i, Stands(s, i, Escape(<<c>> \o u))
        PROVE  Read(i, <<c>> \o u, i + Len(Escape(<<c>> \o u)))
    <3>1. CASE c \notin Reserved
      <4>1. Escape(<<c>> \o u) = <<c>> \o d
        BY <2>2, <3>1, Zenon DEF Spelt
      <4>2. i \in 1..n /\ s[i] = c /\ Stands(s, i + 1, d)
        <5>1. Stands(s, i, <<c>> \o d)
          BY <2>5, <4>1, Zenon
        <5> QED
          BY <1>8, <5>1
      <4>3. i + 1 \in 1..(n + 1) /\ R(i) = [text |-> <<c>> \o R(i + 1).text, next |-> R(i + 1).next]
        BY <1>7, <3>1, <4>2, Zenon
      <4>4. Read(i + 1, u, (i + 1) + Len(d))
        BY <2>3, <4>2, Zenon
      <4>5. (i + 1) + Len(d) = i + Len(<<c>> \o d)
        BY <2>1, <4>2, InFrontAt
      <4>6. i \in 1..(n + 1)
        BY <4>2
      <4>7. Read(i, <<c>> \o u, (i + 1) + Len(d))
        <5> HIDE DEF Read
        <5> QED
          BY <2>4, <4>3, <4>4, <4>6, Zenon
      <4> QED
        BY <4>1, <4>5, <4>7, Zenon
    <3>2. CASE c \in Reserved
      <4>1. PICK dd \in Seq(Alphabet) : dd = <<c>> \o d /\ Len(dd) = Len(d) + 1
        BY InFrontAt, Zenon
      <4>2. Backslash \in Alphabet /\ Backslash \in Reserved
        BY Marks DEF Reserved
      <4>3. Escape(<<c>> \o u) = <<Backslash>> \o dd
        <5>1. Spelt[c] = <<Backslash, c>>
          BY <3>2 DEF Spelt
        <5>2. <<Backslash, c>> = <<Backslash>> \o <<c>>
          OBVIOUS
        <5>3. <<Backslash>> \in Seq(Alphabet) /\ <<c>> \in Seq(Alphabet)
          BY <4>2
        <5>4. (<<Backslash>> \o <<c>>) \o d = <<Backslash>> \o (<<c>> \o d)
          BY <5>3, Joined
        <5> QED
          BY <2>2, <4>1, <5>1, <5>2, <5>4, Zenon
      <4>4. i \in 1..n /\ s[i] = Backslash /\ Stands(s, i + 1, dd)
        <5>1. Stands(s, i, <<Backslash>> \o dd)
          BY <2>5, <4>3, Zenon
        <5> QED
          BY <1>8, <4>2, <5>1, Zenon
      <4>5. i + 1 \in 1..n /\ s[i + 1] = c /\ Stands(s, (i + 1) + 1, d)
        <5>1. Stands(s, i + 1, <<c>> \o d)
          BY <4>1, <4>4
        <5> QED
          BY <1>8, <5>1, Zenon
      <4>6. (i + 1) + 1 = i + 2 /\ At(s, i + 1) = c
        BY <1>1, <4>4, <4>5 DEF At
      <4>7. R(i) = [text |-> <<c>> \o R(i + 2).text, next |-> R(i + 2).next]
        BY <1>7, <3>2, <4>4, <4>5, <4>6, Zenon
      <4>8. Read(i + 2, u, (i + 2) + Len(d))
        BY <2>3, <4>5, <4>6, Zenon
      <4>9. (i + 2) + Len(d) = i + Len(<<Backslash>> \o dd)
        <5>1. Len(<<Backslash>> \o dd) = Len(dd) + 1
          BY <4>2, InFrontAt
        <5> QED
          BY <2>1, <4>1, <4>4, <5>1
      <4>10. i \in 1..(n + 1)
        BY <4>4
      <4>11. Read(i, <<c>> \o u, (i + 2) + Len(d))
        <5> HIDE DEF Read
        <5> QED
          BY <2>4, <4>7, <4>8, <4>10, Zenon
      <4> QED
        BY <4>3, <4>9, <4>11, Zenon
    <3> QED
      BY <3>1, <3>2, Zenon
  <2>6. <<c>> \o u \in Seq(Alphabet)
    BY InFrontAt
  <2> QED
    BY <2>5, <2>6, Zenon DEF T
<1>6. Seq(Alphabet) \subseteq T
  <2> HIDE DEF T
  <2> QED
    BY <1>4, <1>5, Texts
<1> QED
  BY <1>6 DEF R

\* The separators with blanks around them, or without.
Spaced ==
  {sep \in Seps : \A c \in Separators :
     sep[c] \in {<<c>>, <<Blank, c>>, <<Blank, c, Blank>>}}

\* At most one blank lies between two positions.
Gap(s, i, j) ==
  /\ i \in 1..(Len(s) + 1) /\ j \in 1..(Len(s) + 1)
  /\ j = i \/ (j = i + 1 /\ At(s, i) = Blank)

\* c stands at q, and z comes next; from j on, b is read until q is reached.
Separated(s, topLevel, c, j, q, b, z) ==
  /\ q \in 1..Len(s) /\ s[q] = c /\ b \in {<<>>, <<Blank>>}
  /\ Gap(s, j, q) /\ Gap(s, q + 1, z)
  /\ ReadChars(s, j, topLevel) = [text |-> b, next |-> q]

\* Reading stops at a separator, after the blank before it.
LEMMA ReadsSeparator ==
  ASSUME NEW s \in Text, NEW topLevel, NEW sep \in Spaced,
         NEW c \in Separators \cap Stops(topLevel), NEW j, Stands(s, j, sep[c])
  PROVE  \E q, b : Separated(s, topLevel, c, j, q, b, j + Len(sep[c]))
<1>1. PICK n \in Nat : n = Len(s)
  BY Marks
<1>2. Blank \notin Reserved /\ c \in Reserved /\ \A i \in 1..n : At(s, i) = s[i]
  <2>1. \A i \in 1..n : At(s, i) = s[i]
    BY <1>1, Marks DEF At
  <2> QED
    BY <2>1, CharactersAssumption DEF White, Reserved
<1>3. CASE sep[c] = <<c>>
  <2>1. Len(<<c>>) = 1 /\ <<c>>[1] = c
    OBVIOUS
  <2>2. j \in 1..(n + 1) /\ j + 1 <= n + 1 /\ s[j + 1 - 1] = c
    BY <1>1, <1>3, <2>1 DEF Stands
  <2>3. j \in 1..n /\ s[j] = c /\ j \in 1..(n + 1) /\ j + 1 \in 1..(n + 1)
    <3>1. j + 1 - 1 = j /\ j \in 1..n
      BY <2>2
    <3> QED
      BY <2>2, <3>1
  <2>4. ReadChars(s, j, topLevel) = [text |-> <<>>, next |-> j]
    <3>1. At(s, j) \in Stops(topLevel)
      BY <1>2, <2>3
    <3> QED
      BY <1>1, <2>3, <3>1, ReadsStop
  <2>5. Separated(s, topLevel, c, j, j, <<>>, j + 1)
    BY <1>1, <2>3, <2>4 DEF Separated, Gap
  <2> QED
    BY <1>3, <2>1, <2>5
<1>4. ASSUME j \in 1..n, s[j] = Blank, j + 1 \in 1..n, s[j + 1] = c, NEW z, Gap(s, j + 2, z)
      PROVE  \E q, b : Separated(s, topLevel, c, j, q, b, z)
  <2>1. ReadChars(s, j + 1, topLevel) = [text |-> <<>>, next |-> j + 1]
    <3>1. PICK k : k = j + 1
      OBVIOUS
    <3>2. k \in 1..(Len(s) + 1) /\ At(s, k) \in Stops(topLevel)
      BY <1>1, <1>2, <1>4, <3>1
    <3>3. ReadChars(s, k, topLevel) = [text |-> <<>>, next |-> k]
      BY <3>2, ReadsStop
    <3> QED
      BY <3>1, <3>3
  <2>2. ReadChars(s, j, topLevel)
        = [text |-> <<s[j]>> \o ReadChars(s, j + 1, topLevel).text,
           next |-> ReadChars(s, j + 1, topLevel).next]
    BY <1>1, <1>2, <1>4, ReadsPlain, Zenon
  <2>3. <<Blank>> \o <<>> = <<Blank>>
    OBVIOUS
  <2>4. ReadChars(s, j, topLevel) = [text |-> <<Blank>>, next |-> j + 1]
    BY <1>4, <2>1, <2>2, <2>3
  <2>5. Gap(s, j, j + 1)
    BY <1>1, <1>2, <1>4 DEF Gap
  <2>6. (j + 1) + 1 = j + 2
    BY <1>4
  <2>7. Separated(s, topLevel, c, j, j + 1, <<Blank>>, z)
    BY <1>1, <1>4, <2>4, <2>5, <2>6 DEF Separated
  <2> QED
    BY <2>7
<1>5. CASE sep[c] = <<Blank, c>>
  <2>1. Len(<<Blank, c>>) = 2 /\ <<Blank, c>>[1] = Blank /\ <<Blank, c>>[2] = c
    OBVIOUS
  <2>2. /\ j \in 1..(n + 1) /\ j + 2 <= n + 1
        /\ s[j + 1 - 1] = Blank /\ s[j + 2 - 1] = c
    BY <1>1, <1>5, <2>1 DEF Stands
  <2>3. /\ j \in 1..n /\ j + 1 \in 1..n /\ s[j] = Blank /\ s[j + 1] = c
        /\ j + 2 \in 1..(n + 1)
    <3>1. j + 1 - 1 = j /\ j + 2 - 1 = j + 1 /\ j \in 1..n /\ j + 1 \in 1..n /\ j + 2 \in 1..(n + 1)
      BY <2>2
    <3> QED
      BY <2>2, <3>1
  <2>4. Gap(s, j + 2, j + 2)
    BY <1>1, <2>3 DEF Gap
  <2> QED
    BY <1>4, <1>5, <2>1, <2>3, <2>4
<1>6. CASE sep[c] = <<Blank, c, Blank>>
  <2>1. /\ Len(<<Blank, c, Blank>>) = 3 /\ <<Blank, c, Blank>>[1] = Blank
        /\ <<Blank, c, Blank>>[2] = c /\ <<Blank, c, Blank>>[3] = Blank
    OBVIOUS
  <2>2. /\ j \in 1..(n + 1) /\ j + 3 <= n + 1
        /\ s[j + 1 - 1] = Blank /\ s[j + 2 - 1] = c /\ s[j + 3 - 1] = Blank
    BY <1>1, <1>6, <2>1 DEF Stands
  <2>3. /\ j \in 1..n /\ j + 1 \in 1..n /\ s[j] = Blank /\ s[j + 1] = c
        /\ j + 2 \in 1..n /\ s[j + 2] = Blank /\ j + 3 \in 1..(n + 1) /\ j + 3 = (j + 2) + 1
        /\ j + 2 \in 1..(n + 1)
    <3>1. j + 1 - 1 = j /\ j + 2 - 1 = j + 1 /\ j + 3 - 1 = j + 2 /\ j + 3 = (j + 2) + 1
      BY <2>2
    <3>2. j \in 1..n /\ j + 1 \in 1..n /\ j + 2 \in 1..n /\ j + 3 \in 1..(n + 1) /\ j + 2 \in 1..(n + 1)
      BY <2>2
    <3> QED
      BY <2>2, <3>1, <3>2
  <2>4. Gap(s, j + 2, j + 3)
    BY <1>1, <1>2, <2>3 DEF Gap
  <2> QED
    BY <1>4, <1>6, <2>1, <2>3, <2>4
<1> QED
  BY <1>3, <1>5, <1>6 DEF Spaced

\* An escaped text begins with an escape or with its first character.
LEMMA EscapeFirst ==
  ASSUME NEW u \in Seq(Alphabet), u # <<>>
  PROVE  /\ Escape(u) \in Seq(Alphabet) /\ 1 \in 1..Len(Escape(u))
         /\ Escape(u)[1] = IF u[1] \in Reserved THEN Backslash ELSE u[1]
<1>1. PICK c \in Alphabet, v \in Seq(Alphabet) : u = <<c>> \o v /\ u[1] = c
  <2>1. u = <<Head(u)>> \o Tail(u) /\ u[1] = Head(u)
        /\ Head(u) \in Alphabet /\ Tail(u) \in Seq(Alphabet)
    OBVIOUS
  <2> QED
    BY <2>1, Zenon
<1>2. PICK d \in Seq(Alphabet) : d = Escape(v)
  BY Escaping
<1>3. Escape(u) = Spelt[c] \o d
  BY <1>1, <1>2, Escaping, Zenon
<1>4. PICK e \in Seq(Alphabet) : e = Spelt[c] /\ Len(e) > 0
                                  /\ e[1] = IF c \in Reserved THEN Backslash ELSE c
  <2>1. <<c>>[1] = c /\ Len(<<c>>) = 1 /\ <<Backslash, c>>[1] = Backslash
        /\ Len(<<Backslash, c>>) = 2
    OBVIOUS
  <2>2. Spelt[c] = IF c \in Reserved THEN <<Backslash, c>> ELSE <<c>>
    BY DEF Spelt
  <2>3. Spelt[c] \in Seq(Alphabet)
    BY Escaping
  <2>4. Len(Spelt[c]) > 0 /\ Spelt[c][1] = IF c \in Reserved THEN Backslash ELSE c
    BY <2>1, <2>2
  <2> QED
    BY <2>3, <2>4
<1>5. e \o d \in Seq(Alphabet) /\ Len(e \o d) = Len(e) + Len(d) /\ (e \o d)[1] = e[1]
  <2>1. 1 \in 1..(Len(e) + Len(d)) /\ 1 <= Len(e)
    BY <1>4
  <2> QED
    BY <2>1, JoinedAt
<1>6. 1 \in 1..Len(e \o d)
  BY <1>4, <1>5
<1> QED
  BY <1>1, <1>3, <1>4, <1>5, <1>6, Zenon

\* The parts of what was read.
LEMMA Parts ==
  ASSUME NEW r, NEW t, NEW k, r = [text |-> t, next |-> k]
  PROVE  r.text = t /\ r.next = k
OBVIOUS

\* u is read from i on, up to c at q, and z comes next.
Token(s, i, u, c, q, z) ==
  /\ q \in 1..Len(s) /\ s[q] = c /\ Gap(s, q + 1, z)
  /\ ReadChars(s, SkipWS(s, i), FALSE).next = q
  /\ TrimRight(ReadChars(s, SkipWS(s, i), FALSE).text) = u

\* w is u, escaped, with the separator c after it.
TokenText(w, u, sep, c) == w = Escape(u) \o sep[c]

\* A key or a value is read, whatever blanks are around it.
LEMMA ReadsToken ==
  ASSUME NEW s \in Text, NEW sep \in Spaced, NEW c \in Stops(FALSE),
         NEW u \in Seq(Alphabet), Clean(u), NEW i, NEW j, Gap(s, i, j),
         NEW w, TokenText(w, u, sep, c), Stands(s, j, w)
  PROVE  \E q : Token(s, i, u, c, q, j + Len(w))
<1>1. PICK n \in Nat : n = Len(s) /\ s \in Seq(Alphabet)
  BY Marks
<1>2. PICK e \in Seq(Alphabet), m \in Nat : e = Escape(u) /\ m = Len(e)
  <2>1. Escape(u) \in Seq(Alphabet)
    BY Escaping
  <2>2. Len(Escape(u)) \in Nat
    BY <2>1
  <2> QED
    BY <2>1, <2>2
<1>3. c \in Separators \cap Stops(FALSE) /\ c \in Reserved
  BY Zenon DEF Separators, Stops, Reserved
<1>4. PICK p \in Seq(Alphabet), l \in Nat : p = sep[c] /\ l = Len(p)
  <2>1. sep[c] \in Seq(Alphabet)
    BY <1>3 DEF Spaced, Seps
  <2>2. Len(sep[c]) \in Nat
    BY <2>1
  <2> QED
    BY <2>1, <2>2
<1>5. Stands(s, j, e) /\ Stands(s, j + m, p)
  <2>1. Stands(s, j, e \o p)
    BY <1>2, <1>4 DEF TokenText
  <2> QED
    BY <1>1, <1>2, <2>1, StandsBoth
<1>6. PICK k : k = j + m
  OBVIOUS
<1>7. PICK q, b : Separated(s, FALSE, c, k, q, b, k + l)
  BY <1>3, <1>4, <1>5, <1>6, ReadsSeparator, Zenon
<1>8. k + l = j + Len(w)
  <2>1. j \in Nat
    BY DEF Gap
  <2>2. Len(e \o p) = m + l
    BY <1>2, <1>4, JoinedAt
  <2>3. w = e \o p
    BY <1>2, <1>4 DEF TokenText
  <2> QED
    <3>1. Len(w) = m + l
      BY <2>2, <2>3
    <3> QED
      BY <1>6, <2>1, <3>1
<1>9. q \in 1..n /\ s[q] = c /\ Gap(s, q + 1, k + l) /\ Gap(s, k, q)
  BY <1>1, <1>7 DEF Separated
<1>10. i \in 1..(n + 1) /\ j \in 1..(n + 1) /\ (j = i \/ (j = i + 1 /\ At(s, i) = Blank))
  BY <1>1 DEF Gap
<1>11. Blank # c /\ Blank # Backslash /\ Blank # "end"
  BY <1>3, Marks, CharactersAssumption, Zenon DEF White, Reserved
<1>12. \A x \in 1..n : At(s, x) = s[x]
  BY <1>1, Marks DEF At
<1>13. CASE u = <<>>
  <2>1. m = 0
    BY <1>2, <1>13, Escaping
  <2>2. k = j
    BY <1>6, <1>10, <2>1
  <2>3. q = j \/ (q = j + 1 /\ At(s, j) = Blank)
    BY <1>9, <2>2 DEF Gap
  <2>4. q \in i..(n + 1) /\ At(s, q) # Blank
    BY <1>9, <1>10, <1>11, <1>12, <2>3
  <2>5. ASSUME NEW x \in i..(q - 1) PROVE At(s, x) = Blank
    <3>1. x = i \/ x = j
      BY <1>10, <2>3
    <3>2. x = i /\ j = i => q = j + 1
      BY <2>3
    <3> QED
      BY <1>10, <2>3, <3>1, <3>2
  <2>6. SkipWS(s, i) = q
    BY <1>1, <1>10, <2>4, <2>5, SkipsTo
  <2>7. ReadChars(s, q, FALSE) = [text |-> <<>>, next |-> q]
    <3>1. q \in 1..(Len(s) + 1) /\ At(s, q) \in Stops(FALSE)
      <4>1. At(s, q) = c
        BY <1>9, <1>12
      <4>2. q \in 1..(Len(s) + 1)
        BY <1>1, <1>9
      <4> QED
        BY <4>1, <4>2, Zenon
    <3> QED
      BY <3>1, ReadsStop, Zenon
  <2>8. TrimRight(<<>>) = <<>>
    <3>1. <<>> \o <<>> = <<>> /\ <<>> \in Seq(Alphabet)
      OBVIOUS
    <3>2. At(u, Len(u)) # Blank
      BY DEF Clean
    <3> QED
      BY <1>13, <3>1, <3>2, Trims, Zenon
  <2>9. Token(s, i, u, c, q, k + l)
    <3>1. ReadChars(s, SkipWS(s, i), FALSE) = [text |-> <<>>, next |-> q]
      BY <2>6, <2>7, Zenon
    <3>2. /\ ReadChars(s, SkipWS(s, i), FALSE).text = <<>>
          /\ ReadChars(s, SkipWS(s, i), FALSE).next = q
      BY <3>1, Parts, Zenon
    <3> QED
      BY <1>1, <1>9, <1>13, <2>8, <3>2, Zenon DEF Token
  <2> QED
    BY <1>8, <2>9
<1>14. CASE u # <<>>
  <2>1. 1 \in 1..m /\ e[1] = IF u[1] \in Reserved THEN Backslash ELSE u[1]
    BY <1>2, <1>14, EscapeFirst
  <2>2. j \in 1..n /\ s[j] = e[1]
    <3>1. j + m <= n + 1 /\ s[j + 1 - 1] = e[1]
      BY <1>1, <1>2, <1>5, <2>1 DEF Stands
    <3>2. j + 1 - 1 = j /\ j \in 1..n
      BY <1>10, <2>1, <3>1
    <3> QED
      BY <3>1, <3>2
  <2>3. u[1] # Blank
    <3>1. 1 \in DOMAIN u
      BY <1>14
    <3> QED
      BY <3>1 DEF Clean, At
  <2>4. At(s, j) # Blank
    BY <1>11, <1>12, <2>1, <2>2, <2>3
  <2>5. SkipWS(s, i) = j
    <3>1. j \in i..(n + 1) /\ \A x \in i..(j - 1) : At(s, x) = Blank
      BY <1>10
    <3> QED
      BY <1>1, <1>10, <2>4, <3>1, SkipsTo
  <2>6. ReadChars(s, j, FALSE)
        = [text |-> u \o ReadChars(s, k, FALSE).text, next |-> ReadChars(s, k, FALSE).next]
    BY <1>2, <1>5, <1>6, ReadsEscaped, Zenon
  <2>7. ReadChars(s, k, FALSE) = [text |-> b, next |-> q] /\ b \in {<<>>, <<Blank>>}
    BY <1>7, Zenon DEF Separated
  <2>8. ReadChars(s, j, FALSE) = [text |-> u \o b, next |-> q]
    <3>1. ReadChars(s, k, FALSE).text = b /\ ReadChars(s, k, FALSE).next = q
      BY <2>7, Parts, Zenon
    <3> QED
      BY <2>6, <3>1, Zenon
  <2>9. TrimRight(u \o b) = u
    <3>1. At(u, Len(u)) # Blank
      BY DEF Clean
    <3> QED
      BY <2>7, <3>1, Trims, Zenon
  <2>10. Token(s, i, u, c, q, k + l)
    <3>1. ReadChars(s, SkipWS(s, i), FALSE) = [text |-> u \o b, next |-> q]
      BY <2>5, <2>8, Zenon
    <3>2. /\ ReadChars(s, SkipWS(s, i), FALSE).text = u \o b
          /\ ReadChars(s, SkipWS(s, i), FALSE).next = q
      BY <3>1, Parts, Zenon
    <3> QED
      BY <1>1, <1>9, <2>9, <3>2, Zenon DEF Token
  <2> QED
    BY <1>8, <2>10
<1> QED
  BY <1>13, <1>14

----------------------------------------------------------------------------
(* Reading the parameters.                                                 *)

\* Reading goes on to the end of the text, or stops short of it, but never
\* goes back.
LEMMA ReadsOnwards ==
  ASSUME NEW s \in Text, NEW topLevel
  PROVE  \A i \in 1..(Len(s) + 1) : ReadChars(s, i, topLevel).next \in {0} \cup i..(Len(s) + 1)
<1>1. PICK n \in Nat : n = Len(s)
  BY Marks
<1>2. PICK D : D = 1..(n + 1)
  OBVIOUS
<1>3. PICK w : w = [i \in D |-> n + 1 - i]
  BY Zenon
<1>4. PICK next : next = [i \in D |-> ReadChars(s, i, topLevel).next]
  BY Zenon
<1>5. PICK T : T = {i \in D : next[i] \in {0} \cup i..(n + 1)}
  BY Zenon
<1>6. ASSUME NEW i \in D, \A j \in D : w[j] < w[i] => j \in T
      PROVE  i \in T
  <2>1. \A j \in D : j > i => next[j] \in {0} \cup j..(n + 1)
    BY <1>2, <1>3, <1>5, <1>6
  <2>2. i \in 1..(Len(s) + 1)
    BY <1>1, <1>2
  <2>3. ASSUME NEW k, k \in {0, i} \/ \E j \in D : j > i /\ k = next[j]
        PROVE  k \in {0} \cup i..(n + 1)
    <3>1. CASE k \in {0, i}
      BY <1>2, <3>1
    <3>2. CASE \E j \in D : j > i /\ k = next[j]
      <4>1. PICK j \in D : j > i /\ k = next[j]
        BY <3>2
      <4>2. k \in {0} \cup j..(n + 1)
        BY <2>1, <4>1
      <4> QED
        BY <1>2, <4>1, <4>2
    <3> QED
      BY <2>3, <3>1, <3>2
  <2>4. CASE i > n \/ At(s, i) \in Stops(topLevel)
    <3>1. ReadChars(s, i, topLevel) = [text |-> <<>>, next |-> i]
      BY <1>1, <2>2, <2>4, ReadsStop
    <3>2. next[i] = i
      BY <1>4, <3>1, Parts, Zenon
    <3> QED
      BY <1>5, <2>3, <3>2
  <2>5. CASE i \in 1..n /\ s[i] = Backslash /\ At(s, i + 1) \in Reserved
    <3>1. i + 2 \in D /\ i + 2 > i
      <4>1. i + 2 \in 1..(Len(s) + 1)
        BY <1>1, <2>5, ReadsReserved, Zenon
      <4> QED
        BY <1>1, <1>2, <4>1
    <3>2. ReadChars(s, i, topLevel)
            = [text |-> <<s[i + 1]>> \o ReadChars(s, i + 2, topLevel).text,
               next |-> ReadChars(s, i + 2, topLevel).next]
      BY <1>1, <2>5, ReadsReserved, Zenon
    <3>3. next[i] = next[i + 2]
      <4>1. next[i + 2] = ReadChars(s, i + 2, topLevel).next
        BY <1>4, <3>1
      <4>2. ReadChars(s, i, topLevel).next = ReadChars(s, i + 2, topLevel).next
        <5>1. PICK r, k : r = ReadChars(s, i, topLevel) /\ k = ReadChars(s, i + 2, topLevel).next
          OBVIOUS
        <5>2. \E t : r = [text |-> t, next |-> k]
          BY <3>2, <5>1, Zenon
        <5> QED
          BY <5>1, <5>2
      <4>3. next[i] = ReadChars(s, i, topLevel).next
        BY <1>4
      <4> QED
        BY <4>1, <4>2, <4>3
    <3>4. next[i] \in {0} \cup i..(n + 1)
      BY <2>3, <3>1, <3>3
    <3> QED
      BY <1>5, <3>4
  <2>6. CASE i \in 1..n /\ s[i] \notin Reserved
    <3>1. i + 1 \in D /\ i + 1 > i
      BY <1>1, <1>2, <2>6
    <3>2. ReadChars(s, i, topLevel)
            = [text |-> <<s[i]>> \o ReadChars(s, i + 1, topLevel).text,
               next |-> ReadChars(s, i + 1, topLevel).next]
      BY <1>1, <2>6, ReadsPlain, Zenon
    <3>3. next[i] = next[i + 1]
      <4>1. next[i + 1] = ReadChars(s, i + 1, topLevel).next
        BY <1>4, <3>1
      <4>2. ReadChars(s, i, topLevel).next = ReadChars(s, i + 1, topLevel).next
        <5>1. PICK r, k : r = ReadChars(s, i, topLevel) /\ k = ReadChars(s, i + 1, topLevel).next
          OBVIOUS
        <5>2. \E t : r = [text |-> t, next |-> k]
          BY <3>2, <5>1, Zenon
        <5> QED
          BY <5>1, <5>2
      <4>3. next[i] = ReadChars(s, i, topLevel).next
        BY <1>4
      <4> QED
        BY <4>1, <4>2, <4>3
    <3>4. next[i] \in {0} \cup i..(n + 1)
      BY <2>3, <3>1, <3>3
    <3> QED
      BY <1>5, <3>4
  <2>7. CASE i \in 1..n /\ s[i] \in Reserved \ Stops(topLevel)
             /\ ~(s[i] = Backslash /\ At(s, i + 1) \in Reserved)
    <3>1. ReadChars(s, i, topLevel) = [text |-> <<>>, next |-> 0]
      BY <1>1, <2>2, <2>7, ReadCharsAt, Zenon
    <3>2. next[i] = 0
      BY <1>4, <3>1, Parts, Zenon
    <3> QED
      BY <1>5, <2>3, <3>2
  <2>8. i \in 1..n => At(s, i) = s[i]
    BY <1>1, <2>2, Onwards
  <2>9. i > n \/ i \in 1..n
    BY <1>2
  <2> QED
    BY <2>4, <2>5, <2>6, <2>7, <2>8, <2>9
<1>7. D \subseteq T
  <2>1. \A i \in D : w[i] \in Nat
    BY <1>2, <1>3
  <2>2. Inherits(D, w, T)
    BY <1>6, <2>1 DEF Inherits
  <2> QED
    BY <2>2, Ranked
<1> QED
  BY <1>1, <1>2, <1>4, <1>5, <1>7

\* The key that is read from position i on, its value, and the two.
KeyAt(s, i)   == ReadChars(s, SkipWS(s, i), FALSE)
ValueAt(s, i) == ReadChars(s, SkipWS(s, KeyAt(s, i).next + 1), FALSE)
PairAt(s, i)  == [key |-> TrimRight(KeyAt(s, i).text), value |-> TrimRight(ValueAt(s, i).text)]

\* There is no key, or no value.
NoPair(s, i) ==
  \/ KeyAt(s, i).next = 0 \/ TrimRight(KeyAt(s, i).text) = <<>>
  \/ At(s, KeyAt(s, i).next) # "=" \/ ValueAt(s, i).next = 0

\* A key and a value, of any texts.
PairType == [key : Seq(Alphabet), value : Seq(Alphabet)]

\* A pair consists of texts, and lies before what is read next.
LEMMA Pairs ==
  ASSUME NEW s \in Text, NEW i \in 1..(Len(s) + 1), ~NoPair(s, i)
  PROVE  /\ PairAt(s, i) \in PairType
         /\ KeyAt(s, i).next \in 1..Len(s)
         /\ ValueAt(s, i).next \in (i + 1)..(Len(s) + 1)
         /\ At(s, ValueAt(s, i).next) = "," => ValueAt(s, i).next \in 1..Len(s)
<1>1. PICK n \in Nat : n = Len(s)
  BY Marks
<1>2. PICK j \in i..(n + 1) : j = SkipWS(s, i)
  BY <1>1, SkipsBlanks
<1>3. PICK t \in Seq(Alphabet), k \in 0..(n + 1) : KeyAt(s, i) = [text |-> t, next |-> k]
  <2>1. j \in 1..(Len(s) + 1)
    BY <1>1, <1>2
  <2>2. KeyAt(s, i) \in ReadResult(s)
    BY <1>2, <2>1, ReadCharsAt, Zenon DEF KeyAt
  <2> QED
    BY <1>1, <2>2 DEF ReadResult
<1>4. KeyAt(s, i).text = t /\ KeyAt(s, i).next = k
  BY <1>3, Parts, Zenon
<1>5. k # 0 /\ At(s, k) = "=" /\ ValueAt(s, i).next # 0
  BY <1>4 DEF NoPair
<1>6. k \in i..(n + 1)
  <2>1. j \in 1..(Len(s) + 1)
    BY <1>1, <1>2
  <2>2. ReadChars(s, j, FALSE).next \in {0} \cup j..(Len(s) + 1)
    BY <2>1, ReadsOnwards, Zenon
  <2>3. k \in {0} \cup j..(Len(s) + 1)
    BY <1>2, <1>4, <2>2, Zenon DEF KeyAt
  <2> QED
    BY <1>1, <1>2, <1>5, <2>3
<1>7. k \in 1..n /\ k + 1 \in 1..(n + 1)
  <2>1. k <= n
    BY <1>1, <1>5, <1>6, Onwards
  <2> QED
    BY <1>6, <2>1
<1>8. PICK l \in (k + 1)..(n + 1) : l = SkipWS(s, k + 1)
  BY <1>1, <1>7, SkipsBlanks, Zenon
<1>9. PICK u \in Seq(Alphabet), m \in 0..(n + 1) : ValueAt(s, i) = [text |-> u, next |-> m]
  <2>1. l \in 1..(Len(s) + 1)
    BY <1>1, <1>7, <1>8
  <2>2. ReadChars(s, l, FALSE) \in ReadResult(s)
    BY <2>1, ReadCharsAt, Zenon
  <2>3. ValueAt(s, i) \in ReadResult(s)
    BY <1>4, <1>8, <2>2, Zenon DEF ValueAt
  <2> QED
    BY <1>1, <2>3 DEF ReadResult
<1>10. ValueAt(s, i).text = u /\ ValueAt(s, i).next = m
  BY <1>9, Parts, Zenon
<1>11. m \in (i + 1)..(n + 1)
  <2>1. l \in 1..(Len(s) + 1)
    BY <1>1, <1>7, <1>8
  <2>2. ReadChars(s, l, FALSE).next \in {0} \cup l..(Len(s) + 1)
    BY <2>1, ReadsOnwards, Zenon
  <2>3. m \in {0} \cup l..(Len(s) + 1)
    BY <1>4, <1>8, <1>10, <2>2, Zenon DEF ValueAt
  <2> QED
    BY <1>1, <1>5, <1>6, <1>8, <1>10, <2>3
<1>12. PairAt(s, i) \in PairType
  <2>1. TrimRight(t) \in Seq(Alphabet) /\ TrimRight(u) \in Seq(Alphabet)
    BY Trimmed
  <2> QED
    BY <1>4, <1>10, <2>1 DEF PairAt, PairType
<1>13. At(s, m) = "," => m \in 1..n
  <2>1. m \in 1..(n + 1)
    BY <1>11
  <2>2. At(s, m) # "end" => m <= n
    BY <1>1, <2>1, Onwards
  <2>3. At(s, m) = "," => m <= n
    BY <2>2, Zenon
  <2>4. m <= n => m \in 1..n
    BY <2>1
  <2> QED
    BY <2>3, <2>4, Zenon
<1> QED
  BY <1>1, <1>4, <1>7, <1>10, <1>11, <1>12, <1>13, Zenon

\* What reading the parameters can return,
ParamsResult == [pairs : Seq(PairType), closed : BOOLEAN]
\* one pair read in front of the rest,
Longer(p, rest) == [rest EXCEPT !.pairs = <<p>> \o @]
\* and the list being closed behind the pair at i, where the text ends.
Closes(s, i) == At(s, ValueAt(s, i).next) = ")" /\ ValueAt(s, i).next = Len(s)

\* What is read from position i on, given what is read further on.
ParamsStep(s, i, f) ==
  LET k    == ReadChars(s, SkipWS(s, i), FALSE)
      v    == ReadChars(s, SkipWS(s, k.next + 1), FALSE)
      key  == TrimRight(k.text)
      pair == [key |-> key, value |-> TrimRight(v.text)]
  IN  IF k.next = 0 \/ key = <<>> \/ At(s, k.next) # "=" \/ v.next = 0
      THEN [pairs |-> <<>>, closed |-> FALSE]
      ELSE IF At(s, v.next) = ","
      THEN LET rest == f[v.next + 1] IN [rest EXCEPT !.pairs = <<pair>> \o @]
      ELSE [pairs |-> <<pair>>, closed |-> At(s, v.next) = ")" /\ v.next = Len(s)]

\* f[i] is what is read from i on.
ReadsParams(s, f) ==
  /\ f \in [1..(Len(s) + 1) -> ParamsResult]
  /\ \A i \in 1..(Len(s) + 1) : f[i] = ParamsStep(s, i, f) /\ ReadParams(s, i) = f[i]

\* One more pair.
LEMMA LongerIs ==
  ASSUME NEW p \in PairType, NEW r \in ParamsResult
  PROVE  /\ Longer(p, r) = [pairs |-> <<p>> \o r.pairs, closed |-> r.closed]
         /\ Longer(p, r) \in ParamsResult
<1>1. PICK t \in Seq(PairType), c \in BOOLEAN : r = [pairs |-> t, closed |-> c]
  BY DEF ParamsResult
<1>2. <<p>> \o t \in Seq(PairType)
  BY InFrontAt
<1>3. PICK v : v = <<p>> \o t
  BY Zenon
<1>4. r.pairs = t /\ r.closed = c
  BY <1>1
<1>5. [[pairs |-> t, closed |-> c] EXCEPT !.pairs = v] = [pairs |-> v, closed |-> c]
  OBVIOUS
<1>6. Longer(p, r) = [pairs |-> v, closed |-> c]
  BY <1>1, <1>3, <1>4, <1>5 DEF Longer
<1>7. v \in Seq(PairType)
  BY <1>2, <1>3
<1>8. [pairs |-> v, closed |-> c] \in ParamsResult
  BY <1>7 DEF ParamsResult
<1> QED
  BY <1>3, <1>4, <1>6, <1>8

\* The same in the words above.
LEMMA ParamsStepIs ==
  ASSUME NEW s, NEW i, NEW f
  PROVE  ParamsStep(s, i, f) =
           IF NoPair(s, i) THEN [pairs |-> <<>>, closed |-> FALSE]
           ELSE IF At(s, ValueAt(s, i).next) = ","
           THEN Longer(PairAt(s, i), f[ValueAt(s, i).next + 1])
           ELSE [pairs |-> <<PairAt(s, i)>>, closed |-> Closes(s, i)]
BY DEF ParamsStep, NoPair, KeyAt, ValueAt, PairAt, Longer, Closes

\* There is such a function.
LEMMA ReadingParams ==
  ASSUME NEW s \in Text
  PROVE  \E f : ReadsParams(s, f)
<1>1. PICK n \in Nat : n = Len(s)
  BY Marks
<1>2. PICK Q : Q = ParamsResult
  OBVIOUS
<1>3. PICK D : D = 1..(n + 1)
  OBVIOUS
<1>4. PICK w : w = [i \in D |-> n + 1 - i]
  BY Zenon
<1>5. PICK next : next = [i \in D |-> ValueAt(s, i).next + 1]
  BY Zenon
<1>6. ASSUME NEW i \in D, ~NoPair(s, i), At(s, ValueAt(s, i).next) = ","
      PROVE  next[i] = ValueAt(s, i).next + 1 /\ next[i] \in D /\ next[i] > i
  <2>1. ValueAt(s, i).next \in (i + 1)..(n + 1) /\ ValueAt(s, i).next \in 1..n
    BY <1>1, <1>3, <1>6, Pairs, Zenon
  <2>2. PICK v \in 1..n : v = ValueAt(s, i).next /\ v \in (i + 1)..(n + 1)
    BY <2>1
  <2> QED
    BY <1>3, <1>5, <2>2
<1>7. ASSUME NEW i \in D, ~NoPair(s, i) PROVE PairAt(s, i) \in PairType
  BY <1>1, <1>3, <1>7, Pairs, Zenon
<1>8. /\ [pairs |-> <<>>, closed |-> FALSE] \in Q
      /\ \A p \in PairType, c \in BOOLEAN : [pairs |-> <<p>>, closed |-> c] \in Q
      /\ \A p \in PairType, r \in Q : Longer(p, r) \in Q
  <2>1. <<>> \in Seq(PairType) /\ \A p \in PairType : <<p>> \in Seq(PairType)
    OBVIOUS
  <2>2. [pairs |-> <<>>, closed |-> FALSE] \in Q
    BY <1>2, <2>1 DEF ParamsResult
  <2>3. \A p \in PairType, c \in BOOLEAN : [pairs |-> <<p>>, closed |-> c] \in Q
    BY <1>2, <2>1 DEF ParamsResult
  <2> QED
    BY <1>2, <2>2, <2>3, LongerIs, Zenon
<1>9. ASSUME NEW f, NEW i \in D, \A j \in D : j > i => f[j] \in Q
      PROVE  ParamsStep(s, i, f) \in Q
  <2>1. CASE NoPair(s, i)
    BY <1>8, <2>1, ParamsStepIs, Zenon
  <2>2. CASE ~NoPair(s, i) /\ At(s, ValueAt(s, i).next) = ","
    <3>1. f[ValueAt(s, i).next + 1] \in Q
      BY <1>6, <1>9, <2>2, Zenon
    <3>2. Longer(PairAt(s, i), f[ValueAt(s, i).next + 1]) \in Q
      BY <1>7, <1>8, <2>2, <3>1, Zenon
    <3> QED
      BY <2>2, <3>2, ParamsStepIs, Zenon
  <2>3. CASE ~NoPair(s, i) /\ At(s, ValueAt(s, i).next) # ","
    <3>1. PICK c \in BOOLEAN : c = Closes(s, i)
      BY Zenon DEF Closes
    <3>2. [pairs |-> <<PairAt(s, i)>>, closed |-> c] \in Q
      BY <1>7, <1>8, <2>3, Zenon
    <3> QED
      BY <2>3, <3>1, <3>2, ParamsStepIs, Zenon
  <2> QED
    BY <2>1, <2>2, <2>3, Zenon
<1>10. ASSUME NEW i \in D, NEW a, NEW b, \A j \in D : j > i => a[j] = b[j]
       PROVE  ParamsStep(s, i, a) = ParamsStep(s, i, b)
  <2>1. ~NoPair(s, i) /\ At(s, ValueAt(s, i).next) = ","
        => a[ValueAt(s, i).next + 1] = b[ValueAt(s, i).next + 1]
    BY <1>6, <1>10, Zenon
  <2> QED
    BY <2>1, ParamsStepIs, Zenon
<1>11. \A i \in D : w[i] \in 0..(n + 1) /\ \A j \in D : w[j] < w[i] <=> j > i
  BY <1>3, <1>4
<1>12. \E f \in [D -> Q] : f = [i \in D |-> ParamsStep(s, i, f)]
  <2>1. PICK F : F = [x \in D \X [D -> Q] |-> ParamsStep(s, x[1], x[2])]
    BY Zenon
  <2>2. \A i \in D, a \in [D -> Q] : F[<<i, a>>] = ParamsStep(s, i, a)
    BY <2>1
  <2>3. F \in [D \X [D -> Q] -> Q]
    <3>1. ASSUME NEW i \in D, NEW a \in [D -> Q] PROVE ParamsStep(s, i, a) \in Q
      BY <1>9
    <3> QED
      BY <2>1, <3>1
  <2>4. ASSUME NEW i \in D, NEW a \in [D -> Q], NEW b \in [D -> Q],
               \A j \in D : w[j] < w[i] => a[j] = b[j]
        PROVE  F[<<i, a>>] = F[<<i, b>>]
    <3>1. \A j \in D : j > i => a[j] = b[j]
      BY <1>11, <2>4
    <3>2. ParamsStep(s, i, a) = ParamsStep(s, i, b)
      BY <1>10, <3>1
    <3> QED
      BY <2>2, <3>2
  <2>5. Recursion(D, n + 1, w, Q, F)
    <3>1. w \in [D -> 0..(n + 1)] /\ n + 1 \in Nat
      BY <1>4, <1>11
    <3>2. Q # {}
      BY <1>8
    <3> QED
      BY <2>3, <2>4, <3>1, <3>2, Zenon DEF Recursion
  <2>6. PICK f : Solves(D, Q, F, f)
    BY <2>5, RecursiveFunction
  <2>7. f \in [D -> Q] /\ \A i \in D : f[i] = ParamsStep(s, i, f)
    BY <2>2, <2>6, Zenon DEF Solves
  <2>8. f = [i \in D |-> ParamsStep(s, i, f)]
    BY <2>7
  <2> QED
    BY <2>7, <2>8
<1>13. PICK h : h = CHOOSE f : f = [i \in D |-> ParamsStep(s, i, f)]
  OBVIOUS
<1>14. h = [i \in D |-> ParamsStep(s, i, h)]
  BY <1>12, <1>13
<1>15. ASSUME NEW i \in D PROVE ReadParams(s, i) = h[i]
  BY <1>1, <1>3, <1>13
, Zenon DEF ReadParams, ParamsStep
<1>16. \A i \in D : h[i] = ParamsStep(s, i, h)
  BY <1>14
<1>17. D \subseteq {i \in D : h[i] \in Q}
  <2>1. PICK T : T = {i \in D : h[i] \in Q}
    BY Zenon
  <2>2. ASSUME NEW i \in D, \A j \in D : w[j] < w[i] => j \in T
        PROVE  i \in T
    <3>1. \A j \in D : j > i => h[j] \in Q
      BY <1>11, <2>1, <2>2
    <3>2. ParamsStep(s, i, h) \in Q
      BY <1>9, <3>1
    <3> QED
      BY <1>16, <2>1, <3>2
  <2>3. \A i \in D : w[i] \in Nat
    BY <1>11
  <2>4. Inherits(D, w, T)
    BY <2>2, <2>3 DEF Inherits
  <2> QED
    BY <2>1, <2>4, Ranked
<1>18. h \in [D -> Q]
  BY <1>14, <1>17
<1> QED
  BY <1>1, <1>2, <1>3, <1>15, <1>16, <1>18 DEF ReadsParams

\* What is read at a position: no pair, a pair and more, or the last pair.
LEMMA ReadParamsAt ==
  ASSUME NEW s \in Text, NEW i \in 1..(Len(s) + 1)
  PROVE  /\ ReadParams(s, i) \in ParamsResult
         /\ NoPair(s, i) => ReadParams(s, i) = [pairs |-> <<>>, closed |-> FALSE]
         /\ ~NoPair(s, i) /\ At(s, ValueAt(s, i).next) = ","
            => /\ ValueAt(s, i).next \in 1..Len(s)
               /\ ReadParams(s, i)
                  = [pairs |-> <<PairAt(s, i)>> \o ReadParams(s, ValueAt(s, i).next + 1).pairs,
                     closed |-> ReadParams(s, ValueAt(s, i).next + 1).closed]
         /\ ~NoPair(s, i) /\ At(s, ValueAt(s, i).next) # ","
            => ReadParams(s, i) = [pairs |-> <<PairAt(s, i)>>, closed |-> Closes(s, i)]
<1>1. PICK n \in Nat : n = Len(s)
  BY Marks
<1>2. PICK f : ReadsParams(s, f)
  BY ReadingParams
<1>3. \A j \in 1..(n + 1) : ReadParams(s, j) = f[j] /\ f[j] \in ParamsResult
  BY <1>1, <1>2 DEF ReadsParams
<1>4. f[i] = ParamsStep(s, i, f)
  BY <1>2 DEF ReadsParams
<1>5. ASSUME NoPair(s, i) PROVE f[i] = [pairs |-> <<>>, closed |-> FALSE]
  BY <1>4, <1>5, ParamsStepIs, Zenon
<1>6. ASSUME ~NoPair(s, i), At(s, ValueAt(s, i).next) = ","
      PROVE  /\ ValueAt(s, i).next \in 1..n
             /\ ReadParams(s, i)
                = [pairs |-> <<PairAt(s, i)>> \o ReadParams(s, ValueAt(s, i).next + 1).pairs,
                   closed |-> ReadParams(s, ValueAt(s, i).next + 1).closed]
  <2>1. PICK v \in 1..n : v = ValueAt(s, i).next
    BY <1>1, <1>6, Pairs, Zenon
  <2>2. PICK p \in PairType : p = PairAt(s, i)
    BY <1>6, Pairs, Zenon
  <2>3. v + 1 \in 1..(n + 1)
    BY <2>1
  <2>4. PICK r \in ParamsResult : r = f[v + 1] /\ r = ReadParams(s, v + 1)
    BY <1>3, <2>3
  <2>5. f[i] = Longer(p, r)
    BY <1>4, <1>6, <2>1, <2>2, <2>4, ParamsStepIs, Zenon
  <2>6. f[i] = [pairs |-> <<p>> \o r.pairs, closed |-> r.closed]
    BY <2>5, LongerIs, Zenon
  <2>7. ReadParams(s, i) = f[i]
    BY <1>1, <1>3
  <2> QED
    BY <2>1, <2>2, <2>4, <2>6, <2>7
<1>7. ASSUME ~NoPair(s, i), At(s, ValueAt(s, i).next) # ","
      PROVE  f[i] = [pairs |-> <<PairAt(s, i)>>, closed |-> Closes(s, i)]
  BY <1>4, <1>7, ParamsStepIs, Zenon
<1>8. ReadParams(s, i) = f[i] /\ f[i] \in ParamsResult
  BY <1>1, <1>3
<1> QED
  BY <1>1, <1>5, <1>6, <1>7, <1>8, Zenon

----------------------------------------------------------------------------
(* Reading a list.                                                         *)

\* The texts ss stand in s one after the other, at at[1], at[2] and so on.
Placed(s, p, ss, at) ==
  /\ at \in [1..(Len(ss) + 1) -> Nat] /\ at[1] = p
  /\ at[Len(ss) + 1] = p + Len(FlattenSeq(ss))
  /\ \A i \in 1..Len(ss) : Stands(s, at[i], ss[i]) /\ at[i + 1] = at[i] + Len(ss[i])

\* Where they stand together each has its place.
LEMMA PlacesOf ==
  ASSUME NEW S, NEW s \in Seq(S)
  PROVE  \A ss \in Seq(Seq(S)) : \A p : Stands(s, p, FlattenSeq(ss)) =>
           \E at : Placed(s, p, ss, at)
<1>1. PICK R : R = Seq(S)
  OBVIOUS
<1>2. PICK T : T = {ss \in Seq(R) : \A p : Stands(s, p, FlattenSeq(ss)) =>
                                      \E at : Placed(s, p, ss, at)}
  BY Zenon
<1>3. <<>> \in T
  <2>1. ASSUME NEW p, Stands(s, p, FlattenSeq(<<>>))
        PROVE  \E at : Placed(s, p, <<>>, at)
    <3>1. FlattenSeq(<<>>) = <<>> /\ Len(<<>>) = 0
      BY FlattenType
    <3>2. p \in Nat
      BY <2>1, <3>1 DEF Stands
    <3>3. PICK at : at = [i \in 1..1 |-> p]
      BY Zenon
    <3>4. Placed(s, p, <<>>, at)
      BY <3>1, <3>2, <3>3 DEF Placed
    <3> QED
      BY <3>4
  <2>2. <<>> \in Seq(R)
    OBVIOUS
  <2> QED
    BY <1>2, <2>1, <2>2
<1>4. ASSUME NEW x \in R, NEW rest \in Seq(R), rest \in T
      PROVE  <<x>> \o rest \in T
  <2>1. PICK m \in Nat : m = Len(rest)
    OBVIOUS
  <2>2. PICK ss : ss = <<x>> \o rest
    BY Zenon
  <2>3. ss \in Seq(R) /\ Len(ss) = m + 1 /\ ss[1] = x /\ \A j \in 1..m : ss[j + 1] = rest[j]
    BY <2>1, <2>2, InFrontAt
  <2>4. PICK y \in Seq(S) : y = FlattenSeq(rest)
    BY <1>1, FlattenType
  <2>5. FlattenSeq(ss) = x \o y
    BY <1>1, <2>2, <2>4, FlattenCons, Zenon
  <2>6. PICK l \in Nat, k \in Nat : l = Len(x) /\ k = Len(y)
    BY <1>1
  <2>7. ASSUME NEW p, Stands(s, p, FlattenSeq(ss))
        PROVE  \E at : Placed(s, p, ss, at)
    <3>1. Stands(s, p, x) /\ Stands(s, p + l, y)
      BY <1>1, <2>5, <2>6, <2>7, StandsBoth
    <3>2. p \in Nat
      BY <3>1 DEF Stands
    <3>3. PICK q : q = p + l
      OBVIOUS
    <3>4. PICK bt : Placed(s, q, rest, bt)
      BY <1>2, <1>4, <2>4, <3>1, <3>3
    <3>5. /\ bt \in [1..(m + 1) -> Nat] /\ bt[1] = q /\ bt[m + 1] = q + k
          /\ \A i \in 1..m : Stands(s, bt[i], rest[i]) /\ bt[i + 1] = bt[i] + Len(rest[i])
      BY <2>1, <2>4, <2>6, <3>4 DEF Placed
    <3>6. PICK at : at = [i \in 1..(m + 2) |-> IF i = 1 THEN p ELSE bt[i - 1]]
      BY Zenon
    <3>7. at[1] = p /\ \A i \in 1..(m + 1) : at[i + 1] = bt[i]
      <4>1. ASSUME NEW i \in 1..(m + 1) PROVE at[i + 1] = bt[i]
        <5>1. i + 1 \in 1..(m + 2) /\ i + 1 # 1 /\ (i + 1) - 1 = i
          OBVIOUS
        <5> QED
          BY <3>6, <5>1
      <4>2. 1 \in 1..(m + 2)
        OBVIOUS
      <4> QED
        BY <3>6, <4>1, <4>2
    <3>8. at \in [1..(m + 2) -> Nat]
      <4>1. ASSUME NEW i \in 1..(m + 2) PROVE (IF i = 1 THEN p ELSE bt[i - 1]) \in Nat
        BY <3>2, <3>5
      <4> QED
        BY <3>6, <4>1
    <3>9. Len(FlattenSeq(ss)) = l + k
      BY <1>1, <2>5, <2>6, JoinedAt
    <3>10. at[m + 2] = p + (l + k)
      <4>1. m + 1 \in 1..(m + 1) /\ (m + 1) + 1 = m + 2
        OBVIOUS
      <4>2. at[m + 2] = bt[m + 1]
        BY <3>7, <4>1
      <4> QED
        BY <3>2, <3>3, <3>5, <4>2
    <3>11. ASSUME NEW i \in 1..(m + 1)
           PROVE  Stands(s, at[i], ss[i]) /\ at[i + 1] = at[i] + Len(ss[i])
      <4>1. CASE i = 1
        <5>1. at[1 + 1] = bt[1]
          BY <3>7
        <5> QED
          BY <2>3, <2>6, <3>1, <3>3, <3>5, <3>7, <4>1, <5>1, Zenon
      <4>2. CASE i # 1
        <5>1. PICK j \in 1..m : i = j + 1
          BY <4>2
        <5>2. at[i] = bt[j] /\ at[i + 1] = bt[j + 1] /\ ss[i] = rest[j]
          BY <2>3, <3>7, <5>1
        <5> QED
          BY <3>5, <5>2
      <4> QED
        BY <4>1, <4>2
    <3>12. Placed(s, p, ss, at)
      <4>1. Len(ss) + 1 = m + 2
        BY <2>3
      <4> QED
        BY <2>3, <3>7, <3>8, <3>9, <3>10, <3>11, <4>1, Zenon DEF Placed
    <3> QED
      BY <3>12
  <2> QED
    BY <1>2, <2>2, <2>3, <2>7, Zenon
<1>5. Seq(R) \subseteq T
  BY <1>3, <1>4, Texts
<1> QED
  BY <1>1, <1>2, <1>5

\* Five texts stand in a row, the first four of them together.
Row(S, s, p, a, b, c, d, e, w, f, g) ==
  /\ s \in Seq(S) /\ a \in Seq(S) /\ b \in Seq(S) /\ c \in Seq(S) /\ d \in Seq(S) /\ e \in Seq(S)
  /\ w = a \o b \o c \o d /\ f = b \o c /\ g = d \o e
  /\ Stands(s, p, w) /\ Stands(s, p + Len(w), e)

\* They stand there when they are told apart otherwise.
LEMMA Regrouped ==
  ASSUME NEW S, NEW s, NEW p, NEW a, NEW b, NEW c, NEW d, NEW e, NEW w, NEW f, NEW g,
         Row(S, s, p, a, b, c, d, e, w, f, g)
  PROVE  /\ Stands(s, p, a) /\ Stands(s, p + Len(a), f)
         /\ Stands(s, p + Len(a) + Len(f), g)
         /\ p + Len(w) + Len(e) = p + Len(a) + Len(f) + Len(g)
<1>0. /\ s \in Seq(S) /\ a \in Seq(S) /\ b \in Seq(S) /\ c \in Seq(S) /\ d \in Seq(S) /\ e \in Seq(S)
      /\ Stands(s, p, w) /\ Stands(s, p + Len(w), e)
  BY DEF Row
<1>1. f = b \o c /\ f \in Seq(S)
  BY <1>0, JoinedAt DEF Row
<1>2. g = d \o e /\ g \in Seq(S)
  BY <1>0, JoinedAt DEF Row
<1>3. PICK x \in Seq(S) : x = a \o f
  BY <1>0, <1>1, JoinedAt, Zenon
<1>4. w = x \o d
  <2>1. (a \o b) \o c = a \o (b \o c)
    BY <1>0, SMTT(30)
  <2> QED
    BY <1>1, <1>3, <2>1 DEF Row
<1>5. PICK k \in Nat, l \in Nat, m \in Nat, n \in Nat :
        k = Len(a) /\ l = Len(f) /\ m = Len(d) /\ n = Len(e)
  BY <1>0, <1>1
<1>6. Len(x) = k + l /\ Len(w) = k + l + m /\ Len(g) = m + n
  BY <1>0, <1>1, <1>2, <1>3, <1>4, <1>5, JoinedAt
<1>7. Stands(s, p, x) /\ Stands(s, p + Len(x), d)
  BY <1>0, <1>3, <1>4, StandsBoth, Zenon
<1>8. Stands(s, p, a) /\ Stands(s, p + k, f)
  BY <1>0, <1>1, <1>3, <1>5, <1>7, StandsBoth, Zenon
<1>9. p \in Nat
  BY <1>8 DEF Stands
<1>10. PICK q : q = p + k + l
  OBVIOUS
<1>11. p + Len(x) = q /\ p + Len(w) = q + m
  BY <1>6, <1>9, <1>10
<1>12. Stands(s, q, d) /\ Stands(s, q + m, e)
  BY <1>0, <1>7, <1>11
<1>13. Stands(s, q, g)
  BY <1>0, <1>2, <1>5, <1>12, StandsBoth, Zenon
<1>14. q + m + n = p + k + l + Len(g)
  BY <1>6, <1>9, <1>10
<1> QED
  BY <1>1, <1>2, <1>5, <1>8, <1>10, <1>11, <1>13, <1>14

\* A key and its value are read.
LEMMA ReadsPair ==
  ASSUME NEW s \in Text, NEW a, NEW u, NEW v, NEW q, NEW y, NEW c, NEW k, NEW z,
         Token(s, a, u, "=", q, y), Token(s, q + 1, v, c, k, z), u # <<>>
  PROVE  /\ ~NoPair(s, a) /\ PairAt(s, a) = [key |-> u, value |-> v]
         /\ ValueAt(s, a).next = k
<1>1. KeyAt(s, a).next = q /\ TrimRight(KeyAt(s, a).text) = u
  BY Zenon DEF Token, KeyAt
<1>2. ValueAt(s, a).next = k /\ TrimRight(ValueAt(s, a).text) = v
  BY <1>1, Zenon DEF Token, ValueAt
<1>3. At(s, q) = "=" /\ q # 0 /\ k # 0
  <2>1. PICK n \in Nat : n = Len(s)
    BY Marks
  <2>2. q \in 1..n /\ k \in 1..n /\ s[q] = "="
    BY <2>1 DEF Token
  <2>3. At(s, q) = s[q]
    BY <2>1, <2>2, Marks DEF At
  <2> QED
    BY <2>2, <2>3
<1> QED
  BY <1>1, <1>2, <1>3 DEF NoPair, PairAt

\* A key u and its value v are read from a on, up to c at k, and e comes next.
One(s, a, u, v, c, k, e) ==
  /\ ~NoPair(s, a) /\ PairAt(s, a) = [key |-> u, value |-> v]
  /\ ValueAt(s, a).next = k
  /\ k \in 1..Len(s) /\ s[k] = c /\ Gap(s, k + 1, e)

\* Whatever blanks are around them.
LEMMA ReadsOne ==
  ASSUME NEW s \in Text, NEW sep \in Spaced, NEW c \in Stops(FALSE),
         NEW u \in Seq(Alphabet), NEW v \in Seq(Alphabet), u # <<>>, Clean(u), Clean(v),
         NEW a, NEW z, Gap(s, a, z), NEW x, TokenText(x, u, sep, "="), Stands(s, z, x),
         NEW y, TokenText(y, v, sep, c), Stands(s, z + Len(x), y)
  PROVE  \E k : One(s, a, u, v, c, k, z + Len(x) + Len(y))
<1>1. PICK d \in Stops(FALSE) : d = "="
  BY Zenon DEF Stops
<1>2. PICK q : Token(s, a, u, d, q, z + Len(x))
  <2>1. TokenText(x, u, sep, d)
    BY <1>1
  <2> QED
    BY <2>1, ReadsToken, Zenon
<1>3. PICK f : f = z + Len(x)
  OBVIOUS
<1>4. Gap(s, q + 1, f) /\ Stands(s, f, y)
  BY <1>2, <1>3 DEF Token
<1>5. PICK k : Token(s, q + 1, v, c, k, f + Len(y))
  BY <1>4, ReadsToken, Zenon
<1>6. Token(s, a, u, "=", q, f)
  BY <1>1, <1>2, <1>3
<1>7. /\ ~NoPair(s, a) /\ PairAt(s, a) = [key |-> u, value |-> v]
      /\ ValueAt(s, a).next = k
  BY <1>5, <1>6, ReadsPair
<1>8. k \in 1..Len(s) /\ s[k] = c /\ Gap(s, k + 1, f + Len(y))
  BY <1>5 DEF Token
<1>9. One(s, a, u, v, c, k, f + Len(y))
  BY <1>7, <1>8 DEF One
<1> QED
  BY <1>3, <1>9

\* The separator in front of the i-th key, and the one after its value.
Before(i)   == IF i = 1 THEN "(" ELSE ","
After(n, i) == IF i = n THEN ")" ELSE ","

\* The parameters of r are written in s, up to its end.
Listed(s, r, sep, n, keys, at) ==
  /\ n \in Nat /\ n # 0 /\ at \in [1..(n + 1) -> Nat]
  /\ \A i \in 1..n :
       /\ keys[i] \in Seq(Alphabet) /\ keys[i] # <<>> /\ Clean(keys[i])
       /\ r.params[keys[i]] \in Seq(Alphabet) /\ Clean(r.params[keys[i]])
       /\ Stands(s, at[i], PairText(r, sep, keys, i))
       /\ at[i + 1] = at[i] + Len(PairText(r, sep, keys, i))
  /\ Stands(s, at[n + 1], sep[")"]) /\ at[n + 1] + Len(sep[")"]) = Len(s) + 1
  /\ s[Len(s)] = ")"

\* What stands at the i-th pair: the separator, the key and its separator, the
\* value and the separator after that.
PairStands(s, sep, u, v, i, p, c, x, y) ==
  /\ Stands(s, p, sep[Before(i)])
  /\ TokenText(x, u, sep, "=") /\ TokenText(y, v, sep, c)
  /\ Stands(s, p + Len(sep[Before(i)]), x)
  /\ Stands(s, p + Len(sep[Before(i)]) + Len(x), y)

\* The i-th key and value stand in s as x and y, right before the next key.
NextStands(s, r, sep, n, keys, at, i, x, y) ==
  /\ PairStands(s, sep, keys[i], r.params[keys[i]], i, at[i], After(n, i), x, y)
  /\ at[i] + Len(sep[Before(i)]) + Len(x) + Len(y) = at[i + 1] + Len(sep[After(n, i)])

\* In a list each of these has its place.
LEMMA PairStanding ==
  ASSUME NEW s \in Text, NEW r, NEW sep \in Spaced, NEW n, NEW keys, NEW at,
         Listed(s, r, sep, n, keys, at), NEW i \in 1..n
  PROVE  \E x, y : NextStands(s, r, sep, n, keys, at, i, x, y)
<1>1. sep \in Seps /\ Before(i) \in Separators /\ After(n, i) \in Separators /\ "=" \in Separators
      /\ "," \in Separators
  BY Zenon DEF Spaced, Separators, Before, After
<1>2. s \in Seq(Alphabet)
  BY Marks
<1>3. PICK u \in Seq(Alphabet), v \in Seq(Alphabet) : u = keys[i] /\ v = r.params[keys[i]]
  BY Zenon DEF Listed
<1>4. PICK a \in Seq(Alphabet) : a = sep[Before(i)]
  BY <1>1, Zenon DEF Seps
<1>5. PICK b \in Seq(Alphabet) : b = Escape(u)
  BY Escaping
<1>6. PICK c \in Seq(Alphabet) : c = sep["="]
  BY <1>1, Zenon DEF Seps
<1>7. PICK d \in Seq(Alphabet) : d = Escape(v)
  BY Escaping
<1>8. PICK e \in Seq(Alphabet) : e = sep[After(n, i)]
  BY <1>1, Zenon DEF Seps
<1>9. PICK w : w = PairText(r, sep, keys, i)
  OBVIOUS
<1>10. w = a \o b \o c \o d
  BY <1>3, <1>4, <1>5, <1>6, <1>7, <1>9, Zenon DEF PairText, Before
<1>11. PICK p : p = at[i]
  OBVIOUS
<1>12. Stands(s, p, w) /\ at[i + 1] = p + Len(w)
  BY <1>9, <1>11, Zenon DEF Listed
<1>13. Stands(s, p + Len(w), e)
  <2>1. CASE i = n
    BY <1>8, <1>12, <2>1 DEF Listed, After
  <2>2. CASE i # n
    <3>1. i + 1 \in 1..n /\ i + 1 # 1
      BY <2>2 DEF Listed
    <3>2. Stands(s, at[i + 1], PairText(r, sep, keys, i + 1))
      BY <3>1 DEF Listed
    <3>3. e = sep[","]
      BY <1>8, <2>2, Zenon DEF After
    <3>4. PICK f \in Seq(Alphabet), g \in Seq(Alphabet) :
            f = Escape(keys[i + 1]) /\ g = Escape(r.params[keys[i + 1]])
      <4>1. keys[i + 1] \in Seq(Alphabet) /\ r.params[keys[i + 1]] \in Seq(Alphabet)
        BY <3>1, Zenon DEF Listed
      <4> QED
        BY <4>1, Escaping, Zenon
    <3>5. PairText(r, sep, keys, i + 1) = e \o f \o c \o g
      BY <1>6, <3>1, <3>3, <3>4, Zenon DEF PairText
    <3>6. PICK h \in Seq(Alphabet) : h = e \o f
      BY JoinedAt, Zenon
    <3>7. PICK k \in Seq(Alphabet) : k = h \o c
      BY JoinedAt, Zenon
    <3>8. Stands(s, at[i + 1], k \o g)
      BY <3>2, <3>5, <3>6, <3>7, Zenon
    <3>9. Stands(s, at[i + 1], k)
      BY <1>2, <3>8, StandsBoth, Zenon
    <3>10. Stands(s, at[i + 1], h)
      BY <1>2, <3>7, <3>9, StandsBoth, Zenon
    <3>11. Stands(s, at[i + 1], e)
      BY <1>2, <3>6, <3>10, StandsBoth, Zenon
    <3> QED
      BY <1>12, <3>11
  <2> QED
    BY <2>1, <2>2
<1>14. PICK x, y : x = b \o c /\ y = d \o e
  BY Zenon
<1>15. /\ Stands(s, p, a) /\ Stands(s, p + Len(a), x)
       /\ Stands(s, p + Len(a) + Len(x), y)
       /\ p + Len(w) + Len(e) = p + Len(a) + Len(x) + Len(y)
  <2>1. Row(Alphabet, s, p, a, b, c, d, e, w, x, y)
    BY <1>2, <1>10, <1>12, <1>13, <1>14 DEF Row
  <2> QED
    BY <2>1, Regrouped
<1>16. TokenText(x, u, sep, "=") /\ TokenText(y, v, sep, After(n, i))
  BY <1>5, <1>6, <1>7, <1>8, <1>14 DEF TokenText
<1>17. PairStands(s, sep, u, v, i, p, After(n, i), x, y)
  BY <1>4, <1>15, <1>16 DEF PairStands
<1>18. p + Len(sep[Before(i)]) + Len(x) + Len(y) = at[i + 1] + Len(sep[After(n, i)])
  BY <1>4, <1>8, <1>12, <1>15
<1>19. NextStands(s, r, sep, n, keys, at, i, x, y)
  BY <1>3, <1>11, <1>17, <1>18 DEF NextStands
<1> QED
  BY <1>19

\* The list g from its i-th element on.
From(g, n, i) == [j \in 1..(n - i + 1) |-> g[i + j - 1]]

\* g is a list of n elements of S.
ListOf(S, n, g) == n \in Nat /\ g \in [1..n -> S]

\* It is that element and the list from the next one on.
LEMMA FromNext ==
  ASSUME NEW S, NEW n, NEW g, ListOf(S, n, g), NEW i \in 1..n
  PROVE  /\ From(g, n, i) \in Seq(S)
         /\ i = n => From(g, n, i) = <<g[i]>>
         /\ i # n => i + 1 \in 1..n /\ From(g, n, i) = <<g[i]>> \o From(g, n, i + 1)
<1>0. n \in Nat /\ g \in [1..n -> S]
  BY DEF ListOf
<1>1. ASSUME NEW k \in 1..n
      PROVE  /\ n - k + 1 \in Nat /\ DOMAIN From(g, n, k) = 1..(n - k + 1)
             /\ \A j \in 1..(n - k + 1) : k + j - 1 \in 1..n /\ From(g, n, k)[j] = g[k + j - 1]
             /\ From(g, n, k) \in [1..(n - k + 1) -> S]
  <2>1. n - k + 1 \in Nat /\ \A j \in 1..(n - k + 1) : k + j - 1 \in 1..n
    BY <1>0
  <2> QED
    BY <1>0, <2>1 DEF From
<1>2. ASSUME NEW k \in 1..n PROVE From(g, n, k) \in Seq(S)
  <2>1. PICK m \in Nat : m = n - k + 1
    BY <1>1
  <2>2. From(g, n, k) \in [1..m -> S]
    BY <1>1, <2>1
  <2> QED
    BY <2>2
<1>3. ASSUME i = n PROVE From(g, n, i) = <<g[i]>>
  <2>1. n - i + 1 = 1
    BY <1>0, <1>3
  <2>2. DOMAIN From(g, n, i) = 1..1 /\ From(g, n, i)[1] = g[i]
    <3>1. 1 \in 1..(n - i + 1) /\ i + 1 - 1 = i
      BY <1>0, <2>1
    <3> QED
      BY <1>1, <2>1, <3>1, Zenon
  <2>3. PICK f \in Seq(S) : f = From(g, n, i)
    BY <1>2
  <2>4. Len(f) = 1 /\ f[1] = g[i]
    BY <2>2, <2>3
  <2>5. f = <<g[i]>>
    BY <2>4
  <2> QED
    BY <2>3, <2>5
<1>4. ASSUME i # n PROVE i + 1 \in 1..n /\ From(g, n, i) = <<g[i]>> \o From(g, n, i + 1)
  <2>1. i + 1 \in 1..n
    BY <1>0, <1>4
  <2>2. PICK m \in Nat : m = n - (i + 1) + 1 /\ n - i + 1 = m + 1
    BY <1>0, <1>1, <2>1
  <2>3. PICK f \in Seq(S) : f = From(g, n, i)
    BY <1>2
  <2>4. PICK h \in Seq(S) : h = From(g, n, i + 1)
    BY <1>2, <2>1
  <2>5. Len(f) = m + 1 /\ \A j \in 1..(m + 1) : f[j] = g[i + j - 1]
    <3>1. DOMAIN f = 1..(m + 1) /\ \A j \in 1..(m + 1) : f[j] = g[i + j - 1]
      BY <1>1, <2>2, <2>3, Zenon
    <3> QED
      BY <2>2, <3>1
  <2>6. Len(h) = m /\ \A j \in 1..m : h[j] = g[(i + 1) + j - 1]
    <3>1. DOMAIN h = 1..m
      BY <1>1, <2>1, <2>2, <2>4
    <3>2. \A j \in 1..m : h[j] = g[(i + 1) + j - 1]
      BY <1>1, <2>1, <2>2, <2>4
    <3>3. Len(h) = m
      BY <2>2, <3>1
    <3> QED
      BY <3>2, <3>3
  <2>7. PICK c \in S : c = g[i]
    BY <1>0
  <2>8. PICK k \in Seq(S) : k = <<c>> \o h
    BY InFrontAt, Zenon
  <2>9. Len(k) = m + 1 /\ k[1] = c /\ \A j \in 1..m : k[j + 1] = h[j]
    <3>1. Len(k) = Len(h) + 1 /\ k[1] = c /\ \A j \in 1..Len(h) : k[j + 1] = h[j]
      BY <2>8, InFrontAt
    <3>2. Len(h) = m
      BY <2>6
    <3> QED
      BY <3>1, <3>2
  <2>10. ASSUME NEW j \in 1..(m + 1) PROVE f[j] = k[j]
    <3>1. CASE j = 1
      <4>1. f[1] = g[i + 1 - 1] /\ i + 1 - 1 = i
        BY <1>0, <2>2, <2>5
      <4> QED
        BY <2>7, <2>9, <3>1, <4>1
    <3>2. CASE j # 1
      <4>1. PICK l \in 1..m : j = l + 1
        BY <2>2, <3>2
      <4>2. i + j - 1 = (i + 1) + l - 1
        BY <1>0, <4>1
      <4>3. f[j] = g[(i + 1) + l - 1]
        BY <2>5, <4>2, Zenon
      <4> QED
        BY <2>6, <2>9, <4>1, <4>3, Zenon
    <3> QED
      BY <3>1, <3>2
  <2>11. f = k
    BY <2>5, <2>9, <2>10
  <2> QED
    BY <2>1, <2>3, <2>4, <2>7, <2>8, <2>11
<1> QED
  BY <1>2, <1>3, <1>4

\* From the first element on it is all of it.
LEMMA FromFirst ==
  ASSUME NEW S, NEW n, NEW g, ListOf(S, n, g)
  PROVE  From(g, n, 1) = g
<1>1. n \in Nat /\ g \in [1..n -> S]
  BY DEF ListOf
<1>2. n - 1 + 1 = n /\ \A j \in 1..n : 1 + j - 1 = j
  BY <1>1
<1> QED
  BY <1>1, <1>2 DEF From

\* The pairs of r in the order of its keys.
AllPairs(r, keys, n) == [i \in 1..n |-> [key |-> keys[i], value |-> r.params[keys[i]]]]

\* What is read from a on is the list g from its i-th element on, up to the end.
ReadsRest(s, a, g, n, i) ==
  ReadParams(s, a) = [pairs |-> From(g, n, i), closed |-> TRUE]

\* From a key on the rest of the list is read.
LEMMA ReadsList ==
  ASSUME NEW s \in Text, NEW r, NEW sep \in Spaced, NEW n, NEW keys, NEW at,
         Listed(s, r, sep, n, keys, at)
  PROVE  /\ AllPairs(r, keys, n) \in [1..n -> PairType]
         /\ \A i \in 1..n : \A a : Gap(s, a, at[i] + Len(sep[Before(i)])) =>
              ReadsRest(s, a, AllPairs(r, keys, n), n, i)
<1>1. n \in Nat
  BY DEF Listed
<1>2. PICK g : g = AllPairs(r, keys, n)
  OBVIOUS
<1>3. g \in [1..n -> PairType]
  <2>1. ASSUME NEW i \in 1..n PROVE [key |-> keys[i], value |-> r.params[keys[i]]] \in PairType
    <3>1. keys[i] \in Seq(Alphabet) /\ r.params[keys[i]] \in Seq(Alphabet)
      BY Zenon DEF Listed
    <3> QED
      BY <3>1 DEF PairType
  <2> QED
    BY <1>2, <2>1 DEF AllPairs
<1>8. \A i \in 1..n :
        /\ i = n => From(g, n, i) = <<g[i]>>
        /\ i # n => i + 1 \in 1..n /\ From(g, n, i) = <<g[i]>> \o From(g, n, i + 1)
  <2>1. ListOf(PairType, n, g)
    BY <1>1, <1>3 DEF ListOf
  <2> QED
    BY <2>1, FromNext
<1>9. \A i \in 1..n : \E x, y : NextStands(s, r, sep, n, keys, at, i, x, y)
  BY PairStanding
<1>4. PICK D, w : D = 1..n /\ w = [i \in D |-> n - i]
  BY Zenon
<1>5. PICK T : T = {i \in D : \A a : Gap(s, a, at[i] + Len(sep[Before(i)])) =>
                      ReadParams(s, a) = [pairs |-> From(g, n, i), closed |-> TRUE]}
  BY Zenon
<1>6. ASSUME NEW i \in D, \A j \in D : w[j] < w[i] => j \in T,
             NEW a, Gap(s, a, at[i] + Len(sep[Before(i)]))
      PROVE  ReadParams(s, a) = [pairs |-> From(g, n, i), closed |-> TRUE]
  <2>1. PICK z : z = at[i] + Len(sep[Before(i)])
    OBVIOUS
  <2>2. PICK u \in Seq(Alphabet), v \in Seq(Alphabet) : u = keys[i] /\ v = r.params[keys[i]]
    BY <1>4, Zenon DEF Listed
  <2>3. u # <<>> /\ Clean(u) /\ Clean(v)
    BY <1>4, <2>2, Zenon DEF Listed
  <2>4. PICK c \in Stops(FALSE) : c = After(n, i)
    BY DEF After, Stops
  <2>5. PICK e : e = at[i + 1] + Len(sep[c])
    OBVIOUS
  <2>6. PICK x, y : /\ TokenText(x, u, sep, "=") /\ TokenText(y, v, sep, c)
                    /\ Stands(s, z, x) /\ Stands(s, z + Len(x), y)
                    /\ z + Len(x) + Len(y) = e
    <3>1. PICK x, y : NextStands(s, r, sep, n, keys, at, i, x, y)
      BY <1>4, <1>9
    <3>2. PairStands(s, sep, u, v, i, at[i], c, x, y) /\ z + Len(x) + Len(y) = e
      BY <2>1, <2>2, <2>4, <2>5, <3>1 DEF NextStands
    <3>3. /\ TokenText(x, u, sep, "=") /\ TokenText(y, v, sep, c)
          /\ Stands(s, z, x) /\ Stands(s, z + Len(x), y)
      BY <2>1, <3>2 DEF PairStands
    <3> QED
      BY <3>2, <3>3
  <2>7. PICK k : One(s, a, u, v, c, k, e)
    BY <1>6, <2>1, <2>3, <2>6, ReadsOne, Zenon
  <2>8. /\ ~NoPair(s, a) /\ PairAt(s, a) = [key |-> u, value |-> v] /\ ValueAt(s, a).next = k
        /\ k \in 1..Len(s) /\ s[k] = c /\ Gap(s, k + 1, e)
    BY <2>7 DEF One
  <2>9. a \in 1..(Len(s) + 1)
    BY <1>6 DEF Gap
  <2>10. At(s, k) = c
    BY <2>8, Marks DEF At
  <2>11. PICK p \in PairType : p = g[i] /\ p = PairAt(s, a)
    BY <1>2, <1>3, <1>4, <2>2, <2>8 DEF AllPairs
  <2>12. CASE i = n
    <3>1. c = ")"
      BY <2>4, <2>12 DEF After
    <3>2. e = Len(s) + 1
      BY <2>5, <2>12, <3>1 DEF Listed
    <3>3. k = Len(s)
      <4>1. PICK m \in Nat : m = Len(s)
        BY Marks
      <4>2. k + 1 = m + 1 \/ (m + 1 = k + 1 + 1 /\ At(s, k + 1) = Blank)
        BY <2>8, <3>2, <4>1 DEF Gap
      <4>3. ASSUME m + 1 = k + 1 + 1, At(s, k + 1) = Blank PROVE FALSE
        <5>1. k + 1 = m /\ m \in 1..m
          BY <2>8, <4>1, <4>3
        <5>2. At(s, m) = ")"
          <6>1. s[m] = ")" /\ m \in DOMAIN s
            BY <4>1, <5>1, Marks DEF Listed
          <6> QED
            BY <6>1 DEF At
        <5>3. ")" # Blank
          BY CharactersAssumption, Zenon DEF White, Reserved, Separators
        <5> QED
          BY <4>3, <5>1, <5>2, <5>3
      <4> QED
        BY <2>8, <4>1, <4>2, <4>3
    <3>4. Closes(s, a)
      BY <2>8, <2>10, <3>1, <3>3 DEF Closes
    <3>5. At(s, ValueAt(s, a).next) # ","
      BY <2>8, <2>10, <3>1
    <3>6. ReadParams(s, a) = [pairs |-> <<p>>, closed |-> TRUE]
      <4>1. ReadParams(s, a) = [pairs |-> <<PairAt(s, a)>>, closed |-> Closes(s, a)]
        BY <2>8, <2>9, <3>5, ReadParamsAt, Zenon
      <4>2. Closes(s, a) = TRUE
        BY <3>4 DEF Closes
      <4> QED
        BY <2>11, <4>1, <4>2
    <3>7. From(g, n, i) = <<p>>
      BY <1>4, <1>8, <2>11, <2>12, Zenon
    <3> QED
      BY <3>6, <3>7
  <2>13. CASE i # n
    <3>1. c = ","
      BY <2>4, <2>13, Zenon DEF After
    <3>2. i + 1 \in 1..n /\ From(g, n, i) = <<p>> \o From(g, n, i + 1)
      BY <1>4, <1>8, <2>11, <2>13, Zenon
    <3>3. i + 1 \in T
      <4>1. i + 1 \in D /\ w[i + 1] < w[i]
        BY <1>1, <1>4, <3>2
      <4> QED
        BY <1>6, <4>1
    <3>4. i + 1 # 1
      BY <1>1, <1>4
    <3>5. Gap(s, k + 1, at[i + 1] + Len(sep[Before(i + 1)]))
      BY <2>5, <2>8, <3>1, <3>4, Zenon DEF Before
    <3>6. ReadParams(s, k + 1) = [pairs |-> From(g, n, i + 1), closed |-> TRUE]
      BY <1>5, <3>3, <3>5, Zenon
    <3>7. /\ ReadParams(s, k + 1).pairs = From(g, n, i + 1)
          /\ ReadParams(s, k + 1).closed = TRUE
      BY <3>6
    <3>8. ReadParams(s, a) = [pairs |-> <<p>> \o ReadParams(s, k + 1).pairs,
                              closed |-> ReadParams(s, k + 1).closed]
      <4>1. At(s, ValueAt(s, a).next) = ","
        BY <2>8, <2>10, <3>1, Zenon
      <4> QED
        BY <2>8, <2>9, <2>11, <4>1, ReadParamsAt, Zenon
    <3> QED
      BY <3>2, <3>7, <3>8, Zenon
  <2> QED
    BY <2>12, <2>13
<1>7. D \subseteq T
  <2>1. \A i \in D : w[i] \in Nat
    BY <1>1, <1>4
  <2>2. \A i \in D : (\A j \in D : w[j] < w[i] => j \in T) => i \in T
    BY <1>5, <1>6
  <2>3. Inherits(D, w, T)
    BY <2>1, <2>2 DEF Inherits
  <2> QED
    BY <2>3, Ranked
<1> QED
  BY <1>2, <1>3, <1>4, <1>5, <1>7 DEF ReadsRest

----------------------------------------------------------------------------
(* Reading what was written.                                               *)

\* The separators as they are written once the text is trimmed: nothing follows
\* the last one.
Closed == {sep \in Spaced : sep[")"] \in {<<")">>, <<Blank, ")">>}}

\* The parameters of r are written in w after its table.
ListedIn(w, r, sep, n, keys, at) ==
  /\ Listed(w, r, sep, n, keys, at) /\ Lists(keys, DOMAIN r.params, n)
  /\ Stands(w, 1, Escape(r.table)) /\ at[1] = 1 + Len(Escape(r.table))

\* So it is in the text of r.
LEMMA WrittenListed ==
  ASSUME NEW r, IsRef(r), Lasting(r), DOMAIN r.params # {}, NEW sep \in Closed,
         NEW w, w = Written(r, sep)
  PROVE  \E n, keys, at : ListedIn(w, r, sep, n, keys, at)
<1>1. sep \in Spaced /\ sep \in Seps
  BY DEF Closed, Spaced
<1>2. PICK keys, n : keys = Sorted(DOMAIN r.params) /\ n = Cardinality(DOMAIN r.params)
  OBVIOUS
<1>3. n \in Nat /\ Lists(keys, DOMAIN r.params, n)
  BY <1>2, SortedLists DEF IsRef
<1>4. n # 0
  <2>1. PICK k \in DOMAIN r.params : TRUE
    OBVIOUS
  <2>2. \E i \in 1..n : keys[i] = k
    BY <1>3, <2>1 DEF Lists
  <2> QED
    BY <1>3, <2>2
<1>5. PICK ss \in Seq(Seq(Alphabet)) : ss = PairTexts(r, sep)
  BY <1>1, WrittenTexts, Zenon
<1>6. ss = [i \in 1..n |-> PairText(r, sep, keys, i)]
  BY <1>2, <1>5 DEF PairTexts
<1>7. Len(ss) = n /\ \A i \in 1..n : ss[i] = PairText(r, sep, keys, i)
  BY <1>3, <1>6
<1>8. PICK l \in Seq(Alphabet) : l = FlattenSeq(ss)
  BY FlattenType
<1>9. PICK e \in Seq(Alphabet) : e = Escape(r.table)
  BY Escaping, Marks DEF IsRef
<1>10. PICK z \in Seq(Alphabet) : z = sep[")"]
  BY <1>1, Zenon DEF Seps, Separators
<1>11. PICK y \in Seq(Alphabet) : y = l \o z
  BY JoinedAt, Zenon
<1>12. w = e \o y /\ w \in Seq(Alphabet)
  <2>1. w = e \o (l \o z)
    BY <1>1, <1>5, <1>8, <1>9, <1>10, WrittenTexts, Zenon
  <2> QED
    BY <1>11, <2>1, JoinedAt
<1>13. PICK m \in Nat, p \in Nat, a \in Nat, b \in Nat :
         m = Len(w) /\ p = 1 + Len(e) /\ a = Len(l) /\ b = Len(z)
  BY <1>12
<1>14. m + 1 = p + a + b
  <2>1. Len(y) = a + b
    BY <1>11, <1>13, JoinedAt
  <2>2. m = Len(e) + Len(y)
    BY <1>12, <1>13, JoinedAt
  <2> QED
    BY <1>13, <2>1, <2>2
<1>15. Stands(w, 1, e) /\ Stands(w, p, y)
  <2>1. Stands(w, 1, w)
    BY <1>12, StandsWhole, Zenon
  <2>2. Stands(w, 1, e \o y)
    BY <1>12, <2>1
  <2>3. Stands(w, 1, e) /\ Stands(w, 1 + Len(e), y)
    BY <1>12, <2>2, StandsBoth, Zenon
  <2> QED
    BY <1>13, <2>3
<1>16. Stands(w, p, l) /\ Stands(w, p + a, z)
  <2>1. Stands(w, p, l \o z)
    BY <1>11, <1>15
  <2>2. Stands(w, p, l) /\ Stands(w, p + Len(l), z)
    BY <1>12, <2>1, StandsBoth, Zenon
  <2> QED
    BY <1>13, <2>2
<1>17. PICK at : Placed(w, p, ss, at)
  <2>1. \A tt \in Seq(Seq(Alphabet)) : \A q : Stands(w, q, FlattenSeq(tt)) =>
          \E at : Placed(w, q, tt, at)
    BY <1>12, PlacesOf, Zenon
  <2> QED
    BY <1>8, <1>16, <2>1
<1>18. /\ at \in [1..(n + 1) -> Nat] /\ at[1] = p /\ at[n + 1] = p + a
       /\ \A i \in 1..n : Stands(w, at[i], ss[i]) /\ at[i + 1] = at[i] + Len(ss[i])
  BY <1>7, <1>8, <1>13, <1>17 DEF Placed
<1>19. b # 0 /\ z[b] = ")"
  <2>1. z = <<")">> \/ z = <<Blank, ")">>
    BY <1>10 DEF Closed
  <2>2. Len(<<")">>) = 1 /\ <<")">>[1] = ")" /\ Len(<<Blank, ")">>) = 2 /\ <<Blank, ")">>[2] = ")"
    OBVIOUS
  <2>3. CASE z = <<")">>
    BY <1>13, <2>2, <2>3
  <2>4. CASE z = <<Blank, ")">>
    BY <1>13, <2>2, <2>4
  <2> QED
    BY <2>1, <2>3, <2>4
<1>20. w[m] = ")"
  <2>1. b \in 1..b
    BY <1>13, <1>19
  <2>2. w[p + a + b - 1] = z[b]
    BY <1>13, <1>16, <2>1 DEF Stands
  <2>3. p + a + b - 1 = m
    BY <1>13, <1>14
  <2> QED
    BY <1>19, <2>2, <2>3, Zenon
<1>21. ASSUME NEW i \in 1..n
       PROVE  /\ keys[i] \in Seq(Alphabet) /\ keys[i] # <<>> /\ Clean(keys[i])
              /\ r.params[keys[i]] \in Seq(Alphabet) /\ Clean(r.params[keys[i]])
  <2>1. keys[i] \in DOMAIN r.params
    BY <1>3 DEF Lists
  <2>2. keys[i] \in Text /\ r.params[keys[i]] \in Text
    BY <2>1 DEF IsRef
  <2>3. keys[i] # <<>> /\ Clean(keys[i]) /\ Clean(r.params[keys[i]])
    BY <2>1 DEF Lasting
  <2> QED
    BY <2>2, <2>3, Marks
<1>22. Listed(w, r, sep, n, keys, at)
  <2>1. Stands(w, at[n + 1], sep[")"]) /\ at[n + 1] + Len(sep[")"]) = Len(w) + 1
    BY <1>10, <1>13, <1>14, <1>16, <1>18, Zenon
  <2>2. w[Len(w)] = ")"
    BY <1>13, <1>20
  <2>3. \A i \in 1..n :
          /\ Stands(w, at[i], PairText(r, sep, keys, i))
          /\ at[i + 1] = at[i] + Len(PairText(r, sep, keys, i))
    BY <1>7, <1>18
  <2> QED
    BY <1>3, <1>4, <1>18, <1>21, <2>1, <2>2, <2>3, Zenon DEF Listed
<1>23. ListedIn(w, r, sep, n, keys, at)
  BY <1>3, <1>9, <1>13, <1>15, <1>18, <1>22 DEF ListedIn
<1> QED
  BY <1>23

\* The whole list is read.
LEMMA ReadsWholeList ==
  ASSUME NEW s \in Text, NEW r, NEW sep \in Spaced, NEW n, NEW keys, NEW at,
         Listed(s, r, sep, n, keys, at), NEW f, Gap(s, f, at[1] + Len(sep[Before(1)]))
  PROVE  /\ AllPairs(r, keys, n) \in [1..n -> PairType]
         /\ ReadParams(s, f).pairs = AllPairs(r, keys, n) /\ ReadParams(s, f).closed
<1>1. PICK g : g = AllPairs(r, keys, n)
  OBVIOUS
<1>2. n \in Nat /\ 1 \in 1..n
  BY DEF Listed
<1>3. g \in [1..n -> PairType]
  BY <1>1, ReadsList, Zenon
<1>4. From(g, n, 1) = g
  <2>1. ListOf(PairType, n, g)
    BY <1>2, <1>3 DEF ListOf
  <2> QED
    BY <2>1, FromFirst
<1>5. \A i \in 1..n : \A a : Gap(s, a, at[i] + Len(sep[Before(i)])) =>
        ReadsRest(s, a, g, n, i)
  BY <1>1, ReadsList, Zenon
<1>6. ReadParams(s, f) = [pairs |-> g, closed |-> TRUE]
  <2>1. ReadsRest(s, f, g, n, 1)
    BY <1>2, <1>5
  <2> QED
    BY <1>4, <2>1, Zenon DEF ReadsRest
<1> QED
  BY <1>1, <1>3, <1>6

\* The value that a set of pairs gives a key.
ValueFor(P, k) == (CHOOSE p \in P : p.key = k).value

\* What a list of pairs says of a reference whose keys it holds.
LEMMA CollectedIs ==
  ASSUME NEW r, IsRef(r), NEW n \in Nat, NEW keys, Lists(keys, DOMAIN r.params, n),
         AllPairs(r, keys, n) \in [1..n -> PairType]
  PROVE  ~Repeated(AllPairs(r, keys, n)) /\ Collected(AllPairs(r, keys, n)) = r.params
<1>1. PICK g : g = AllPairs(r, keys, n)
  OBVIOUS
<1>2. DOMAIN g = 1..n /\ \A i \in 1..n : g[i].key = keys[i] /\ g[i].value = r.params[keys[i]]
  BY <1>1 DEF AllPairs
<1>3. /\ \A i \in 1..n : keys[i] \in DOMAIN r.params /\ keys[i] \in Text
      /\ \A k \in DOMAIN r.params : \E i \in 1..n : keys[i] = k
      /\ \A i, j \in 1..n : i < j => Precedes(keys[i], keys[j])
  BY DEF Lists, IsRef
<1>4. ~Repeated(g)
  <2>1. ASSUME NEW i \in 1..n, NEW j \in 1..n, i < j PROVE g[i].key # g[j].key
    BY <1>2, <1>3, <2>1, Order, SMTT(60)
  <2> QED
    BY <1>2, <2>1 DEF Repeated
<1>5. PICK P : P = ToSet(g)
  OBVIOUS
<1>6. P = {g[i] : i \in 1..n}
  BY <1>2, <1>5 DEF ToSet
<1>7. {p.key : p \in P} = DOMAIN r.params
  BY <1>2, <1>3, <1>6, SMTT(30)
<1>8. ASSUME NEW k \in DOMAIN r.params
      PROVE  ValueFor(P, k) = r.params[k]
  <2>1. \E p \in P : p.key = k
    BY <1>7
  <2>2. PICK p \in P : p.key = k /\ p = CHOOSE q \in P : q.key = k
    BY <2>1
  <2>3. PICK i \in 1..n : p = g[i]
    BY <1>6
  <2>4. p.value = r.params[k]
    BY <1>2, <2>2, <2>3, Zenon
  <2> QED
    BY <2>2, <2>4 DEF ValueFor
<1>9. Collected(g) = [k \in DOMAIN r.params |-> ValueFor(P, k)]
  BY <1>5, <1>7 DEF Collected, ValueFor
<1>10. [k \in DOMAIN r.params |-> ValueFor(P, k)]
       = [k \in DOMAIN r.params |-> r.params[k]]
  BY <1>8
<1>11. r.params = [k \in DOMAIN r.params |-> r.params[k]]
  BY DEF IsRef
<1> QED
  BY <1>1, <1>4, <1>9, <1>10, <1>11

\* The blank in a gap is skipped.
LEMMA SkipsGap ==
  ASSUME NEW s \in Text, NEW i, NEW j, Gap(s, i, j), At(s, j) # Blank
  PROVE  SkipWS(s, i) = j
<1>1. PICK n \in Nat : n = Len(s)
  BY Marks
<1>2. i \in 1..(n + 1) /\ j \in 1..(n + 1) /\ (j = i \/ (j = i + 1 /\ At(s, i) = Blank))
  BY <1>1 DEF Gap
<1>3. j \in i..(n + 1) /\ \A k \in i..(j - 1) : At(s, k) = Blank
  BY <1>2
<1> QED
  BY <1>1, <1>2, <1>3, SkipsTo

\* The table name u is read from s, up to k.
ReadsTable(s, u, k) ==
  /\ ReadChars(s, 1, TRUE).next = k /\ k # 0
  /\ TrimRight(ReadChars(s, 1, TRUE).text) = u /\ u # <<>>

\* What Parse makes of a table name alone, and of one with parameters.
LEMMA ParseIs ==
  ASSUME NEW t, NEW s, s = TrimSpace(t), NEW u, NEW k, ReadsTable(s, u, k)
  PROVE  /\ k > Len(s) => Parse(t) = Ref(u, NoParams)
         /\ \A first, list :
              /\ ~(k > Len(s)) /\ first = SkipWS(s, k + 1) /\ At(s, first) # ")"
              /\ list = ReadParams(s, first) /\ ~Repeated(list.pairs) /\ list.closed
              => Parse(t) = Ref(u, Collected(list.pairs))
<1>1. ReadChars(s, 1, TRUE).next = k /\ k # 0 /\ TrimRight(ReadChars(s, 1, TRUE).text) = u /\ u # <<>>
  BY Zenon DEF ReadsTable
<1>2. k > Len(s) => Parse(t) = Ref(u, NoParams)
  BY <1>1, Zenon DEF Parse
<1>3. ASSUME NEW first, NEW list,
             ~(k > Len(s)), first = SkipWS(s, k + 1), At(s, first) # ")",
             list = ReadParams(s, first), ~Repeated(list.pairs), list.closed
      PROVE  Parse(t) = Ref(u, Collected(list.pairs))
  BY <1>1, <1>3, Zenon DEF Parse
<1> QED
  BY <1>2, <1>3

\* The text of a table name is read, and what follows it.
LEMMA ReadsName ==
  ASSUME NEW s \in Text, NEW u \in Seq(Alphabet), u # <<>>, Clean(u), NEW j,
         Stands(s, 1, Escape(u)), j = 1 + Len(Escape(u)), NEW b \in {<<>>, <<Blank>>}, NEW k,
         ReadChars(s, j, TRUE) = [text |-> b, next |-> k], k # 0
  PROVE  ReadsTable(s, u, k)
<1>1. ReadChars(s, 1, TRUE)
      = [text |-> u \o ReadChars(s, j, TRUE).text, next |-> ReadChars(s, j, TRUE).next]
  BY ReadsEscaped, Zenon
<1>2. ReadChars(s, j, TRUE).text = b /\ ReadChars(s, j, TRUE).next = k
  BY Parts, Zenon
<1>3. ReadChars(s, 1, TRUE) = [text |-> u \o b, next |-> k]
  BY <1>1, <1>2, Zenon
<1>4. ReadChars(s, 1, TRUE).text = u \o b /\ ReadChars(s, 1, TRUE).next = k
  BY <1>3, Parts, Zenon
<1>5. TrimRight(u \o b) = u
  BY Trims, Zenon DEF Clean
<1> QED
  BY <1>4, <1>5, Zenon DEF ReadsTable

\* A reference is parsed from its text, once that has been trimmed.
LEMMA ParsesWritten ==
  ASSUME NEW r, IsRef(r), Lasting(r), NEW sep \in Closed,
         NEW t, NEW w, w = Written(r, sep), TrimSpace(t) = w
  PROVE  Parse(t) = r
<1>1. sep \in Spaced /\ sep \in Seps
  BY DEF Closed, Spaced
<1>2. w \in Seq(Alphabet) /\ w \in Text
  BY <1>1, WrittenTexts, Marks, Zenon
<1>3. PICK u \in Seq(Alphabet) : u = r.table /\ u # <<>> /\ Clean(u)
  BY Marks DEF IsRef, Lasting
<1>4. PICK e \in Seq(Alphabet), j \in Nat : e = Escape(u) /\ j = 1 + Len(e)
  <2>1. PICK e \in Seq(Alphabet) : e = Escape(u)
    BY Escaping
  <2>2. 1 + Len(e) \in Nat
    OBVIOUS
  <2> QED
    BY <2>1, <2>2
<1>5. r = Ref(u, r.params)
  BY <1>3 DEF IsRef
<1>6. CASE DOMAIN r.params = {}
  <2>1. w = e
    <3>1. w = e \o <<>>
      BY <1>1, <1>3, <1>4, <1>6, WrittenTexts, Zenon
    <3> QED
      BY <3>1
  <2>2. Stands(w, 1, e)
    BY <1>2, <2>1, StandsWhole
  <2>3. j \in 1..(Len(w) + 1) /\ j > Len(w) /\ j # 0
    BY <1>4, <2>1
  <2>4. ReadChars(w, j, TRUE) = [text |-> <<>>, next |-> j]
    BY <1>2, <2>3, ReadsStop, Zenon
  <2>5. ReadsTable(w, u, j)
    BY <1>2, <1>3, <1>4, <2>2, <2>3, <2>4, ReadsName, Zenon
  <2>6. Parse(t) = Ref(u, NoParams)
    BY <2>3, <2>5, ParseIs
  <2>7. r.params = NoParams
    BY <1>6 DEF IsRef, NoParams
  <2> QED
    BY <1>5, <2>6, <2>7
<1>7. CASE DOMAIN r.params # {}
  <2>1. PICK n, keys, at : ListedIn(w, r, sep, n, keys, at)
    BY <1>7, WrittenListed
  <2>2. Listed(w, r, sep, n, keys, at) /\ Lists(keys, DOMAIN r.params, n) /\ Stands(w, 1, e) /\ at[1] = j
    BY <1>3, <1>4, <2>1 DEF ListedIn
  <2>3. n \in Nat /\ 1 \in 1..n
    BY <2>2 DEF Listed
  <2>4. PICK c \in Separators \cap Stops(TRUE) : c = "(" /\ c = Before(1)
    BY DEF Separators, Stops, Before
  <2>5. PICK x, y : NextStands(w, r, sep, n, keys, at, 1, x, y)
    BY <1>1, <1>2, <2>2, <2>3, PairStanding, Zenon
  <2>6. PICK k \in Seq(Alphabet) : k = keys[1] /\ k # <<>> /\ Clean(k)
    BY <2>2, <2>3, Zenon DEF Listed
  <2>7. PICK f : f = j + Len(sep[c])
    OBVIOUS
  <2>8. Stands(w, j, sep[c]) /\ TokenText(x, k, sep, "=") /\ Stands(w, f, x)
    BY <2>2, <2>4, <2>5, <2>6, <2>7 DEF NextStands, PairStands
  <2>9. PICK q, b : Separated(w, TRUE, c, j, q, b, f)
    BY <1>1, <1>2, <2>7, <2>8, ReadsSeparator, Zenon
  <2>10. /\ q \in 1..Len(w) /\ w[q] = c /\ b \in {<<>>, <<Blank>>} /\ Gap(w, q + 1, f)
         /\ ReadChars(w, j, TRUE) = [text |-> b, next |-> q]
    BY <2>9, Zenon DEF Separated
  <2>11. PICK m \in Nat : m = Len(w)
    BY <1>2
  <2>12. q # 0 /\ ~(q > Len(w))
    BY <2>10, <2>11
  <2>13. ReadsTable(w, u, q)
    BY <1>2, <1>3, <1>4, <2>2, <2>10, <2>12, ReadsName, Zenon
  <2>14. f \in 1..Len(w) /\ w[f] = IF k[1] \in Reserved THEN Backslash ELSE k[1]
    <3>1. PICK d \in Seq(Alphabet) : d = Escape(k) /\ 1 \in 1..Len(d)
                                     /\ d[1] = IF k[1] \in Reserved THEN Backslash ELSE k[1]
      BY <2>6, EscapeFirst, Zenon
    <3>2. PICK g \in Seq(Alphabet) : g = sep["="]
      BY <1>1, Zenon DEF Seps, Separators
    <3>3. Stands(w, f, d \o g)
      BY <2>8, <3>1, <3>2 DEF TokenText
    <3>4. Stands(w, f, d)
      BY <1>2, <3>3, StandsBoth
    <3>5. f \in 1..(m + 1) /\ f + Len(d) <= m + 1 /\ w[f + 1 - 1] = d[1]
      BY <2>11, <3>1, <3>4 DEF Stands
    <3>6. f + 1 - 1 = f /\ f \in 1..m
      BY <3>1, <3>5
    <3> QED
      BY <2>11, <3>1, <3>5, <3>6
  <2>15. At(w, f) = w[f]
    BY <1>2, <2>14 DEF At
  <2>16. k[1] # Blank /\ k[1] \in Alphabet
    <3>1. 1 \in DOMAIN k /\ k[1] \in Alphabet
      BY <2>6
    <3> QED
      BY <2>6, <3>1 DEF Clean, At
  <2>17. At(w, f) # Blank
    BY <2>14, <2>15, <2>16, CharactersAssumption, Zenon DEF White, Reserved
  <2>18. At(w, f) # ")"
    <3>1. ")" \in Reserved /\ ")" # Backslash
      BY Zenon DEF Reserved, Separators, Backslash
    <3> QED
      BY <2>14, <2>15, <3>1
  <2>19. SkipWS(w, q + 1) = f
    BY <1>2, <2>10, <2>17, SkipsGap
  <2>20. Gap(w, f, f)
    <3>1. f \in 1..(Len(w) + 1)
      BY <2>11, <2>14
    <3> QED
      BY <3>1 DEF Gap
  <2>21. PICK list : list = ReadParams(w, f)
    OBVIOUS
  <2>22. PICK g : g = AllPairs(r, keys, n)
    OBVIOUS
  <2>23. Gap(w, f, at[1] + Len(sep[Before(1)]))
    BY <2>2, <2>4, <2>7, <2>20
  <2>24. g \in [1..n -> PairType] /\ list.pairs = g /\ list.closed
    BY <1>1, <1>2, <2>2, <2>21, <2>22, <2>23, ReadsWholeList, ZenonT(40)
  <2>25. ~Repeated(g) /\ Collected(g) = r.params
    BY <2>2, <2>3, <2>22, <2>24, CollectedIs
  <2>26. Parse(t) = Ref(u, Collected(list.pairs))
    <3>1. ~Repeated(list.pairs)
      BY <2>24, <2>25
    <3> QED
      BY <2>12, <2>13, <2>18, <2>19, <2>21, <2>24, <3>1, ParseIs
  <2> QED
    BY <1>5, <2>24, <2>25, <2>26
<1> QED
  BY <1>6, <1>7

----------------------------------------------------------------------------
(* Trimming what was written.                                              *)

\* An escaped text ends as the text does.
LEMMA EscapeLast ==
  ASSUME NEW t \in Seq(Alphabet), t # <<>>
  PROVE  Escape(t)[Len(Escape(t))] = t[Len(t)]
<1>1. PICK T : T = {u \in Seq(Alphabet) : u # <<>> => Len(Escape(u)) > 0 /\ Escape(u)[Len(Escape(u))] = u[Len(u)]}
  BY Zenon
<1>2. <<>> \in T
  BY <1>1
<1>3. ASSUME NEW c \in Alphabet, NEW u \in Seq(Alphabet), u \in T
      PROVE  <<c>> \o u \in T
  <2>1. PICK m \in Nat : m = Len(u)
    OBVIOUS
  <2>2. PICK v \in Seq(Alphabet) : v = <<c>> \o u /\ Len(v) = m + 1 /\ v[1] = c
                                   /\ \A j \in 1..m : v[j + 1] = u[j]
    <3>1. PICK v \in Seq(Alphabet) : v = <<c>> \o u
      BY InFrontAt, Zenon
    <3>2. Len(v) = m + 1 /\ v[1] = c /\ \A j \in 1..m : v[j + 1] = u[j]
      BY <2>1, <3>1, InFrontAt
    <3> QED
      BY <3>1, <3>2, Zenon
  <2>3. PICK d \in Seq(Alphabet), l \in Nat : d = Spelt[c] /\ l = Len(d) /\ l > 0 /\ d[l] = c
    <3>1. Spelt[c] = IF c \in Reserved THEN <<Backslash, c>> ELSE <<c>>
      BY DEF Spelt
    <3>2. PICK d \in Seq(Alphabet) : d = Spelt[c]
      BY Escaping
    <3>3. CASE c \in Reserved
      <4>1. d = <<Backslash, c>>
        BY <3>1, <3>2, <3>3
      <4>2. Len(d) = 2 /\ d[2] = c
        BY <4>1
      <4> QED
        BY <3>2, <4>2, SMTT(30)
    <3>4. CASE c \notin Reserved
      <4>1. d = <<c>>
        BY <3>1, <3>2, <3>4
      <4>2. Len(d) = 1 /\ d[1] = c
        BY <4>1
      <4> QED
        BY <3>2, <4>2
    <3> QED
      BY <3>3, <3>4
  <2>4. PICK e \in Seq(Alphabet), k \in Nat : e = Escape(u) /\ k = Len(e)
    <3>1. PICK e \in Seq(Alphabet) : e = Escape(u)
      BY Escaping
    <3>2. Len(e) \in Nat
      OBVIOUS
    <3> QED
      BY <3>1, <3>2
  <2>5. PICK f \in Seq(Alphabet) : /\ f = d \o e /\ Len(f) = l + k
                                   /\ \A j \in 1..(l + k) : f[j] = IF j <= l THEN d[j] ELSE e[j - l]
    <3>1. PICK f \in Seq(Alphabet) : f = d \o e
      BY JoinedAt, Zenon
    <3>2. Len(f) = l + k /\ \A j \in 1..(l + k) : f[j] = IF j <= l THEN d[j] ELSE e[j - l]
      BY <2>3, <2>4, <3>1, JoinedAt
    <3> QED
      BY <3>1, <3>2, Zenon
  <2>6. Escape(v) = f
    BY <2>2, <2>3, <2>4, <2>5, Escaping, Zenon
  <2>7. f[l + k] = v[m + 1] /\ l + k > 0
    <3>1. l + k \in 1..(l + k)
      BY <2>3
    <3>2. CASE u = <<>>
      <4>1. k = 0 /\ m = 0
        BY <2>1, <2>4, <3>2, Escaping
      <4> QED
        BY <2>2, <2>3, <2>5, <3>1, <4>1
    <3>3. CASE u # <<>>
      <4>1. k > 0 /\ e[k] = u[m]
        BY <1>1, <1>3, <2>1, <2>4, <3>3
      <4>2. f[l + k] = e[k]
        <5>1. ~(l + k <= l) /\ (l + k) - l = k
          BY <4>1, SMTT(30)
        <5> QED
          BY <2>5, <3>1, <5>1
      <4>3. m \in 1..m
        BY <2>1, <3>3
      <4> QED
        BY <2>2, <2>3, <4>1, <4>2, <4>3
    <3> QED
      BY <3>2, <3>3
  <2>8. Len(Escape(v)) > 0 /\ Escape(v)[Len(Escape(v))] = v[Len(v)]
    BY <2>2, <2>5, <2>6, <2>7, Zenon
  <2> QED
    BY <1>1, <2>2, <2>8, Zenon
<1>4. Seq(Alphabet) \subseteq T
  BY <1>2, <1>3, Texts
<1> QED
  BY <1>1, <1>4

\* w begins and ends with no white space.
Tight(w) == w # <<>> /\ w[1] \notin White /\ w[Len(w)] \notin White

\* TrimSpace cuts off the white space around such a text.
LEMMA TrimSpaceIs ==
  ASSUME NEW t \in Seq(Alphabet), NEW w \in Seq(Alphabet), Tight(w), NEW a, Stands(t, a, w),
         \A i \in 1..Len(t) : i < a \/ i >= a + Len(w) => t[i] \in White
  PROVE  TrimSpace(t) = w
<1>1. PICK n \in Nat : n = Len(t) /\ DOMAIN t = 1..n
  <2>1. Len(t) \in Nat /\ DOMAIN t = 1..Len(t)
    OBVIOUS
  <2> QED
    BY <2>1, Zenon
<1>2. PICK m \in Nat : m = Len(w) /\ m > 0
  BY DEF Tight
<1>3. a \in 1..n /\ a + m <= n + 1 /\ \A j \in 1..m : t[a + j - 1] = w[j]
  BY <1>1, <1>2 DEF Stands
<1>4. PICK z \in 1..n : z = a + m - 1
  <2>1. a \in 1..n /\ a + m <= n + 1
    BY <1>3
  <2>2. a + m - 1 \in 1..n
    BY <1>2, <2>1
  <2> QED
    BY <2>2
<1>5. t[a] \notin White /\ t[z] \notin White
  <2>1. 1 \in 1..m /\ m \in 1..m /\ a + 1 - 1 = a
    BY <1>2, <1>3
  <2> QED
    BY <1>2, <1>3, <1>4, <2>1 DEF Tight
<1>6. PICK K : K = {i \in DOMAIN t : t[i] \notin White}
  BY Zenon
<1>7. a \in K /\ z \in K /\ K \subseteq Int /\ K # {}
  BY <1>1, <1>3, <1>4, <1>5, <1>6
<1>8. \A k \in K : a <= k /\ k <= z
  <2>1. ASSUME NEW k \in K PROVE ~(k < a) /\ ~(k >= a + m)
    BY <1>1, <1>2, <1>6
  <2>2. \A k \in K : k \in 1..n
    BY <1>1, <1>6
  <2> QED
    BY <1>2, <1>3, <1>4, <2>1, <2>2
<1>9. Min(K) = a /\ Max(K) = z
  BY <1>7, <1>8, MinIs, MaxIs, Zenon
<1>10. TrimSpace(t) = Span(t, K)
  BY <1>6 DEF TrimSpace, White
<1>11. TrimSpace(t) = SubSeq(t, a, a + m - 1)
  BY <1>4, <1>7, <1>9, <1>10 DEF Span
<1>12. PICK v : v = SubSeq(t, a, a + m - 1)
  BY Zenon
<1>13. v \in Seq(Alphabet) /\ Len(v) = m /\ \A j \in 1..m : v[j] = t[a + j - 1]
  <2>1. a \in 1..Len(t) /\ a + m - 1 <= Len(t)
    BY <1>1, <1>2, <1>3
  <2> QED
    BY <1>12, <2>1, SubSeqAt
<1>14. v = w
  BY <1>2, <1>3, <1>13
<1> QED
  BY <1>11, <1>12, <1>14

\* So it does with white space on both sides.
LEMMA TrimsAround ==
  ASSUME NEW w \in Seq(Alphabet), Tight(w), NEW x \in Seq(White), NEW y \in Seq(White)
  PROVE  TrimSpace(x \o w \o y) = w
<1>1. x \in Seq(Alphabet) /\ y \in Seq(Alphabet)
  <2>1. White \subseteq Alphabet
    BY Marks
  <2>2. \A i \in 1..Len(x) : x[i] \in White
    OBVIOUS
  <2>3. \A i \in 1..Len(y) : y[i] \in White
    OBVIOUS
  <2> QED
    BY <2>1, <2>2, <2>3
<1>2. PICK k \in Nat, m \in Nat, l \in Nat : k = Len(x) /\ m = Len(w) /\ l = Len(y)
  OBVIOUS
<1>3. PICK u \in Seq(Alphabet) : /\ u = x \o w /\ Len(u) = k + m
                                 /\ \A j \in 1..(k + m) : u[j] = IF j <= k THEN x[j] ELSE w[j - k]
  <2>1. PICK u \in Seq(Alphabet) : u = x \o w
    BY <1>1, JoinedAt, Zenon
  <2>2. Len(u) = k + m /\ \A j \in 1..(k + m) : u[j] = IF j <= k THEN x[j] ELSE w[j - k]
    BY <1>1, <1>2, <2>1, JoinedAt
  <2> QED
    BY <2>1, <2>2, Zenon
<1>4. PICK t \in Seq(Alphabet) : /\ t = u \o y /\ Len(t) = k + m + l
                                 /\ \A j \in 1..(k + m + l) : t[j] = IF j <= k + m THEN u[j] ELSE y[j - (k + m)]
  <2>1. PICK t \in Seq(Alphabet) : t = u \o y
    BY <1>1, JoinedAt, Zenon
  <2>2. Len(t) = k + m + l
        /\ \A j \in 1..(k + m + l) : t[j] = IF j <= k + m THEN u[j] ELSE y[j - (k + m)]
    BY <1>1, <1>2, <1>3, <2>1, JoinedAt
  <2> QED
    BY <2>1, <2>2, Zenon
<1>5. PICK a \in Nat : a = k + 1
  OBVIOUS
<1>6. Stands(t, a, w)
  <2>1. ASSUME NEW j \in 1..m PROVE t[a + j - 1] = w[j]
    <3>1. k + j \in 1..(k + m) /\ k + j \in 1..(k + m + l) /\ k + j <= k + m /\ ~(k + j <= k)
          /\ (k + j) - k = j /\ a + j - 1 = k + j
      BY <1>5
    <3> QED
      BY <1>3, <1>4, <3>1, Zenon
  <2>2. a \in 1..(k + m + l + 1) /\ a + m <= k + m + l + 1
    BY <1>5
  <2> QED
    BY <1>2, <1>4, <2>1, <2>2, Zenon DEF Stands
<1>7. ASSUME NEW i \in 1..(k + m + l), i < a \/ i >= a + m PROVE t[i] \in White
  <2>1. CASE i < a
    <3>1. i \in 1..k /\ i \in 1..(k + m) /\ i <= k + m /\ i <= k
      BY <1>5, <2>1
    <3>2. t[i] = x[i] /\ x[i] \in White
      BY <1>2, <1>3, <1>4, <3>1
    <3> QED
      BY <3>2
  <2>2. CASE i >= a + m
    <3>1. ~(i <= k + m) /\ i - (k + m) \in 1..l
      BY <1>5, <2>2
    <3>2. t[i] = y[i - (k + m)] /\ y[i - (k + m)] \in White
      BY <1>2, <1>4, <3>1, SMTT(30)
    <3> QED
      BY <3>2
  <2> QED
    BY <1>7, <2>1, <2>2
<1>8. TrimSpace(t) = w
  <2>1. \A i \in 1..Len(t) : i < a \/ i >= a + Len(w) => t[i] \in White
    BY <1>2, <1>4, <1>7
  <2> QED
    BY <1>6, <2>1, TrimSpaceIs, Zenon
<1> QED
  BY <1>3, <1>4, <1>8

\* What was written begins and ends with no white space.
LEMMA WrittenTight ==
  ASSUME NEW r, IsRef(r), Lasting(r), NEW sep \in Closed, NEW w, w = Written(r, sep)
  PROVE  w \in Seq(Alphabet) /\ Tight(w)
<1>1. sep \in Spaced /\ sep \in Seps
  BY DEF Closed, Spaced
<1>2. w \in Seq(Alphabet)
  BY <1>1, WrittenTexts, Zenon
<1>3. PICK u \in Seq(Alphabet) : u = r.table /\ u # <<>> /\ Clean(u)
  BY Marks DEF IsRef, Lasting
<1>4. PICK e \in Seq(Alphabet) : /\ e = Escape(u) /\ 1 \in 1..Len(e)
                                 /\ e[1] = IF u[1] \in Reserved THEN Backslash ELSE u[1]
  BY <1>3, EscapeFirst
<1>5. PICK m \in Nat : m = Len(u) /\ m > 0 /\ At(u, 1) = u[1] /\ At(u, m) = u[m]
  <2>1. Len(u) \in Nat /\ Len(u) > 0 /\ DOMAIN u = 1..Len(u)
    BY <1>3
  <2>2. 1 \in DOMAIN u /\ Len(u) \in DOMAIN u
    BY <2>1
  <2>3. At(u, 1) = u[1] /\ At(u, Len(u)) = u[Len(u)]
    BY <2>2 DEF At
  <2> QED
    BY <2>1, <2>3, Zenon
<1>6. e[1] \notin White
  <2>1. u[1] # Blank /\ u[1] # WideBlank
    BY <1>3, <1>5 DEF Clean, Lasting, Settled
  <2>2. Backslash \notin White
    BY CharactersAssumption DEF Reserved
  <2> QED
    BY <1>4, <2>1, <2>2 DEF White
<1>7. CASE DOMAIN r.params = {}
  <2>1. w = e
    <3>1. w = e \o <<>>
      BY <1>1, <1>3, <1>4, <1>7, WrittenTexts, Zenon
    <3> QED
      BY <3>1
  <2>2. r.params = NoParams
    BY <1>7 DEF IsRef, NoParams
  <2>3. u[m] # Blank /\ u[m] # WideBlank
    BY <1>3, <1>5, <2>2 DEF Clean, Lasting, Settled
  <2>4. e[Len(e)] = u[m]
    BY <1>3, <1>4, <1>5, EscapeLast
  <2>5. w[Len(w)] \notin White
    BY <2>1, <2>3, <2>4 DEF White
  <2>6. w # <<>>
    BY <1>4, <2>1
  <2> QED
    BY <1>2, <1>6, <2>1, <2>5, <2>6 DEF Tight
<1>8. CASE DOMAIN r.params # {}
  <2>1. PICK n, keys, at : ListedIn(w, r, sep, n, keys, at)
    BY <1>8, WrittenListed
  <2>2. w[Len(w)] = ")" /\ Stands(w, 1, e)
    BY <1>3, <1>4, <2>1 DEF ListedIn, Listed
  <2>3. w[1] = e[1] /\ w # <<>>
    <3>1. 1 + Len(e) <= Len(w) + 1 /\ w[1 + 1 - 1] = e[1]
      BY <1>4, <2>2 DEF Stands
    <3>2. Len(w) > 0 /\ 1 + 1 - 1 = 1
      BY <1>2, <1>4, <3>1
    <3> QED
      BY <1>2, <3>1, <3>2
  <2>4. ")" \notin White
    BY CharactersAssumption, Zenon DEF Reserved, Separators
  <2> QED
    BY <1>2, <1>6, <2>2, <2>3, <2>4 DEF Tight
<1> QED
  BY <1>7, <1>8

\* A reference is parsed from its text with white space around it.
LEMMA ParsesAround ==
  ASSUME NEW r, IsRef(r), Lasting(r), NEW sep \in Closed,
         NEW x \in Seq(White), NEW y \in Seq(White)
  PROVE  Parse(x \o Written(r, sep) \o y) = r
<1>1. PICK w : w = Written(r, sep)
  OBVIOUS
<1>2. w \in Seq(Alphabet) /\ Tight(w)
  BY <1>1, WrittenTight
<1>3. TrimSpace(x \o w \o y) = w
  BY <1>2, TrimsAround
<1> QED
  BY <1>1, <1>3, ParsesWritten

\* Short texts run together, and a text that is added at the end.
LEMMA Short ==
  ASSUME NEW S, NEW a \in S, NEW b \in S, NEW c \in S
  PROVE  /\ <<a>> \in Seq(S) /\ <<a, b>> \in Seq(S)
         /\ <<a, b>> \o <<c>> = <<a, b, c>> /\ <<a>> \o <<b>> = <<a, b>>
<1>1. <<a>> \in Seq(S) /\ <<b>> \in Seq(S) /\ <<a, b>> \in Seq(S) /\ <<c>> \in Seq(S)
  OBVIOUS
<1>2. <<a>> \o <<b>> = <<a, b>>
  <2>1. PICK u \in Seq(S), v \in Seq(S) : u = <<a>> /\ v = <<b>>
    BY <1>1, Zenon
  <2>2. Len(u) = 1 /\ u[1] = a /\ Len(v) = 1 /\ v[1] = b
    BY <2>1
  <2>3. PICK w \in Seq(S) : w = u \o v
    BY JoinedAt, Zenon
  <2>4. Len(w) = 2 /\ \A j \in 1..2 : w[j] = IF j <= 1 THEN u[j] ELSE v[j - 1]
    BY <2>2, <2>3, JoinedAt
  <2>5. w[1] = a /\ w[2] = b
    BY <2>2, <2>4
  <2>6. w = <<a, b>>
    BY <2>4, <2>5
  <2> QED
    BY <2>1, <2>3, <2>6, Zenon
<1>3. PICK u \in Seq(S), v \in Seq(S) : u = <<a, b>> /\ v = <<c>>
  BY <1>1, Zenon
<1>4. Len(u) = 2 /\ u[1] = a /\ u[2] = b /\ Len(v) = 1 /\ v[1] = c
  BY <1>3
<1>5. u \o v = <<a, b, c>>
  <2>1. PICK w \in Seq(S) : w = u \o v
    BY JoinedAt, Zenon
  <2>2. Len(w) = 3 /\ \A j \in 1..3 : w[j] = IF j <= 2 THEN u[j] ELSE v[j - 2]
    <3>1. /\ Len(w) = Len(u) + Len(v)
          /\ \A j \in 1..(Len(u) + Len(v)) : w[j] = IF j <= Len(u) THEN u[j] ELSE v[j - Len(u)]
      BY <2>1, JoinedAt
    <3>2. Len(u) + Len(v) = 3 /\ Len(u) = 2
      BY <1>4
    <3> QED
      BY <3>1, <3>2
  <2>3. w[1] = a /\ w[2] = b /\ w[3] = c
    BY <1>4, <2>2
  <2>4. w = <<a, b, c>>
    BY <2>2, <2>3
  <2> QED
    BY <2>1, <2>4
<1> QED
  BY <1>1, <1>2, <1>3, <1>5

\* Two blanks are white space.
LEMMA TwoBlanks == <<Blank>> \o <<Blank>> \in Seq(White)
<1>1. Blank \in White
  BY DEF White
<1>2. <<Blank>> \o <<Blank>> = <<Blank, Blank>> /\ <<Blank, Blank>> \in Seq(White)
  BY <1>1, Short, ZenonT(40)
<1> QED
  BY <1>2

\* Running two texts together, and what is known of it.
Glue(a, b) == a \o b

\* It stays among texts, and how it is grouped makes no difference.
GlueLaws(S) ==
  /\ \A a, b \in Seq(S) : Glue(a, b) \in Seq(S)
  /\ \A a, b, c \in Seq(S) : Glue(Glue(a, b), c) = Glue(a, Glue(b, c))

\* It is so of all texts.
LEMMA Gluing ==
  ASSUME NEW S
  PROVE  GlueLaws(S)
<1>1. \A a, b \in Seq(S) : Glue(a, b) \in Seq(S)
  BY JoinedAt DEF Glue
<1>2. \A a, b, c \in Seq(S) : Glue(Glue(a, b), c) = Glue(a, Glue(b, c))
  BY Joined DEF Glue
<1> QED
  BY <1>1, <1>2 DEF GlueLaws

\* What is added to the last of some texts is added to all of them.
Behind(S, x, e, l, z, b, v, w) ==
  /\ x \in Seq(S) /\ e \in Seq(S) /\ l \in Seq(S) /\ z \in Seq(S) /\ b \in Seq(S)
  /\ v = Glue(e, Glue(l, Glue(z, b))) /\ w = Glue(e, Glue(l, z))

\* So it may as well be added once, to what is written without it.
LEMMA AddedBehind ==
  ASSUME NEW S, NEW x, NEW e, NEW l, NEW z, NEW b, NEW v, NEW w,
         Behind(S, x, e, l, z, b, v, w)
  PROVE  Glue(Glue(x, v), b) = Glue(Glue(x, w), Glue(b, b))
<1>1. /\ \A s, t \in Seq(S) : Glue(s, t) \in Seq(S)
      /\ \A s, t, u \in Seq(S) : Glue(Glue(s, t), u) = Glue(s, Glue(t, u))
  <2>1. GlueLaws(S)
    BY Gluing
  <2> QED
    BY <2>1, Zenon DEF GlueLaws
<1>2. /\ x \in Seq(S) /\ e \in Seq(S) /\ l \in Seq(S) /\ z \in Seq(S) /\ b \in Seq(S)
      /\ v = Glue(e, Glue(l, Glue(z, b))) /\ w = Glue(e, Glue(l, z))
  BY DEF Behind
<1>3. v = Glue(w, b) /\ w \in Seq(S)
  BY <1>1, <1>2
<1> QED
  BY <1>1, <1>2, <1>3

\* What stands on one side of a separator when it is padded.
Padding(C) == [c \in Separators |-> IF c \in C THEN <<Blank, c, Blank>> ELSE <<c>>]
Half(C)    == [c \in Separators |->
                 IF c \in C THEN IF c = ")" THEN <<Blank, c>> ELSE <<Blank, c, Blank>> ELSE <<c>>]

\* The blank behind the last separator is one at the end of the text.
LEMMA Halved ==
  ASSUME NEW C
  PROVE  /\ Padding(C) \in Seps /\ Half(C) \in Closed
         /\ \A c \in Separators : c # ")" => Padding(C)[c] = Half(C)[c]
         /\ ")" \in C => Padding(C)[")"] = Half(C)[")"] \o <<Blank>>
         /\ ")" \notin C => Padding(C)[")"] = Half(C)[")"]
<1>1. Separators \subseteq Alphabet /\ Blank \in Alphabet
  BY Marks DEF Reserved, White
<1>2. \A c \in Separators : /\ <<c>> \in Seq(Alphabet) /\ <<Blank, c>> \in Seq(Alphabet)
                            /\ <<Blank, c, Blank>> \in Seq(Alphabet)
  BY <1>1
<1>3. Padding(C) \in Seps /\ Half(C) \in Seps
  BY <1>2 DEF Padding, Half, Seps
<1>4. \A c \in Separators : Half(C)[c] \in {<<c>>, <<Blank, c>>, <<Blank, c, Blank>>}
  BY DEF Half
<1>5. ")" \in Separators
  BY DEF Separators
<1>6. Half(C)[")"] \in {<<")">>, <<Blank, ")">>}
  BY <1>5 DEF Half
<1>7. Half(C) \in Closed
  BY <1>3, <1>4, <1>6 DEF Closed, Spaced
<1>8. <<Blank, ")">> \o <<Blank>> = <<Blank, ")", Blank>>
  BY <1>1, <1>5, Short, Zenon
<1>9. ")" \in C => Padding(C)[")"] = <<Blank, ")", Blank>> /\ Half(C)[")"] = <<Blank, ")">>
  BY <1>5 DEF Padding, Half
<1>10. ")" \notin C => Padding(C)[")"] = <<")">> /\ Half(C)[")"] = <<")">>
  BY <1>5 DEF Padding, Half
<1>11. \A c \in Separators : c # ")" => Padding(C)[c] = Half(C)[c]
  BY DEF Padding, Half
<1> QED
  BY <1>3, <1>7, <1>8, <1>9, <1>10, <1>11, Zenon

\* So a padded text is a text with blanks around it.
LEMMA PaddedIs ==
  ASSUME NEW r, IsRef(r), NEW C
  PROVE  \E y \in Seq(White) : Padded(r, C) = <<WideBlank>> \o Written(r, Half(C)) \o y
<1>1. PICK p \in Seps, h \in Seps : p = Padding(C) /\ h = Half(C)
  BY Halved DEF Closed, Spaced
<1>2. \A c \in Separators : c # ")" => p[c] = h[c]
  BY <1>1, Halved
<1>3. PairTexts(r, p) = PairTexts(r, h)
  <2>1. ASSUME NEW keys, NEW i PROVE PairText(r, p, keys, i) = PairText(r, h, keys, i)
    <3>1. p["("] = h["("] /\ p[","] = h[","] /\ p["="] = h["="]
      BY <1>2, Zenon DEF Separators
    <3>2. p[IF i = 1 THEN "(" ELSE ","] = h[IF i = 1 THEN "(" ELSE ","]
      BY <3>1, Zenon
    <3> QED
      BY <3>1, <3>2, Zenon DEF PairText
  <2> QED
    BY <2>1 DEF PairTexts
<1>4. PICK e \in Seq(Alphabet) : e = Escape(r.table)
  BY Escaping, Marks DEF IsRef
<1>5. PICK l \in Seq(Alphabet) : l = FlattenSeq(PairTexts(r, h))
  <2>1. PairTexts(r, h) \in Seq(Seq(Alphabet))
    BY WrittenTexts, Zenon
  <2> QED
    BY <2>1, FlattenType
<1>6. PICK z \in Seq(Alphabet) : z = h[")"]
  BY Zenon DEF Seps, Separators
<1>7. PICK v \in Seq(Alphabet), w \in Seq(Alphabet) : v = Written(r, p) /\ w = Written(r, h)
  BY WrittenTexts, Zenon
<1>8. DOMAIN r.params = {} => v = e \o <<>> /\ w = e \o <<>>
  BY <1>4, <1>7, WrittenTexts, Zenon
<1>9. DOMAIN r.params # {} => v = e \o (l \o p[")"]) /\ w = e \o (l \o z)
  BY <1>3, <1>4, <1>5, <1>6, <1>7, WrittenTexts, Zenon
<1>10. Padded(r, C) = <<WideBlank>> \o v \o <<Blank>>
  BY <1>1, <1>7 DEF Padded, Padding
<1>11. Blank \in White /\ Blank \in Alphabet /\ WideBlank \in Alphabet
  BY Marks DEF White
<1>12. CASE v = w
  <2>1. <<Blank>> \in Seq(White)
    BY <1>11
  <2> QED
    BY <1>1, <1>7, <1>10, <1>12, <2>1, Zenon
<1>13. CASE v # w
  <2>1. DOMAIN r.params # {} /\ p[")"] # z
    BY <1>8, <1>9, <1>13, Zenon
  <2>2. p[")"] = z \o <<Blank>>
    BY <1>1, <1>6, <2>1, Halved, Zenon
  <2>3. PICK b \in Seq(Alphabet) : b = <<Blank>>
    BY <1>11, Short, Zenon
  <2>4. PICK x \in Seq(Alphabet) : x = <<WideBlank>>
    BY <1>11, Short, Zenon
  <2>7. v = Glue(e, Glue(l, Glue(z, b))) /\ w = Glue(e, Glue(l, z))
    BY <1>9, <2>1, <2>2, <2>3, Zenon DEF Glue
  <2>8. Behind(Alphabet, x, e, l, z, b, v, w)
    BY <2>7 DEF Behind
  <2>9. PICK y \in Seq(White) : y = b \o b
    <3>1. b \o b \in Seq(White)
      BY <2>3, TwoBlanks
    <3> QED
      BY <3>1, Zenon
  <2>10. Padded(r, C) = x \o w \o y
    <3>1. Glue(Glue(x, v), b) = Glue(Glue(x, w), Glue(b, b))
      BY <2>8, AddedBehind
    <3>2. x \o v \o b = x \o w \o (b \o b)
      BY <3>1 DEF Glue
    <3> QED
      BY <1>10, <2>3, <2>4, <2>9, <3>2, Zenon
  <2> QED
    BY <1>1, <1>7, <2>4, <2>9, <2>10, Zenon
<1> QED
  BY <1>12, <1>13, Zenon

\* Encoding loses no part of a reference that begins and ends with no blanks,
\* and blanks around its separators do not matter.
LEMMA ComesBack ==
  ASSUME NEW r, IsRef(r), Lasting(r)
  PROVE  Parse(String(r)) = r /\ \A C : Parse(Padded(r, C)) = r
<1>1. Parse(String(r)) = r
  <2>1. [c \in Separators |-> <<c>>] = Half({})
    BY DEF Half
  <2>2. PICK w : w = String(r) /\ w = Written(r, Half({}))
    BY <2>1 DEF String
  <2>3. w \in Seq(Alphabet) /\ Tight(w)
    BY <2>2, Halved, WrittenTight
  <2>4. Stands(w, 1, w) /\ \A i \in 1..Len(w) : ~(i < 1 \/ i >= 1 + Len(w))
    BY <2>3, StandsWhole
  <2>5. TrimSpace(w) = w
    BY <2>3, <2>4, TrimSpaceIs
  <2> QED
    BY <2>2, <2>5, Halved, ParsesWritten
<1>2. ASSUME NEW C PROVE Parse(Padded(r, C)) = r
  <2>1. PICK y \in Seq(White) : Padded(r, C) = <<WideBlank>> \o Written(r, Half(C)) \o y
    BY PaddedIs, Zenon
  <2>2. PICK x \in Seq(White) : x = <<WideBlank>>
    BY Short, Zenon DEF White
  <2>3. PICK sep \in Closed : sep = Half(C)
    BY Halved
  <2>4. Parse(x \o Written(r, sep) \o y) = r
    BY ParsesAround
  <2> QED
    BY <2>1, <2>2, <2>3, <2>4
<1> QED
  BY <1>1, <1>2

\* A reference that is written, whatever reserved characters its names hold and
\* wherever separators are padded, is read back (tables/doc.go:47-65).
THEOREM RefsComeBackAlways == Spec => []RefsComeBack
<1>1. TextOK => RefsComeBack
  BY ComesBack DEF TextOK, RefsComeBack
<1> QED
  BY <1>1, TextAlways, PTL

----------------------------------------------------------------------------
(* What is parsed lasts.                                                   *)

\* A trimmed text begins with no white space.
LEMMA TrimSpaceText ==
  ASSUME NEW t \in Text
  PROVE  TrimSpace(t) \in Text /\ At(TrimSpace(t), 1) \notin White
<1>1. PICK n \in Nat : n = Len(t) /\ DOMAIN t = 1..n /\ t \in Seq(Alphabet)
  <2>1. t \in Seq(Alphabet)
    BY Marks
  <2>2. Len(t) \in Nat /\ DOMAIN t = 1..Len(t)
    BY <2>1
  <2> QED
    BY <2>1, <2>2, Zenon
<1>2. PICK K : K = {i \in DOMAIN t : t[i] \notin White}
  BY Zenon
<1>3. TrimSpace(t) = Span(t, K)
  BY <1>2 DEF TrimSpace, White
<1>4. "end" \notin White
  BY Marks
<1>5. CASE K = {}
  <2>1. TrimSpace(t) = <<>> /\ <<>> \in Seq(Alphabet)
    BY <1>3, <1>5 DEF Span
  <2>2. At(<<>>, 1) = "end"
    BY DEF At
  <2> QED
    BY <1>4, <2>1, <2>2, Marks
<1>6. CASE K # {}
  <2>1. K \subseteq 1..n /\ K \subseteq Nat /\ K \subseteq 0..n /\ K \subseteq Int
    BY <1>1, <1>2
  <2>2. PICK a \in K : \A k \in K : a <= k
    BY <1>6, <2>1, Least, Zenon
  <2>3. PICK z \in K : \A k \in K : k <= z
    BY <1>6, <2>1, Greatest, Zenon
  <2>4. Min(K) = a /\ Max(K) = z
    BY <2>1, <2>2, <2>3, MinIs, MaxIs, Zenon
  <2>5. PICK m \in Nat : m = z - a + 1 /\ m > 0 /\ z = a + m - 1
    <3>1. a \in 1..n /\ z \in 1..n /\ a <= z
      BY <2>1, <2>2
    <3>2. z - a + 1 \in Nat /\ z - a + 1 > 0 /\ z = a + (z - a + 1) - 1
      BY <3>1
    <3> QED
      BY <3>2
  <2>6. PICK s : s = SubSeq(t, a, a + m - 1)
    BY Zenon
  <2>7. TrimSpace(t) = s
    BY <1>3, <1>6, <2>4, <2>5, <2>6 DEF Span
  <2>8. s \in Seq(Alphabet) /\ Len(s) = m /\ \A j \in 1..m : s[j] = t[a + j - 1]
    <3>1. a \in 1..Len(t) /\ a + m - 1 <= Len(t)
      BY <1>1, <2>1, <2>3, <2>5
    <3> QED
      BY <1>1, <2>6, <3>1, SubSeqAt
  <2>9. s[1] = t[a] /\ 1 \in DOMAIN s
    <3>1. 1 \in 1..m /\ a + 1 - 1 = a
      BY <2>1, <2>5
    <3> QED
      BY <2>8, <3>1
  <2>10. t[a] \notin White
    BY <1>2
  <2>11. At(s, 1) = t[a]
    BY <2>9 DEF At
  <2> QED
    BY <2>7, <2>8, <2>10, <2>11, Marks
<1> QED
  BY <1>5, <1>6

\* What is read from a character other than some white space does not begin with that.
LEMMA ReadsFrom ==
  ASSUME NEW s \in Text, NEW topLevel, NEW b \in White,
         NEW i \in 1..(Len(s) + 1), At(s, i) # b
  PROVE  /\ ReadChars(s, i, topLevel).text \in Seq(Alphabet)
         /\ At(ReadChars(s, i, topLevel).text, 1) # b
<1>1. PICK n \in Nat : n = Len(s)
  BY Marks
<1>2. PICK t \in Seq(Alphabet), k \in 0..(n + 1) :
        ReadChars(s, i, topLevel) = [text |-> t, next |-> k]
  <2>1. ReadChars(s, i, topLevel) \in ReadResult(s)
    BY ReadCharsAt, Zenon
  <2> QED
    BY <1>1, <2>1 DEF ReadResult
<1>3. ReadChars(s, i, topLevel).text = t
  BY <1>2, Parts, Zenon
<1>4. "end" # b /\ \A c \in Reserved : c # b
  BY Marks, CharactersAssumption
<1>5. ASSUME NEW c \in Alphabet, c # b, NEW j \in 1..(n + 1), NEW m,
             ReadChars(s, i, topLevel) = [text |-> <<c>> \o ReadChars(s, j, topLevel).text, next |-> m]
      PROVE  At(t, 1) # b
  <2>1. PICK u \in Seq(Alphabet) : u = ReadChars(s, j, topLevel).text
    <3>1. ReadChars(s, j, topLevel) \in ReadResult(s)
      BY <1>1, ReadCharsAt, Zenon
    <3> QED
      BY <3>1 DEF ReadResult
  <2>2. PICK v \in Seq(Alphabet) : v = <<c>> \o u
    BY InFrontAt, Zenon
  <2>3. Len(v) = Len(u) + 1 /\ v[1] = c
    BY <2>2, InFrontAt
  <2>4. ReadChars(s, i, topLevel) = [text |-> v, next |-> m]
    BY <1>5, <2>1, <2>2
  <2>5. t = v
    BY <1>3, <2>4, Parts, Zenon
  <2>6. 1 \in DOMAIN v
    BY <2>3
  <2> QED
    BY <1>5, <2>3, <2>5, <2>6 DEF At
<1>6. ASSUME t = <<>> PROVE At(t, 1) # b
  BY <1>4, <1>6 DEF At
<1>7. CASE i > n \/ At(s, i) \in Stops(topLevel)
  <2>1. ReadChars(s, i, topLevel) = [text |-> <<>>, next |-> i]
    BY <1>1, <1>7, ReadsStop
  <2>2. t = <<>>
    BY <1>3, <2>1, Parts, Zenon
  <2> QED
    BY <1>3, <1>6, <2>2
<1>8. CASE i \in 1..n /\ s[i] = Backslash /\ At(s, i + 1) \in Reserved
  <2>1. PICK c \in Alphabet : c = s[i + 1] /\ c \in Reserved
    <3>1. i + 1 \in 1..Len(s)
      BY <1>1, <1>8, ReadsReserved, Zenon
    <3>2. At(s, i + 1) = s[i + 1]
      BY <3>1, Marks DEF At
    <3> QED
      BY <1>8, <3>2, Marks
  <2>2. i + 2 \in 1..(n + 1)
    BY <1>1, <1>8, ReadsReserved, Zenon
  <2>3. PICK m : ReadChars(s, i, topLevel)
                   = [text |-> <<c>> \o ReadChars(s, i + 2, topLevel).text, next |-> m]
    BY <1>1, <1>8, <2>1, ReadsReserved, ZenonT(60)
  <2>4. At(t, 1) # b
    BY <1>4, <1>5, <2>1, <2>2, <2>3, Zenon
  <2> QED
    BY <1>3, <2>4
<1>9. CASE i \in 1..n /\ s[i] \notin Reserved
  <2>1. PICK c \in Alphabet : c = s[i] /\ c # b
    <3>1. s \in Seq(Alphabet)
      BY Marks
    <3>2. At(s, i) = s[i] /\ s[i] \in Alphabet
      BY <1>1, <1>9, <3>1 DEF At
    <3> QED
      BY <3>2
  <2>2. i + 1 \in 1..(n + 1)
    BY <1>1, <1>9
  <2>3. PICK m : ReadChars(s, i, topLevel)
                   = [text |-> <<c>> \o ReadChars(s, i + 1, topLevel).text, next |-> m]
    BY <1>1, <1>9, <2>1, ReadsPlain, Zenon
  <2>4. At(t, 1) # b
    BY <1>5, <2>1, <2>2, <2>3, Zenon
  <2> QED
    BY <1>3, <2>4
<1>10. CASE i \in 1..n /\ s[i] \in Reserved \ Stops(topLevel)
            /\ ~(s[i] = Backslash /\ At(s, i + 1) \in Reserved)
  <2>1. ReadChars(s, i, topLevel) = [text |-> <<>>, next |-> 0]
    BY <1>1, <1>10, ReadCharsAt, Zenon
  <2>2. t = <<>>
    BY <1>3, <2>1, Parts, Zenon
  <2> QED
    BY <1>3, <1>6, <2>2
<1>11. i \in 1..n => At(s, i) = s[i]
  BY <1>1, Onwards
<1>12. i > n \/ i \in 1..n
  BY <1>1
<1> QED
  BY <1>7, <1>8, <1>9, <1>10, <1>11, <1>12

\* A blank, say.
LEMMA ReadsFirst ==
  ASSUME NEW s \in Text, NEW topLevel, NEW i \in 1..(Len(s) + 1), At(s, i) # Blank
  PROVE  /\ ReadChars(s, i, topLevel).text \in Seq(Alphabet)
         /\ At(ReadChars(s, i, topLevel).text, 1) # Blank
<1>1. Blank \in White
  BY DEF White
<1> QED
  BY <1>1, ReadsFrom, Zenon

\* A name that is read after blanks have been skipped is clean.
LEMMA ReadsClean ==
  ASSUME NEW s \in Text, NEW topLevel, NEW i \in 1..(Len(s) + 1), At(s, i) # Blank,
         NEW u, u = TrimRight(ReadChars(s, i, topLevel).text)
  PROVE  /\ u \in Seq(Alphabet) /\ Clean(u)
         /\ At(s, i) \notin White /\ u # <<>> => At(u, 1) # WideBlank
<1>1. Blank \in White /\ WideBlank \in White
  BY DEF White
<1>2. PICK t \in Seq(Alphabet) : /\ t = ReadChars(s, i, topLevel).text /\ At(t, 1) # Blank
                                 /\ At(s, i) # WideBlank => At(t, 1) # WideBlank
  BY <1>1, ReadsFrom
<1>3. u \in Seq(Alphabet) /\ At(u, Len(u)) # Blank /\ (u # <<>> => At(u, 1) = At(t, 1))
  BY <1>2, Trimmed
<1>4. u = <<>> => At(u, 1) # Blank
  <2>1. At(<<>>, 1) = "end"
    BY DEF At
  <2> QED
    BY <2>1, Marks DEF White
<1>5. At(s, i) \notin White /\ u # <<>> => At(u, 1) # WideBlank
  BY <1>1, <1>2, <1>3
<1> QED
  BY <1>2, <1>3, <1>4, <1>5 DEF Clean

\* The pairs that can be written and read back.
CleanPair == {p \in PairType : p.key # <<>> /\ Clean(p.key) /\ Clean(p.value)}

\* Such are the pairs that are read.
LEMMA PairsClean ==
  ASSUME NEW s \in Text, NEW i \in 1..(Len(s) + 1), ~NoPair(s, i)
  PROVE  PairAt(s, i) \in CleanPair
<1>1. PICK n \in Nat : n = Len(s)
  BY Marks
<1>2. PICK j \in i..(n + 1) : j = SkipWS(s, i) /\ At(s, j) # Blank
  BY <1>1, SkipsBlanks
<1>3. PICK u : u = TrimRight(KeyAt(s, i).text)
  OBVIOUS
<1>4. u \in Seq(Alphabet) /\ Clean(u)
  <2>1. j \in 1..(Len(s) + 1) /\ u = TrimRight(ReadChars(s, j, FALSE).text)
    BY <1>1, <1>2, <1>3 DEF KeyAt
  <2> QED
    BY <1>2, <2>1, ReadsClean, Zenon
<1>5. PICK k \in 1..n : k = KeyAt(s, i).next
  BY <1>1, Pairs, Zenon
<1>6. PICK l \in (k + 1)..(n + 1) : l = SkipWS(s, k + 1) /\ At(s, l) # Blank
  <2>1. k + 1 \in 1..(Len(s) + 1)
    BY <1>1
  <2> QED
    BY <1>1, <2>1, SkipsBlanks, Zenon
<1>7. PICK v : v = TrimRight(ValueAt(s, i).text)
  OBVIOUS
<1>8. v \in Seq(Alphabet) /\ Clean(v)
  <2>1. l \in 1..(Len(s) + 1) /\ v = TrimRight(ReadChars(s, l, FALSE).text)
    BY <1>1, <1>5, <1>6, <1>7 DEF ValueAt
  <2> QED
    BY <1>6, <2>1, ReadsClean, Zenon
<1>9. PICK p : p = PairAt(s, i)
  OBVIOUS
<1>10. p = [key |-> u, value |-> v]
  BY <1>3, <1>7, <1>9 DEF PairAt
<1>11. p.key = u /\ p.value = v /\ p \in PairType
  BY <1>4, <1>8, <1>10 DEF PairType
<1>12. u # <<>>
  BY <1>3 DEF NoPair
<1> QED
  BY <1>4, <1>8, <1>9, <1>11, <1>12 DEF CleanPair

\* And so are all that are read from a position on.
LEMMA ReadParamsClean ==
  ASSUME NEW s \in Text
  PROVE  \A i \in 1..(Len(s) + 1) : ReadParams(s, i).pairs \in Seq(CleanPair)
<1>1. PICK n \in Nat : n = Len(s)
  BY Marks
<1>2. PICK D, w : D = 1..(n + 1) /\ w = [i \in D |-> n + 1 - i]
  BY Zenon
<1>3. PICK T : T = {i \in D : ReadParams(s, i).pairs \in Seq(CleanPair)}
  BY Zenon
<1>4. ASSUME NEW i \in D, \A j \in D : w[j] < w[i] => j \in T
      PROVE  ReadParams(s, i).pairs \in Seq(CleanPair)
  <2>1. i \in 1..(Len(s) + 1)
    BY <1>1, <1>2
  <2>2. CASE NoPair(s, i)
    <3>1. ReadParams(s, i) = [pairs |-> <<>>, closed |-> FALSE]
      BY <2>1, <2>2, ReadParamsAt, Zenon
    <3> QED
      BY <3>1
  <2>3. CASE ~NoPair(s, i) /\ At(s, ValueAt(s, i).next) # ","
    <3>1. PICK p \in CleanPair : p = PairAt(s, i)
      BY <2>1, <2>3, PairsClean, Zenon
    <3>2. ReadParams(s, i) = [pairs |-> <<p>>, closed |-> Closes(s, i)]
      BY <2>1, <2>3, <3>1, ReadParamsAt, Zenon
    <3> QED
      BY <3>2
  <2>4. CASE ~NoPair(s, i) /\ At(s, ValueAt(s, i).next) = ","
    <3>1. PICK p \in CleanPair : p = PairAt(s, i)
      BY <2>1, <2>4, PairsClean, Zenon
    <3>2. PICK k \in 1..n : k = ValueAt(s, i).next
      BY <1>1, <2>1, <2>4, ReadParamsAt, Zenon
    <3>3. k \in (i + 1)..(n + 1)
      BY <1>1, <2>1, <2>4, <3>2, Pairs, Zenon
    <3>4. k + 1 \in D /\ w[k + 1] < w[i]
      BY <1>2, <3>2, <3>3, SMTT(30)
    <3>5. PICK rest \in Seq(CleanPair) : rest = ReadParams(s, k + 1).pairs
      BY <1>3, <1>4, <3>4
    <3>6. PICK ps : ps = <<p>> \o rest
      BY Zenon
    <3>7. \E c : ReadParams(s, i) = [pairs |-> ps, closed |-> c]
      BY <2>1, <2>4, <3>1, <3>2, <3>5, <3>6, ReadParamsAt, Zenon
    <3>8. ReadParams(s, i).pairs = ps
      BY <3>7
    <3>9. ps \in Seq(CleanPair)
      BY <3>6, InFrontAt
    <3> QED
      BY <3>8, <3>9
  <2> QED
    BY <2>2, <2>3, <2>4, Zenon
<1>5. D \subseteq T
  <2>1. \A i \in D : w[i] \in Nat
    BY <1>2
  <2>2. \A i \in D : (\A j \in D : w[j] < w[i] => j \in T) => i \in T
    BY <1>3, <1>4
  <2>3. Inherits(D, w, T)
    BY <2>1, <2>2 DEF Inherits
  <2> QED
    BY <2>3, Ranked
<1> QED
  BY <1>1, <1>2, <1>3, <1>5

\* The values of a function on the first numbers are finitely many.
LEMMA FiniteValues ==
  ASSUME NEW n \in Nat, NEW f, f = [i \in 1..n |-> f[i]], NEW K, K = {f[i] : i \in 1..n}
  PROVE  IsFiniteSet(K)
<1>1. IsFiniteSet(1..n)
  BY FS_Interval
<1>2. f \in Surjection(1..n, K)
  BY DEF Surjection
<1> QED
  BY <1>1, <1>2, FS_Surjection

\* What clean pairs say is a map of clean texts.
LEMMA CollectedClean ==
  ASSUME NEW ps \in Seq(CleanPair), NEW m, m = Collected(ps)
  PROVE  /\ IsFiniteSet(DOMAIN m) /\ DOMAIN m \subseteq Text /\ m \in [DOMAIN m -> Text]
         /\ \A k \in DOMAIN m : k # <<>> /\ Clean(k) /\ Clean(m[k])
<1>1. PICK n \in Nat : n = Len(ps) /\ DOMAIN ps = 1..n /\ \A i \in 1..n : ps[i] \in CleanPair
  <2>1. Len(ps) \in Nat /\ DOMAIN ps = 1..Len(ps) /\ \A i \in 1..Len(ps) : ps[i] \in CleanPair
    OBVIOUS
  <2> QED
    BY <2>1, Zenon
<1>2. PICK P : P = ToSet(ps)
  OBVIOUS
<1>3. P = {ps[i] : i \in 1..n} /\ P \subseteq CleanPair
  BY <1>1, <1>2 DEF ToSet
<1>4. PICK f : f = [i \in 1..n |-> ps[i].key]
  BY Zenon
<1>5. PICK K : K = {p.key : p \in P}
  BY Zenon
<1>6. K = {f[i] : i \in 1..n} /\ f = [i \in 1..n |-> f[i]]
  BY <1>3, <1>4, <1>5
<1>7. IsFiniteSet(K)
  BY <1>6, FiniteValues
<1>8. m = [k \in K |-> ValueFor(P, k)]
  BY <1>2, <1>5 DEF Collected, ValueFor
<1>9. ASSUME NEW k \in K
      PROVE  /\ k \in Seq(Alphabet) /\ k # <<>> /\ Clean(k)
             /\ m[k] \in Seq(Alphabet) /\ Clean(m[k])
  <2>1. PICK p \in P : p.key = k
    BY <1>5
  <2>2. PICK q \in P : q = CHOOSE x \in P : x.key = k
    BY <2>1
  <2>3. m[k] = q.value
    BY <1>8, <2>2 DEF ValueFor
  <2>4. /\ p.key \in Seq(Alphabet) /\ p.key # <<>> /\ Clean(p.key)
        /\ q.value \in Seq(Alphabet) /\ Clean(q.value)
    BY <1>3, Zenon DEF CleanPair, PairType
  <2> QED
    BY <2>1, <2>3, <2>4
<1>10. DOMAIN m = K
  BY <1>8
<1> QED
  BY <1>7, <1>8, <1>9, <1>10, Marks

\* What is parsed is one of these references.
LEMMA ParsedIs ==
  ASSUME NEW t \in Text, NEW r, r = Parse(t), ~Failed(r)
  PROVE  \E u \in Seq(Alphabet), ps \in Seq(CleanPair) :
           u # <<>> /\ Clean(u) /\ At(u, 1) # WideBlank
           /\ (r = Ref(u, NoParams) \/ r = Ref(u, Collected(ps)))
<1>1. PICK s \in Text : s = TrimSpace(t) /\ At(s, 1) # Blank /\ At(s, 1) \notin White
  BY TrimSpaceText DEF White
<1>2. PICK n \in Nat : n = Len(s)
  BY Marks
<1>3. 1 \in 1..(Len(s) + 1)
  BY <1>2
<1>4. PICK u : u = TrimRight(ReadChars(s, 1, TRUE).text)
  BY Zenon
<1>5. u \in Seq(Alphabet) /\ Clean(u) /\ (u # <<>> => At(u, 1) # WideBlank)
  BY <1>1, <1>3, <1>4, ReadsClean, Zenon
<1>6. PICK k : k = ReadChars(s, 1, TRUE).next
  BY Zenon
<1>7. PICK first : first = SkipWS(s, k + 1)
  OBVIOUS
<1>8. PICK ps : ps = ReadParams(s, first).pairs
  OBVIOUS
<1>9. Failed(SyntaxError) /\ Failed(DuplicateKey)
  BY DEF Failed, SyntaxError, DuplicateKey
<1>10. /\ r # SyntaxError /\ r # DuplicateKey
  BY <1>9
<1>11. /\ k # 0 /\ u # <<>>
       /\ r = Ref(u, NoParams) \/ (~(k > Len(s)) /\ r = Ref(u, Collected(ps)))
  BY <1>1, <1>4, <1>6, <1>7, <1>8, <1>10, Zenon DEF Parse
<1>12. <<>> \in Seq(CleanPair)
  OBVIOUS
<1>13. CASE r = Ref(u, NoParams)
  BY <1>5, <1>11, <1>12, <1>13, Zenon
<1>14. CASE ~(k > Len(s)) /\ r = Ref(u, Collected(ps))
  <2>1. k \in 1..n
    <3>1. ReadChars(s, 1, TRUE).next \in {0} \cup 1..(Len(s) + 1)
      BY <1>3, ReadsOnwards, Zenon
    <3>2. k \in 1..(n + 1) /\ ~(k > n)
      BY <1>2, <1>6, <1>11, <1>14, <3>1, Zenon
    <3> QED
      BY <3>2
  <2>2. k + 1 \in 1..(Len(s) + 1)
    BY <1>2, <2>1
  <2>3. first \in (k + 1)..(Len(s) + 1)
    BY <1>7, <2>2, SkipsBlanks
  <2>4. first \in 1..(Len(s) + 1)
    BY <1>2, <2>1, <2>3
  <2>5. ps \in Seq(CleanPair)
    BY <1>8, <2>4, ReadParamsClean
  <2> QED
    BY <1>5, <1>11, <1>14, <2>5
<1> QED
  BY <1>11, <1>13, <1>14

\* A table name that ends, as a text without parameters would, in white space
\* that is trimmed.
Unsettled(u) ==
  u # <<>> /\ Clean(u) /\ At(u, 1) # WideBlank /\ At(u, Len(u)) = WideBlank

\* So it is one that encoding loses no part of, or a table name that ends in
\* white space other than blanks.
LEMMA ParsedLasts ==
  ASSUME NEW t \in Text, NEW r, r = Parse(t), ~Failed(r)
  PROVE  IF Settled(r) THEN IsRef(r) /\ Lasting(r)
         ELSE \E u \in Seq(Alphabet) : r = Ref(u, NoParams) /\ Unsettled(u)
<1>1. PICK u \in Seq(Alphabet), ps \in Seq(CleanPair) :
        u # <<>> /\ Clean(u) /\ At(u, 1) # WideBlank
        /\ (r = Ref(u, NoParams) \/ r = Ref(u, Collected(ps)))
  BY ParsedIs
<1>2. PICK m : r = Ref(u, m) /\ (m = NoParams \/ m = Collected(ps))
  BY <1>1
<1>3. r.table = u /\ r.params = m /\ u \in Text
  BY <1>2, Marks DEF Ref
<1>4. /\ IsFiniteSet(DOMAIN m) /\ DOMAIN m \subseteq Text /\ m \in [DOMAIN m -> Text]
      /\ \A k \in DOMAIN m : k # <<>> /\ Clean(k) /\ Clean(m[k])
  <2>1. CASE m = NoParams
    <3>1. DOMAIN m = {} /\ m = [k \in DOMAIN m |-> m[k]]
      BY <2>1 DEF NoParams
    <3>2. IsFiniteSet({})
      BY FS_EmptySet
    <3> QED
      BY <3>1, <3>2
  <2>2. CASE m = Collected(ps)
    BY <2>2, CollectedClean
  <2> QED
    BY <1>2, <2>1, <2>2
<1>5. IsRef(r)
  BY <1>2, <1>3, <1>4 DEF IsRef
<1>6. Settled(r) => Lasting(r)
  BY <1>1, <1>3, <1>4 DEF Lasting
<1>7. ~Settled(r) => m = NoParams /\ At(u, Len(u)) = WideBlank
  BY <1>1, <1>3 DEF Settled
<1>8. ~Settled(r) => r = Ref(u, NoParams) /\ Unsettled(u)
  BY <1>1, <1>2, <1>7 DEF Unsettled
<1> QED
  BY <1>5, <1>6, <1>8

\* White space is spelled as it is, so that what comes before it may be escaped alone.
LEMMA EscapesBefore ==
  ASSUME NEW y \in Seq(White)
  PROVE  /\ y \in Seq(Alphabet)
         /\ \A v \in Seq(Alphabet) : Escape(v \o y) = Escape(v) \o y
<1>1. White \subseteq Alphabet /\ \A c \in White : c \notin Reserved
  BY Marks, CharactersAssumption
<1>2. \A x \in Seq(White) : x \in Seq(Alphabet)
  <2>1. ASSUME NEW x \in Seq(White) PROVE x \in Seq(Alphabet)
    <3>1. \A i \in 1..Len(x) : x[i] \in White
      OBVIOUS
    <3> QED
      BY <1>1, <3>1
  <2> QED
    BY <2>1
<1>3. \A x \in Seq(White) : Escape(x) = x
  <2>1. PICK T : T = {x \in Seq(White) : Escape(x) = x}
    BY Zenon
  <2>2. <<>> \in T
    <3>1. <<>> \in Seq(White)
      OBVIOUS
    <3> QED
      BY <2>1, <3>1, Escaping
  <2>3. ASSUME NEW c \in White, NEW x \in Seq(White), x \in T PROVE <<c>> \o x \in T
    <3>1. c \in Alphabet /\ Spelt[c] = <<c>>
      BY <1>1 DEF Spelt
    <3>2. Escape(<<c>> \o x) = <<c>> \o x
      BY <1>2, <2>1, <2>3, <3>1, Escaping, Zenon
    <3>3. <<c>> \o x \in Seq(White)
      BY InFrontAt
    <3> QED
      BY <2>1, <3>2, <3>3, Zenon
  <2>4. Seq(White) \subseteq T
    BY <2>2, <2>3, Texts, Zenon
  <2> QED
    BY <2>1, <2>4
<1>4. y \in Seq(Alphabet) /\ Escape(y) = y
  BY <1>2, <1>3
<1>5. PICK T : T = {v \in Seq(Alphabet) : Escape(v \o y) = Escape(v) \o y}
  BY Zenon
<1>6. <<>> \in T
  <2>1. <<>> \in Seq(Alphabet) /\ <<>> \o y = y
    BY <1>4
  <2> QED
    BY <1>4, <1>5, <2>1, Escaping, Zenon
<1>7. ASSUME NEW c \in Alphabet, NEW v \in Seq(Alphabet), v \in T PROVE <<c>> \o v \in T
  <2>1. PICK a, d, e : a = <<c>> /\ d = Spelt[c] /\ e = Escape(v)
    BY Zenon
  <2>2. a \in Seq(Alphabet) /\ d \in Seq(Alphabet) /\ e \in Seq(Alphabet)
    <3>1. <<c>> \in Seq(Alphabet) /\ Escape(v) \in Seq(Alphabet)
      BY Escaping
    <3>2. Spelt[c] \in Seq(Alphabet)
      BY Escaping
    <3> QED
      BY <2>1, <3>1, <3>2
  <2>3. a \o v \in Seq(Alphabet) /\ v \o y \in Seq(Alphabet)
    BY <1>4, <2>2, JoinedAt
  <2>4. (a \o v) \o y = a \o (v \o y) /\ (d \o e) \o y = d \o (e \o y)
    <3>1. \A p, q, r \in Seq(Alphabet) : (p \o q) \o r = p \o (q \o r)
      BY Joined
    <3>2. v \in Seq(Alphabet) /\ a \in Seq(Alphabet)
      BY <2>2
    <3>3. (a \o v) \o y = a \o (v \o y)
      BY <1>4, <3>1, <3>2, ZenonT(60)
    <3>4. (d \o e) \o y = d \o (e \o y)
      BY <1>4, <2>2, <3>1
    <3> QED
      BY <3>3, <3>4, Zenon
  <2>5. Escape(a \o (v \o y)) = d \o (e \o y)
    <3>1. Escape(v \o y) = e \o y
      BY <1>5, <1>7, <2>1, Zenon
    <3> QED
      BY <2>1, <2>3, <3>1, Escaping, Zenon
  <2>6. Escape(a \o v) = d \o e
    BY <2>1, Escaping, Zenon
  <2> QED
    BY <1>5, <2>1, <2>3, <2>4, <2>5, <2>6, Zenon
<1>8. Seq(Alphabet) \subseteq T
  BY <1>6, <1>7, Texts, Zenon
<1> QED
  BY <1>4, <1>5, <1>8, Zenon

\* What is left of such a name when it has lost the white space at its end.
LEMMA LosesItsEnd ==
  ASSUME NEW u \in Seq(Alphabet), Unsettled(u)
  PROVE  \E v \in Seq(Alphabet), y \in Seq(White) :
           u = v \o y /\ y # <<>> /\ v # <<>> /\ Clean(v) /\ Settled(Ref(v, NoParams))
<1>1. PICK n \in Nat : n = Len(u) /\ DOMAIN u = 1..n /\ n # 0
  <2>1. Len(u) \in Nat /\ DOMAIN u = 1..Len(u) /\ Len(u) # 0
    BY DEF Unsettled
  <2> QED
    BY <2>1, Zenon
<1>2. \A i \in 1..n : At(u, i) = u[i] /\ u[i] \in Alphabet
  BY <1>1 DEF At
<1>3. u[1] \notin White /\ u[n] \in White
  <2>1. 1 \in 1..n /\ n \in 1..n
    BY <1>1
  <2>2. At(u, 1) # Blank /\ At(u, 1) # WideBlank /\ At(u, n) = WideBlank
    BY <1>1 DEF Unsettled, Clean
  <2> QED
    BY <1>2, <2>1, <2>2 DEF White
<1>4. PICK K : K = {i \in 1..n : u[i] \notin White}
  BY Zenon
<1>5. 1 \in K /\ K \subseteq 0..n
  BY <1>1, <1>3, <1>4
<1>6. PICK z \in K : \A k \in K : k <= z
  BY <1>5, Greatest, Zenon
<1>7. z \in 1..n /\ u[z] \notin White /\ z # n
  BY <1>3, <1>4, <1>6
<1>8. PICK v : v = SubSeq(u, 1, z)
  BY Zenon
<1>9. v \in Seq(Alphabet) /\ Len(v) = z /\ \A j \in 1..z : v[j] = u[j]
  BY <1>1, <1>7, <1>8, Beginnings
<1>10. PICK l \in Nat : l = n - z /\ l # 0
  <2>1. n - z \in Nat /\ n - z # 0
    BY <1>7
  <2> QED
    BY <2>1
<1>11. PICK y : y = [j \in 1..l |-> u[z + j]]
  BY Zenon
<1>12. y \in Seq(White) /\ Len(y) = l /\ \A j \in 1..l : y[j] = u[z + j]
  <2>1. ASSUME NEW j \in 1..l PROVE u[z + j] \in White
    <3>1. z + j \in 1..n /\ ~(z + j <= z)
      BY <1>7, <1>10
    <3> QED
      BY <1>4, <1>6, <3>1
  <2> QED
    BY <1>11, <2>1
<1>13. PICK w : w = v \o y
  BY Zenon
<1>14. y \in Seq(Alphabet)
  BY <1>12, EscapesBefore
<1>15. /\ w \in Seq(Alphabet) /\ Len(w) = z + l
       /\ \A j \in 1..(z + l) : w[j] = IF j <= z THEN v[j] ELSE y[j - z]
  BY <1>9, <1>12, <1>13, <1>14, JoinedAt
<1>16. z + l = n
  BY <1>7, <1>10
<1>17. ASSUME NEW j \in 1..n PROVE w[j] = u[j]
  <2>1. CASE j <= z
    <3>1. j \in 1..z
      BY <2>1
    <3> QED
      BY <1>9, <1>15, <1>16, <2>1, <3>1
  <2>2. CASE ~(j <= z)
    <3>1. j - z \in 1..l /\ z + (j - z) = j
      BY <1>7, <1>16, <2>2
    <3> QED
      BY <1>12, <1>15, <1>16, <2>2, <3>1
  <2> QED
    BY <2>1, <2>2
<1>18. w = u
  BY <1>1, <1>15, <1>16, <1>17, SeqEqual
<1>19. At(v, 1) = u[1] /\ At(v, Len(v)) = u[z]
  <2>1. 1 \in 1..z /\ z \in 1..z /\ DOMAIN v = 1..z
    BY <1>7, <1>9
  <2> QED
    BY <1>9, <2>1 DEF At
<1>20. v # <<>> /\ y # <<>>
  BY <1>7, <1>9, <1>10, <1>12
<1>21. Clean(v) /\ Settled(Ref(v, NoParams))
  BY <1>3, <1>7, <1>19 DEF Clean, Settled, Ref, White
<1> QED
  BY <1>9, <1>12, <1>13, <1>18, <1>20, <1>21

\* The text of a reference without parameters is its name, escaped.
LEMMA NameAlone ==
  ASSUME NEW v \in Seq(Alphabet)
  PROVE  /\ IsRef(Ref(v, NoParams)) /\ Half({}) \in Closed
         /\ String(Ref(v, NoParams)) = Escape(v) /\ Written(Ref(v, NoParams), Half({})) = Escape(v)
<1>1. PICK r : r = Ref(v, NoParams)
  OBVIOUS
<1>2. r.table = v /\ r.params = NoParams /\ DOMAIN r.params = {}
  BY <1>1 DEF Ref, NoParams
<1>3. IsRef(r)
  <2>1. IsFiniteSet({}) /\ v \in Text /\ NoParams = [k \in {} |-> NoParams[k]]
    BY FS_EmptySet, Marks DEF NoParams
  <2> QED
    BY <1>1, <1>2, <2>1 DEF IsRef
<1>4. Half({}) \in Closed /\ Half({}) \in Seps
  BY Halved DEF Closed, Spaced
<1>5. Written(r, Half({})) = Escape(v)
  <2>1. PICK e \in Seq(Alphabet) : e = Escape(v)
    BY Escaping
  <2>2. Written(r, Half({})) = e \o <<>>
    BY <1>2, <1>3, <1>4, <2>1, WrittenTexts, Zenon
  <2> QED
    BY <2>1, <2>2
<1>6. [c \in Separators |-> <<c>>] = Half({})
  BY DEF Half
<1> QED
  BY <1>1, <1>3, <1>4, <1>5, <1>6 DEF String

\* The canonical form of such a text is cut again, once.
LEMMA CutAgain ==
  ASSUME NEW u \in Seq(Alphabet), Unsettled(u),
         NEW form, form = String(Ref(u, NoParams)), NEW again, again = Canonicalize(form)
  PROVE  ~Failed(Parse(form)) /\ again # form /\ Canonicalize(again) = again
<1>1. PICK v \in Seq(Alphabet), y \in Seq(White) :
        u = v \o y /\ y # <<>> /\ v # <<>> /\ Clean(v) /\ Settled(Ref(v, NoParams))
  BY LosesItsEnd
<1>2. PICK r : r = Ref(v, NoParams)
  OBVIOUS
<1>3. PICK e \in Seq(Alphabet) : e = Escape(v)
  BY Escaping
<1>4. form = e \o y /\ y \in Seq(Alphabet)
  BY <1>1, <1>3, NameAlone, EscapesBefore, Zenon
<1>5. IsRef(r) /\ Lasting(r) /\ String(r) = e /\ Written(r, Half({})) = e /\ Half({}) \in Closed
  <2>1. r.table = v /\ DOMAIN r.params = {}
    BY <1>2 DEF Ref, NoParams
  <2> QED
    BY <1>1, <1>2, <1>3, <2>1, NameAlone DEF Lasting
<1>6. Parse(form) = r
  <2>1. PICK x \in Seq(White) : x = <<>>
    <3>1. <<>> \in Seq(White)
      OBVIOUS
    <3> QED
      BY <3>1, Zenon
  <2>2. Parse(x \o e \o y) = r
    <3>1. PICK sep \in Closed : sep = Half({}) /\ Written(r, sep) = e
      BY <1>5
    <3>2. Parse(x \o Written(r, sep) \o y) = r
      BY <1>5, ParsesAround
    <3> QED
      BY <3>1, <3>2, Zenon
  <2>3. x \o e = e
    BY <2>1
  <2> QED
    BY <1>4, <2>2, <2>3, Zenon
<1>7. ~Failed(r)
  BY <1>2 DEF Failed, Ref
<1>8. again = e
  BY <1>5, <1>6, <1>7 DEF Canonicalize
<1>9. Canonicalize(e) = e
  BY <1>5, <1>7, ComesBack DEF Canonicalize
<1>10. form # e
  <2>1. Len(form) = Len(e) + Len(y) /\ Len(e) \in Nat /\ Len(y) \in Nat /\ Len(y) # 0
    BY <1>1, <1>4
  <2> QED
    BY <2>1
<1> QED
  BY <1>6, <1>7, <1>8, <1>9, <1>10

\* Canonicalising twice is canonicalising once for exactly the texts whose
\* canonical form is not a table name that ends in white space other than
\* blanks; those have to be canonicalised twice (tables.go:92, 240-246).
THEOREM CanonicalFormIsFixedAlways == Spec => []CanonicalFormIsFixed
<1>1. TextOK => CanonicalFormIsFixed
  <2>1. SUFFICES ASSUME text \in Text, ~Failed(Parse(text)),
                        NEW form, form = Canonicalize(text), NEW again, again = Canonicalize(form)
                 PROVE  /\ ~Failed(Parse(form)) /\ (again = form <=> Settled(Parse(text)))
                        /\ Canonicalize(again) = again
    BY Zenon DEF TextOK, CanonicalFormIsFixed
  <2>2. PICK r : r = Parse(text)
    OBVIOUS
  <2>3. form = String(r)
    BY <2>1, <2>2 DEF Canonicalize
  <2>4. CASE Settled(r)
    <3>1. IsRef(r) /\ Lasting(r)
      BY <2>1, <2>2, <2>4, ParsedLasts
    <3>2. Parse(form) = r
      BY <2>3, <3>1, ComesBack
    <3>3. again = form
      BY <2>1, <2>2, <2>3, <3>2 DEF Canonicalize
    <3> QED
      BY <2>1, <2>2, <2>4, <3>2, <3>3
  <2>5. CASE ~Settled(r)
    <3>1. PICK u \in Seq(Alphabet) : r = Ref(u, NoParams) /\ Unsettled(u)
      BY <2>1, <2>2, <2>5, ParsedLasts
    <3>2. ~Failed(Parse(form)) /\ again # form /\ Canonicalize(again) = again
      BY <2>1, <2>3, <3>1, CutAgain, Zenon
    <3> QED
      BY <2>2, <2>5, <3>2
  <2> QED
    BY <2>4, <2>5
<1> QED
  BY <1>1, TextAlways, PTL

----------------------------------------------------------------------------
(* Escapes.                                                                *)

\* Whether position i is escaped, given which positions before it are.
EscapedStep(s, i, f) == i > 1 /\ s[i - 1] = Backslash /\ ~f[i - 1]

\* The escaped positions are those after a backslash that is not one of them.
LEMMA EscapedIs ==
  ASSUME NEW s \in Text
  PROVE  /\ Escaped(s) \subseteq 1..Len(s)
         /\ \A i \in 1..Len(s) :
              i \in Escaped(s) <=> i > 1 /\ s[i - 1] = Backslash /\ i - 1 \notin Escaped(s)
<1>1. PICK n \in Nat : n = Len(s) /\ DOMAIN s = 1..n
  BY Marks
<1>2. PICK D : D = 1..n
  OBVIOUS
<1>3. PICK w : w = [i \in D |-> i]
  BY Zenon
<1>4. PICK F : F = [x \in D \X [D -> BOOLEAN] |-> EscapedStep(s, x[1], x[2])]
  BY Zenon
<1>5. \A i \in D, a \in [D -> BOOLEAN] : F[<<i, a>>] = EscapedStep(s, i, a)
  BY <1>4
<1>6. ASSUME NEW i \in D, NEW a, NEW b, \A j \in D : j < i => a[j] = b[j]
      PROVE  EscapedStep(s, i, a) = EscapedStep(s, i, b)
  <2>1. CASE i > 1
    <3>1. i - 1 \in D /\ i - 1 < i
      BY <1>2, <2>1
    <3>2. a[i - 1] = b[i - 1]
      BY <1>6, <3>1
    <3> QED
      BY <3>2 DEF EscapedStep
  <2>2. CASE ~(i > 1)
    BY <2>2 DEF EscapedStep
  <2> QED
    BY <2>1, <2>2
<1>7. Recursion(D, n, w, BOOLEAN, F)
  <2>1. w \in [D -> 0..n] /\ BOOLEAN # {}
    <3>1. \A i \in D : i \in 0..n
      BY <1>2
    <3>2. TRUE \in BOOLEAN
      OBVIOUS
    <3> QED
      BY <1>3, <3>1, <3>2, Zenon
  <2>2. F \in [D \X [D -> BOOLEAN] -> BOOLEAN]
    <3>1. \A i, a : EscapedStep(s, i, a) \in BOOLEAN
      BY DEF EscapedStep
    <3> QED
      BY <1>4, <3>1
  <2>3. ASSUME NEW i \in D, NEW a \in [D -> BOOLEAN], NEW b \in [D -> BOOLEAN],
               \A j \in D : w[j] < w[i] => a[j] = b[j]
        PROVE  F[<<i, a>>] = F[<<i, b>>]
    <3>1. \A j \in D : j < i => a[j] = b[j]
      BY <1>3, <2>3
    <3>2. EscapedStep(s, i, a) = EscapedStep(s, i, b)
      BY <1>6, <3>1
    <3> QED
      BY <1>5, <3>2
  <2> QED
    BY <2>1, <2>2, <2>3, Zenon DEF Recursion
<1>8. PICK f : Solves(D, BOOLEAN, F, f)
  BY <1>7, RecursiveFunction
<1>9. f = [i \in D |-> EscapedStep(s, i, f)]
  <2>1. f \in [D -> BOOLEAN] /\ \A i \in D : f[i] = EscapedStep(s, i, f)
    BY <1>5, <1>8, Zenon DEF Solves
  <2> QED
    BY <2>1
<1>10. PICK h : h = CHOOSE g : g = [i \in D |-> EscapedStep(s, i, g)]
  OBVIOUS
<1>11. h = [i \in D |-> EscapedStep(s, i, h)]
  BY <1>9, <1>10
<1>12. Escaped(s) = {i \in D : h[i]}
  BY <1>1, <1>2, <1>10 DEF Escaped, EscapedStep
<1>13. ASSUME NEW i \in D
       PROVE  i \in Escaped(s) <=> i > 1 /\ s[i - 1] = Backslash /\ i - 1 \notin Escaped(s)
  <2>1. i \in Escaped(s) <=> EscapedStep(s, i, h)
    <3>1. h[i] = EscapedStep(s, i, h)
      BY <1>11
    <3> QED
      BY <1>12, <3>1, Zenon
  <2>2. i > 1 => (h[i - 1] <=> i - 1 \in Escaped(s))
    <3>1. i > 1 => i - 1 \in D
      BY <1>2
    <3> QED
      BY <1>12, <3>1, Zenon
  <2> QED
    BY <2>1, <2>2 DEF EscapedStep
<1> QED
  BY <1>1, <1>2, <1>12, <1>13

\* Position i, or the end, is where something new may begin.
Free(s, i) == i \in 1..(Len(s) + 1) /\ i \notin Escaped(s)

\* A text begins freely; what is no backslash, and what is escaped, is followed
\* by what is free.
LEMMA FreeIs ==
  ASSUME NEW s \in Text, NEW n \in Nat, n = Len(s)
  PROVE  /\ Free(s, 1) /\ Free(s, n + 1)
         /\ \A i \in 1..n : Free(s, i) /\ s[i] # Backslash => Free(s, i + 1)
         /\ \A i \in 1..n : Free(s, i) /\ s[i] = Backslash /\ i + 1 \in 1..n
              => i + 1 \in Escaped(s) /\ Free(s, i + 2)
<1>1. /\ Escaped(s) \subseteq 1..n
      /\ \A i \in 1..n : i \in Escaped(s) <=> i > 1 /\ s[i - 1] = Backslash /\ i - 1 \notin Escaped(s)
  BY EscapedIs
<1>2. Free(s, n + 1)
  <2>1. n + 1 \notin 1..n /\ n + 1 \in 1..(n + 1)
    OBVIOUS
  <2> QED
    BY <1>1, <2>1 DEF Free
<1>3. Free(s, 1)
  BY <1>1 DEF Free
<1>4. ASSUME NEW i \in 1..n, Free(s, i), s[i] # Backslash PROVE Free(s, i + 1)
  <2>1. i + 1 \in 1..(n + 1) /\ i + 1 - 1 = i
    OBVIOUS
  <2>2. i + 1 \notin Escaped(s)
    BY <1>1, <1>4, <2>1
  <2> QED
    BY <2>1, <2>2 DEF Free
<1>5. ASSUME NEW i \in 1..n, Free(s, i), s[i] = Backslash, i + 1 \in 1..n
      PROVE  i + 1 \in Escaped(s) /\ Free(s, i + 2)
  <2>1. i + 1 > 1 /\ i + 1 - 1 = i /\ i + 2 \in 1..(n + 1) /\ i + 2 - 1 = i + 1
    BY <1>5
  <2>2. i \notin Escaped(s)
    BY <1>5 DEF Free
  <2>3. i + 1 \in Escaped(s)
    BY <1>1, <1>5, <2>1, <2>2
  <2>4. i + 2 \notin Escaped(s)
    BY <1>1, <2>1, <2>3
  <2> QED
    BY <2>1, <2>3, <2>4 DEF Free
<1> QED
  BY <1>2, <1>3, <1>4, <1>5

----------------------------------------------------------------------------
(* Between separators.                                                     *)

\* From position i on, q is the first bare separator, or the end.
Reaches(s, i, q) ==
  /\ q \in i..(Len(s) + 1) /\ (q = Len(s) + 1 \/ q \in Bare(s, Separators))
  /\ \A k \in Bare(s, Separators) : k < i \/ k >= q

\* What it is to be bare.
LEMMA BareIs ==
  ASSUME NEW s \in Text, NEW n \in Nat, n = Len(s), NEW C, NEW i
  PROVE  i \in Bare(s, C) <=> i \in 1..n /\ i \notin Escaped(s) /\ s[i] \in C
<1>1. DOMAIN s = 1..n
  BY Marks
<1> QED
  BY <1>1 DEF Bare

\* Such a position is what Cut finds.
LEMMA CutIs ==
  ASSUME NEW s \in Text, NEW n \in Nat, n = Len(s), NEW i \in 0..n
  PROVE  /\ Cut(s, i) \in (i + 1)..(n + 1) /\ Reaches(s, i + 1, Cut(s, i))
         /\ \A q : Reaches(s, i + 1, q) => q = Cut(s, i)
<1>1. PICK K : K = {j \in Bare(s, Separators) : j > i} \cup {n + 1}
  BY Zenon
<1>2. K \subseteq (i + 1)..(n + 1) /\ n + 1 \in K
  <2>1. ASSUME NEW j \in K PROVE j \in (i + 1)..(n + 1)
    <3>1. CASE j = n + 1
      BY <3>1
    <3>2. CASE j \in Bare(s, Separators) /\ j > i
      <4>1. j \in 1..n
        BY <3>2, BareIs
      <4> QED
        BY <3>2, <4>1
    <3> QED
      BY <1>1, <3>1, <3>2
  <2> QED
    BY <1>1, <2>1
<1>3. K \subseteq Nat /\ K \subseteq Int
  BY <1>2
<1>4. PICK x \in K : \A k \in K : x <= k
  BY <1>2, <1>3, Least, Zenon
<1>5. Cut(s, i) = x
  <2>1. Min(K) = x
    BY <1>3, <1>4, MinIs, Zenon
  <2> QED
    BY <1>1, <2>1 DEF Cut
<1>6. Reaches(s, i + 1, x)
  <2>1. x \in (i + 1)..(n + 1) /\ (x = n + 1 \/ x \in Bare(s, Separators))
    BY <1>1, <1>2
  <2>2. ASSUME NEW k \in Bare(s, Separators) PROVE k < i + 1 \/ k >= x
    <3>1. k \in 1..n
      BY BareIs
    <3>2. k > i => x <= k
      BY <1>1, <1>4
    <3> QED
      BY <2>1, <3>1, <3>2
  <2> QED
    BY <2>1, <2>2 DEF Reaches
<1>7. ASSUME NEW q, Reaches(s, i + 1, q) PROVE q = x
  <2>1. /\ q \in (i + 1)..(n + 1) /\ (q = n + 1 \/ q \in Bare(s, Separators))
        /\ \A k \in Bare(s, Separators) : k < i + 1 \/ k >= q
    BY <1>7 DEF Reaches
  <2>2. q \in K
    BY <1>1, <2>1
  <2>3. x <= q /\ x \in (i + 1)..(n + 1)
    BY <1>2, <1>4, <2>2
  <2>4. x >= q
    <3>1. CASE x = n + 1
      BY <2>1, <3>1
    <3>2. CASE x \in Bare(s, Separators)
      BY <2>1, <2>3, <3>2
    <3> QED
      BY <1>1, <3>1, <3>2
  <2> QED
    BY <2>1, <2>3, <2>4
<1> QED
  BY <1>2, <1>5, <1>6, <1>7

\* How the character at position k is spelled without its escape.
Bared(s, k) == IF k \in Bare(s, {Backslash}) THEN <<>> ELSE <<s[k]>>

\* Between separators, characters come one after the other, and a bare
\* backslash does not count.
LEMMA UnescapedIs ==
  ASSUME NEW s \in Text, NEW n \in Nat, n = Len(s), NEW i \in 1..(n + 1), NEW j \in i..(n + 1)
  PROVE  /\ Unescaped(s, i, j) \in Seq(Alphabet)
         /\ i = j => Unescaped(s, i, j) = <<>>
         /\ i < j => Unescaped(s, i, j) = Bared(s, i) \o Unescaped(s, i + 1, j)
<1>1. PICK e : e = [k \in 1..n |-> Bared(s, k)]
  BY Zenon
<1>2. ASSUME NEW k \in 1..n PROVE e[k] \in Seq(Alphabet) /\ e[k] = Bared(s, k)
  <2>1. s[k] \in Alphabet
    BY Marks
  <2>2. <<>> \in Seq(Alphabet) /\ <<s[k]>> \in Seq(Alphabet)
    BY <2>1
  <2> QED
    BY <1>1, <2>2 DEF Bared
<1>3. ASSUME NEW a \in 1..(n + 1), a <= j
      PROVE  /\ [k \in 1..(j - a) |-> e[a + k - 1]] \in Seq(Seq(Alphabet))
             /\ Unescaped(s, a, j) = FlattenSeq([k \in 1..(j - a) |-> e[a + k - 1]])
  <2>1. j - a \in Nat /\ \A k \in 1..(j - a) : a + k - 1 \in 1..n
    BY <1>3
  <2>2. [k \in 1..(j - a) |-> e[a + k - 1]] \in [1..(j - a) -> Seq(Alphabet)]
    BY <1>2, <2>1
  <2>3. [k \in 1..(j - a) |-> e[a + k - 1]] \in Seq(Seq(Alphabet))
    BY <2>1, <2>2
  <2>4. [k \in 1..(j - a) |-> e[a + k - 1]]
        = [k \in 1..(j - a) |-> IF a + k - 1 \in Bare(s, {Backslash}) THEN <<>> ELSE <<s[a + k - 1]>>]
    BY <1>2, <2>1, Zenon DEF Bared
  <2> QED
    BY <2>3, <2>4, Zenon DEF Unescaped
<1>4. Unescaped(s, i, j) \in Seq(Alphabet)
  <2>1. i <= j
    OBVIOUS
  <2> QED
    BY <1>3, <2>1, FlattenType, Zenon
<1>5. ASSUME i = j PROVE Unescaped(s, i, j) = <<>>
  <2>1. [k \in 1..(j - i) |-> e[i + k - 1]] = <<>>
    BY <1>5
  <2>2. i <= j
    OBVIOUS
  <2> QED
    BY <1>3, <2>1, <2>2, FlattenType, Zenon
<1>6. ASSUME i < j PROVE Unescaped(s, i, j) = Bared(s, i) \o Unescaped(s, i + 1, j)
  <2>1. i \in 1..n /\ i + 1 \in 1..(n + 1) /\ i <= j /\ i + 1 <= j
    BY <1>6
  <2>2. PICK x \in Seq(Alphabet) : x = e[i] /\ x = Bared(s, i)
    BY <1>2, <2>1
  <2>3. PICK rest \in Seq(Seq(Alphabet)) : rest = [k \in 1..(j - (i + 1)) |-> e[i + 1 + k - 1]]
    BY <1>3, <2>1, Zenon
  <2>4. PICK all \in Seq(Seq(Alphabet)) : all = [k \in 1..(j - i) |-> e[i + k - 1]]
    BY <1>3, <2>1, Zenon
  <2>5. all = <<x>> \o rest
    <3>1. PICK m \in Nat : m = j - (i + 1) /\ j - i = m + 1
      BY <2>1
    <3>2. Len(rest) = m /\ Len(all) = m + 1
      BY <2>3, <2>4, <3>1
    <3>3. PICK glued : glued = <<x>> \o rest
      BY Zenon
    <3>4. /\ glued \in Seq(Seq(Alphabet)) /\ Len(glued) = m + 1 /\ glued[1] = x
          /\ \A k \in 1..m : glued[k + 1] = rest[k]
      BY <3>2, <3>3, InFrontAt
    <3>5. ASSUME NEW k \in 1..(m + 1) PROVE all[k] = glued[k]
      <4>1. all[k] = e[i + k - 1]
        BY <2>4, <3>1
      <4>2. CASE k = 1
        <5>1. i + 1 - 1 = i
          BY <2>1
        <5> QED
          BY <2>2, <3>4, <4>1, <4>2, <5>1, Zenon
      <4>3. CASE k # 1
        <5>1. PICK l \in 1..m : k = l + 1
          <6>1. k - 1 \in 1..m /\ k = k - 1 + 1
            BY <4>3
          <6> QED
            BY <6>1
        <5>2. rest[l] = e[i + 1 + l - 1] /\ i + 1 + l - 1 = i + k - 1
          BY <2>3, <3>1, <5>1
        <5> QED
          BY <3>4, <4>1, <5>1, <5>2
      <4> QED
        BY <4>2, <4>3
    <3>6. all = glued
      BY <3>2, <3>4, <3>5, SeqEqual
    <3> QED
      BY <3>3, <3>6
  <2>6. FlattenSeq(all) = x \o FlattenSeq(rest)
    BY <2>5, FlattenCons, Zenon
  <2>7. Unescaped(s, i, j) = FlattenSeq(all) /\ Unescaped(s, i + 1, j) = FlattenSeq(rest)
    BY <1>3, <2>1, <2>3, <2>4, Zenon
  <2> QED
    BY <2>2, <2>6, <2>7, Zenon
<1> QED
  BY <1>4, <1>5, <1>6

----------------------------------------------------------------------------
(* What is read between separators.                                        *)

\* From position i up to q every escape is one, and reading may stop at q.
Readable(s, topLevel, i, q) ==
  /\ \A b \in Bare(s, {Backslash}) : b < i \/ b >= q \/ At(s, b + 1) \in Reserved
  /\ q = Len(s) + 1 \/ s[q] \in Stops(topLevel)

\* What is readable is read, up to q, and nothing else is.
ReadsRight(s, topLevel, i, q) ==
  /\ Readable(s, topLevel, i, q)
     => ReadChars(s, i, topLevel) = [text |-> Unescaped(s, i, q), next |-> q]
  /\ ~Readable(s, topLevel, i, q) => ReadChars(s, i, topLevel).next = 0

\* One more character in front of what is read right.
LEMMA OneMore ==
  ASSUME NEW s \in Text, NEW topLevel, NEW n \in Nat, n = Len(s),
         NEW i \in 1..n, NEW j \in 1..(n + 1), NEW q \in j..(n + 1), i < j, NEW c \in Alphabet,
         ReadsRight(s, topLevel, j, q),
         Readable(s, topLevel, i, q) <=> Readable(s, topLevel, j, q),
         ReadChars(s, i, topLevel) = [text |-> <<c>> \o ReadChars(s, j, topLevel).text,
                                      next |-> ReadChars(s, j, topLevel).next],
         Unescaped(s, i, q) = <<c>> \o Unescaped(s, j, q)
  PROVE  ReadsRight(s, topLevel, i, q)
<1>1. PICK k : k = ReadChars(s, j, topLevel).next
  OBVIOUS
<1>2. PICK t : t = ReadChars(s, j, topLevel).text
  OBVIOUS
<1>3. PICK v : v = <<c>> \o t
  BY Zenon
<1>4. ReadChars(s, i, topLevel) = [text |-> v, next |-> k]
  BY <1>1, <1>2, <1>3
<1>5. ASSUME Readable(s, topLevel, j, q)
      PROVE  ReadChars(s, i, topLevel) = [text |-> Unescaped(s, i, q), next |-> q]
  <2>1. ReadChars(s, j, topLevel) = [text |-> Unescaped(s, j, q), next |-> q]
    BY <1>5 DEF ReadsRight
  <2>2. t = Unescaped(s, j, q) /\ k = q
    BY <1>1, <1>2, <2>1, Parts, Zenon
  <2>3. v = Unescaped(s, i, q)
    BY <1>3, <2>2
  <2> QED
    BY <1>4, <2>2, <2>3, Zenon
<1>6. ASSUME ~Readable(s, topLevel, j, q) PROVE ReadChars(s, i, topLevel).next = 0
  <2>1. k = 0
    BY <1>1, <1>6 DEF ReadsRight
  <2>2. ReadChars(s, i, topLevel).next = k
    BY <1>4, Parts, Zenon
  <2> QED
    BY <2>1, <2>2
<1> QED
  BY <1>5, <1>6 DEF ReadsRight

\* Past a character that is not reserved everything stays as it is.
LEMMA PlainStep ==
  ASSUME NEW s \in Text, NEW topLevel, NEW n \in Nat, n = Len(s), NEW i \in 1..n,
         Free(s, i), NEW q, Reaches(s, i, q), q # i, s[i] \notin Reserved
  PROVE  /\ i + 1 \in 1..(n + 1) /\ i < i + 1 /\ q \in (i + 1)..(n + 1)
         /\ Free(s, i + 1) /\ Reaches(s, i + 1, q)
         /\ Readable(s, topLevel, i, q) <=> Readable(s, topLevel, i + 1, q)
         /\ Unescaped(s, i, q) = <<s[i]>> \o Unescaped(s, i + 1, q)
<1>1. /\ q \in i..(n + 1) /\ (q = n + 1 \/ q \in Bare(s, Separators))
      /\ \A k \in Bare(s, Separators) : k < i \/ k >= q
  BY DEF Reaches
<1>2. Backslash \in Reserved
  BY DEF Reserved
<1>3. /\ \A k \in Bare(s, Separators) : k \in 1..n
      /\ \A k : k \in Bare(s, {Backslash}) => k \in 1..n /\ s[k] = Backslash
  BY BareIs
<1>4. i + 1 \in 1..(n + 1) /\ i < i + 1 /\ q \in (i + 1)..(n + 1) /\ i < q
  BY <1>1
<1>5. Free(s, i + 1)
  BY <1>2, FreeIs
<1>6. Reaches(s, i + 1, q)
  <2>1. ASSUME NEW k \in Bare(s, Separators) PROVE k < i + 1 \/ k >= q
    <3>1. k < i \/ k >= q
      BY <1>1
    <3>2. k \in 1..n
      BY <1>3
    <3> QED
      BY <3>1, <3>2
  <2> QED
    BY <1>1, <1>4, <2>1 DEF Reaches
<1>7. Readable(s, topLevel, i, q) <=> Readable(s, topLevel, i + 1, q)
  <2>1. ASSUME NEW b \in Bare(s, {Backslash}) PROVE b < i <=> b < i + 1
    <3>1. b \in 1..n /\ b # i
      BY <1>2, <1>3, Zenon
    <3> QED
      BY <3>1
  <2> QED
    BY <2>1, Zenon DEF Readable
<1>8. Unescaped(s, i, q) = <<s[i]>> \o Unescaped(s, i + 1, q)
  <2>1. Bared(s, i) = <<s[i]>>
    BY <1>2, <1>3, Zenon DEF Bared
  <2>2. i \in 1..(n + 1) /\ q \in i..(n + 1)
    BY <1>1
  <2>3. Unescaped(s, i, q) = Bared(s, i) \o Unescaped(s, i + 1, q)
    BY <1>4, <2>2, UnescapedIs, ZenonT(60)
  <2> QED
    BY <2>1, <2>3
<1> QED
  BY <1>4, <1>5, <1>6, <1>7, <1>8

\* Reading right from a free position, given that it is done further on.
LEMMA ReadsOn ==
  ASSUME NEW s \in Text, NEW topLevel, NEW n \in Nat, n = Len(s), NEW i \in 1..(n + 1),
         Free(s, i), NEW q, Reaches(s, i, q),
         \A j \in 1..(n + 1) :
           j > i /\ Free(s, j) /\ Reaches(s, j, q) => ReadsRight(s, topLevel, j, q)
  PROVE  ReadsRight(s, topLevel, i, q)
<1>1. /\ q \in i..(n + 1) /\ (q = n + 1 \/ q \in Bare(s, Separators))
      /\ \A k \in Bare(s, Separators) : k < i \/ k >= q
  BY DEF Reaches
<1>2. /\ "end" \notin Stops(topLevel) /\ Stops(topLevel) \subseteq Separators
      /\ Backslash \notin Separators /\ Reserved = Separators \cup {Backslash}
  BY Zenon DEF Stops, Separators, Backslash, Reserved
<1>3. /\ \A k : k \in Bare(s, Separators) <=> k \in 1..n /\ k \notin Escaped(s) /\ s[k] \in Separators
      /\ \A k : k \in Bare(s, {Backslash}) <=> k \in 1..n /\ k \notin Escaped(s) /\ s[k] = Backslash
  BY BareIs
<1>4. i \notin Escaped(s)
  BY DEF Free
<1>5. \A k \in 1..n : At(s, k) = s[k] /\ s[k] \in Alphabet
  BY Marks DEF At
<1>6. At(s, n + 1) = "end" /\ "end" \notin Reserved
  <2>1. n + 1 \notin DOMAIN s
    BY Marks
  <2> QED
    BY <2>1, Marks DEF At
<1>7. ASSUME q = i PROVE ReadsRight(s, topLevel, i, q)
  <2>1. Unescaped(s, i, q) = <<>>
    BY <1>1, <1>7, UnescapedIs, Zenon
  <2>2. ASSUME Readable(s, topLevel, i, q)
        PROVE  ReadChars(s, i, topLevel) = [text |-> <<>>, next |-> i]
    <3>1. i > n \/ At(s, i) \in Stops(topLevel)
      BY <1>5, <1>7, <2>2 DEF Readable
    <3> QED
      BY <3>1, ReadsStop
  <2>3. ASSUME ~Readable(s, topLevel, i, q) PROVE ReadChars(s, i, topLevel).next = 0
    <3>1. q # n + 1 /\ s[i] \notin Stops(topLevel)
      <4>1. \A b \in Bare(s, {Backslash}) : b < i \/ b >= q
        BY <1>3, <1>7
      <4> QED
        BY <1>7, <2>3, <4>1, Zenon DEF Readable
    <3>2. i \in 1..n /\ s[i] \in Reserved \ Stops(topLevel) /\ s[i] # Backslash
      BY <1>1, <1>2, <1>3, <1>7, <3>1
    <3>3. ReadChars(s, i, topLevel) = [text |-> <<>>, next |-> 0]
      BY <3>2, ReadCharsAt, Zenon
    <3> QED
      BY <3>3
  <2> QED
    BY <1>7, <2>1, <2>2, <2>3 DEF ReadsRight
<1>8. ASSUME q # i, s[i] \notin Reserved PROVE ReadsRight(s, topLevel, i, q)
  <2>1. i \in 1..n
    BY <1>1, <1>8
  <2>2. PICK c \in Alphabet : c = s[i]
    BY <1>5, <2>1
  <2>3. /\ i + 1 \in 1..(n + 1) /\ i < i + 1 /\ q \in (i + 1)..(n + 1)
        /\ Free(s, i + 1) /\ Reaches(s, i + 1, q)
        /\ Readable(s, topLevel, i, q) <=> Readable(s, topLevel, i + 1, q)
        /\ Unescaped(s, i, q) = <<c>> \o Unescaped(s, i + 1, q)
    BY <1>8, <2>1, <2>2, PlainStep, ZenonT(60)
  <2>4. ReadsRight(s, topLevel, i + 1, q)
    BY <2>3
  <2>5. ReadChars(s, i, topLevel) = [text |-> <<c>> \o ReadChars(s, i + 1, topLevel).text,
                                     next |-> ReadChars(s, i + 1, topLevel).next]
    BY <1>8, <2>1, <2>2, ReadsPlain, ZenonT(60)
  <2> QED
    BY <2>1, <2>2, <2>3, <2>4, <2>5, OneMore, Zenon
<1>9. ASSUME q # i, s[i] = Backslash, At(s, i + 1) \notin Reserved
      PROVE  ReadsRight(s, topLevel, i, q)
  <2>1. i \in 1..n /\ i < q
    BY <1>1, <1>9
  <2>2. ~Readable(s, topLevel, i, q)
    <3>1. i \in Bare(s, {Backslash})
      BY <1>3, <1>4, <1>9, <2>1, Zenon
    <3>2. ~(i < i \/ i >= q)
      BY <1>1, <2>1
    <3> QED
      BY <1>9, <3>1, <3>2 DEF Readable
  <2>3. ReadChars(s, i, topLevel) = [text |-> <<>>, next |-> 0]
    <3>1. s[i] \in Reserved \ Stops(topLevel)
      BY <1>2, <1>9
    <3> QED
      BY <1>9, <2>1, <3>1, ReadCharsAt, ZenonT(60)
  <2>4. ReadChars(s, i, topLevel).next = 0
    BY <2>3
  <2> QED
    BY <2>2, <2>4 DEF ReadsRight
<1>10. ASSUME q # i, s[i] = Backslash, At(s, i + 1) \in Reserved
       PROVE  ReadsRight(s, topLevel, i, q)
  <2>1. i \in 1..n /\ i + 1 \in 1..n /\ i + 2 \in 1..(n + 1) /\ i < i + 2
    <3>1. i \in 1..n
      BY <1>1, <1>10
    <3>2. i + 1 # n + 1
      BY <1>6, <1>10
    <3> QED
      BY <3>1, <3>2
  <2>2. i + 1 \in Escaped(s) /\ Free(s, i + 2)
    BY <1>10, <2>1, FreeIs
  <2>3. q \in (i + 2)..(n + 1) /\ i < q /\ i + 1 < q
    <3>1. q # i + 1
      BY <1>1, <1>3, <2>1, <2>2
    <3> QED
      BY <1>1, <1>10, <3>1
  <2>4. Reaches(s, i + 2, q)
    <3>1. ASSUME NEW k \in Bare(s, Separators) PROVE k < i + 2 \/ k >= q
      <4>1. k < i \/ k >= q
        BY <1>1
      <4>2. k \in 1..n
        BY <1>3
      <4> QED
        BY <2>1, <4>1, <4>2
    <3> QED
      BY <1>1, <2>3, <3>1 DEF Reaches
  <2>5. ReadsRight(s, topLevel, i + 2, q)
    BY <2>1, <2>2, <2>4
  <2>6. Readable(s, topLevel, i, q) <=> Readable(s, topLevel, i + 2, q)
    <3>1. ASSUME NEW b \in Bare(s, {Backslash}), b # i PROVE b < i <=> b < i + 2
      <4>1. b \in 1..n /\ b # i + 1
        BY <1>3, <2>2, Zenon
      <4> QED
        BY <3>1, <4>1
    <3>2. i < i + 2 /\ At(s, i + 1) \in Reserved
      BY <1>10
    <3> QED
      BY <3>1, <3>2, Zenon DEF Readable
  <2>7. PICK c \in Alphabet : c = s[i + 1]
    BY <1>5, <2>1
  <2>8. Unescaped(s, i, q) = <<c>> \o Unescaped(s, i + 2, q)
    <3>1. Bared(s, i) = <<>> /\ Bared(s, i + 1) = <<c>>
      BY <1>3, <1>4, <1>10, <2>1, <2>2, <2>7, Zenon DEF Bared
    <3>2. Unescaped(s, i, q) = Bared(s, i) \o Unescaped(s, i + 1, q)
      BY <1>1, <2>1, <2>3, UnescapedIs, Zenon
    <3>3. i + 1 \in 1..(n + 1) /\ q \in (i + 1)..(n + 1) /\ i + 1 + 1 = i + 2
      BY <2>1, <2>3
    <3>4. Unescaped(s, i + 1, q) = Bared(s, i + 1) \o Unescaped(s, i + 2, q)
      BY <2>3, <3>3, UnescapedIs, ZenonT(60)
    <3>5. PICK u \in Seq(Alphabet) : u = Unescaped(s, i + 1, q)
      BY <3>3, UnescapedIs, Zenon
    <3>6. <<>> \o u = u
      OBVIOUS
    <3> QED
      BY <3>1, <3>2, <3>4, <3>5, <3>6, Zenon
  <2>9. ReadChars(s, i, topLevel) = [text |-> <<c>> \o ReadChars(s, i + 2, topLevel).text,
                                     next |-> ReadChars(s, i + 2, topLevel).next]
    BY <1>10, <2>1, <2>7, ReadsReserved, ZenonT(60)
  <2> QED
    <3>1. PICK j \in 1..(n + 1) : j = i + 2
      BY <2>1
    <3>2. i < j /\ q \in j..(n + 1)
      BY <2>1, <2>3, <3>1
    <3>3. /\ ReadsRight(s, topLevel, j, q)
          /\ Readable(s, topLevel, i, q) <=> Readable(s, topLevel, j, q)
          /\ Unescaped(s, i, q) = <<c>> \o Unescaped(s, j, q)
      BY <2>5, <2>6, <2>8, <3>1, Zenon
    <3>4. ReadChars(s, i, topLevel) = [text |-> <<c>> \o ReadChars(s, j, topLevel).text,
                                       next |-> ReadChars(s, j, topLevel).next]
      BY <2>9, <3>1, Zenon
    <3> QED
      BY <2>1, <3>2, <3>3, <3>4, OneMore, Zenon
<1>11. q = i \/ s[i] \notin Reserved \/ s[i] = Backslash
  <2>1. ASSUME i \in 1..n, s[i] \in Separators PROVE q = i
    <3>1. i \in Bare(s, Separators)
      BY <1>3, <1>4, <2>1
    <3> QED
      BY <1>1, <3>1
  <2>2. i = n + 1 => q = i
    BY <1>1
  <2> QED
    BY <1>2, <2>1, <2>2
<1> QED
  BY <1>7, <1>8, <1>9, <1>10, <1>11

\* From a free position on, what is readable is read, and nothing else.
LEMMA ReadsPart ==
  ASSUME NEW s \in Text, NEW topLevel, NEW i \in 1..(Len(s) + 1), Free(s, i),
         NEW q, Reaches(s, i, q)
  PROVE  ReadsRight(s, topLevel, i, q)
<1>1. PICK n \in Nat : n = Len(s)
  BY Marks
<1>2. PICK D, w : D = 1..(n + 1) /\ w = [j \in D |-> n + 1 - j]
  BY Zenon
<1>3. PICK T : T = {j \in D : Free(s, j) /\ Reaches(s, j, q) => ReadsRight(s, topLevel, j, q)}
  BY Zenon
<1>4. ASSUME NEW j \in D, \A k \in D : w[k] < w[j] => k \in T
      PROVE  j \in T
  <2>1. \A k \in 1..(n + 1) :
          k > j /\ Free(s, k) /\ Reaches(s, k, q) => ReadsRight(s, topLevel, k, q)
    BY <1>2, <1>3, <1>4
  <2>2. Free(s, j) /\ Reaches(s, j, q) => ReadsRight(s, topLevel, j, q)
    BY <1>1, <1>2, <2>1, ReadsOn
  <2> QED
    BY <1>3, <2>2
<1>5. D \subseteq T
  <2>1. \A j \in D : w[j] \in Nat
    BY <1>2
  <2>2. Inherits(D, w, T)
    BY <1>4, <2>1 DEF Inherits
  <2> QED
    BY <2>2, Ranked
<1> QED
  BY <1>1, <1>2, <1>3, <1>5

----------------------------------------------------------------------------
(* What is trimmed.                                                        *)

\* A blank in front makes no difference,
LEMMA TrimFirst ==
  ASSUME NEW u \in Seq(Alphabet)
  PROVE  Trim(<<Blank>> \o u) = Trim(u)
<1>1. Blank \in Alphabet
  BY Marks DEF White
<1>2. PICK m \in Nat : m = Len(u) /\ DOMAIN u = 1..m
  <2>1. Len(u) \in Nat /\ DOMAIN u = 1..Len(u)
    OBVIOUS
  <2> QED
    BY <2>1, Zenon
<1>3. PICK v : v = <<Blank>> \o u
  BY Zenon
<1>4. /\ v \in Seq(Alphabet) /\ Len(v) = m + 1 /\ v[1] = Blank
      /\ \A j \in 1..m : v[j + 1] = u[j]
  BY <1>1, <1>2, <1>3, InFrontAt
<1>5. DOMAIN v = 1..(m + 1)
  BY <1>4
<1>6. PICK K : K = {i \in DOMAIN v : v[i] # Blank}
  BY Zenon
<1>7. PICK L : L = {i \in DOMAIN u : u[i] # Blank}
  BY Zenon
<1>8. \A l \in L : l + 1 \in K
  BY <1>2, <1>4, <1>5, <1>6, <1>7
<1>9. ASSUME NEW k \in K PROVE \E l \in L : k = l + 1
  <2>1. k \in 1..(m + 1) /\ k # 1
    BY <1>4, <1>5, <1>6
  <2>2. k - 1 \in 1..m /\ k = k - 1 + 1
    BY <2>1
  <2>3. u[k - 1] = v[k]
    BY <1>4, <2>2
  <2>4. k - 1 \in L
    BY <1>2, <1>6, <1>7, <2>2, <2>3
  <2> QED
    BY <2>2, <2>4
<1>10. Trim(v) = Span(v, K) /\ Trim(u) = Span(u, L)
  BY <1>6, <1>7 DEF Trim
<1>11. CASE L = {}
  <2>1. K = {}
    BY <1>9, <1>11
  <2> QED
    BY <1>3, <1>10, <1>11, <2>1 DEF Span
<1>12. CASE L # {}
  <2>1. L \subseteq 1..m /\ L \subseteq 0..m /\ L \subseteq Nat /\ L \subseteq Int
    BY <1>2, <1>7
  <2>2. PICK a \in L : \A l \in L : a <= l
    BY <1>12, <2>1, Least, Zenon
  <2>3. PICK z \in L : \A l \in L : l <= z
    BY <1>12, <2>1, Greatest, Zenon
  <2>4. K \subseteq Int /\ a + 1 \in K /\ z + 1 \in K /\ K # {}
    <3>1. K \subseteq Int
      BY <1>5, <1>6
    <3> QED
      BY <1>8, <3>1
  <2>5. \A k \in K : a + 1 <= k /\ k <= z + 1
    <3>1. ASSUME NEW k \in K PROVE a + 1 <= k /\ k <= z + 1
      <4>1. PICK l \in L : k = l + 1
        BY <1>9
      <4>2. a <= l /\ l <= z /\ a \in Int /\ l \in Int /\ z \in Int
        BY <2>1, <2>2, <2>3
      <4> QED
        BY <4>1, <4>2
    <3> QED
      BY <3>1
  <2>6. Min(L) = a /\ Max(L) = z /\ Min(K) = a + 1 /\ Max(K) = z + 1
    BY <2>1, <2>2, <2>3, <2>4, <2>5, MinIs, MaxIs, Zenon
  <2>7. PICK l \in Nat : z = a + l - 1 /\ z + 1 = a + 1 + l - 1
    <3>1. a \in Int /\ z \in Int /\ a <= z
      BY <2>1, <2>2
    <3>2. z - a + 1 \in Nat /\ z = a + (z - a + 1) - 1 /\ z + 1 = a + 1 + (z - a + 1) - 1
      BY <3>1
    <3> QED
      BY <3>2
  <2>8. a \in 1..m /\ a + 1 \in 1..(m + 1) /\ a + l - 1 <= m /\ a + 1 + l - 1 <= m + 1
    BY <2>1, <2>7
  <2>9. PICK x : x = SubSeq(u, a, a + l - 1)
    BY Zenon
  <2>10. PICK y : y = SubSeq(v, a + 1, a + 1 + l - 1)
    BY Zenon
  <2>11. x \in Seq(Alphabet) /\ Len(x) = l /\ \A j \in 1..l : x[j] = u[a + j - 1]
    BY <1>2, <2>8, <2>9, SubSeqAt
  <2>12. y \in Seq(Alphabet) /\ Len(y) = l /\ \A j \in 1..l : y[j] = v[a + 1 + j - 1]
    BY <1>4, <2>8, <2>10, SubSeqAt
  <2>13. ASSUME NEW j \in 1..l PROVE x[j] = y[j]
    <3>1. a + j - 1 \in 1..m /\ a + j - 1 + 1 = a + 1 + j - 1
      BY <2>8
    <3>2. v[a + 1 + j - 1] = u[a + j - 1]
      BY <1>4, <3>1
    <3> QED
      BY <2>11, <2>12, <3>2
  <2>14. x = y
    BY <2>11, <2>12, <2>13, SeqEqual
  <2>15. Span(u, L) = x
    BY <1>12, <2>6, <2>7, <2>9 DEF Span
  <2>16. Span(v, K) = y
    BY <2>4, <2>6, <2>7, <2>10 DEF Span
  <2> QED
    BY <1>3, <1>10, <2>14, <2>15, <2>16
<1> QED
  BY <1>11, <1>12

\* and where there is none, only the right has to be trimmed.
LEMMA TrimLast ==
  ASSUME NEW u \in Seq(Alphabet), At(u, 1) # Blank
  PROVE  Trim(u) = TrimRight(u)
<1>1. PICK m \in Nat : m = Len(u) /\ DOMAIN u = 1..m
  <2>1. Len(u) \in Nat /\ DOMAIN u = 1..Len(u)
    OBVIOUS
  <2> QED
    BY <2>1, Zenon
<1>2. PICK L : L = {i \in DOMAIN u : u[i] # Blank}
  BY Zenon
<1>3. Trim(u) = Span(u, L)
  BY <1>2 DEF Trim
<1>4. CASE m = 0
  <2>1. u = <<>> /\ L = {}
    BY <1>1, <1>2, <1>4
  <2>2. Trim(u) = <<>>
    BY <1>3, <2>1 DEF Span
  <2>3. TrimRight(u) = <<>>
    <3>1. 0 \in 0..Len(u) /\ ~(\E j \in (0 + 1)..Len(u) : TRUE)
      BY <1>1, <1>4
    <3> QED
      BY <3>1, TrimRightIs
  <2> QED
    BY <2>2, <2>3
<1>5. CASE m # 0
  <2>1. 1 \in L /\ L \subseteq Int /\ L \subseteq 0..m /\ L # {} /\ \A l \in L : 1 <= l
    <3>1. 1 \in 1..m
      BY <1>1, <1>5
    <3>2. At(u, 1) = u[1]
      BY <1>1, <3>1 DEF At
    <3> QED
      BY <1>1, <1>2, <3>1, <3>2
  <2>2. PICK z \in L : \A l \in L : l <= z
    BY <2>1, Greatest, Zenon
  <2>3. Min(L) = 1 /\ Max(L) = z
    BY <2>1, <2>2, MinIs, MaxIs, Zenon
  <2>4. Trim(u) = SubSeq(u, 1, z)
    BY <1>3, <2>1, <2>3 DEF Span
  <2>5. z \in 0..Len(u) /\ z # 0 /\ u[z] # Blank
    BY <1>1, <1>2
  <2>6. ASSUME NEW j \in (z + 1)..Len(u) PROVE u[j] = Blank
    <3>1. j \in 1..m /\ ~(j <= z)
      BY <1>1, <2>5
    <3> QED
      BY <1>1, <1>2, <2>2, <3>1
  <2>7. TrimRight(u) = SubSeq(u, 1, z)
    BY <2>5, <2>6, TrimRightIs
  <2> QED
    BY <2>4, <2>7
<1> QED
  BY <1>4, <1>5

----------------------------------------------------------------------------
(* Names and values.                                                       *)

\* From position i up to q, blanks are skipped and what is readable is read.
SkipsAndReads(s, topLevel, i, q) ==
  /\ Readable(s, topLevel, i, q)
     => /\ ReadChars(s, SkipWS(s, i), topLevel).next = q
        /\ TrimRight(ReadChars(s, SkipWS(s, i), topLevel).text) = Trim(Unescaped(s, i, q))
  /\ ~Readable(s, topLevel, i, q) => ReadChars(s, SkipWS(s, i), topLevel).next = 0

\* So it is where there is no blank.
LEMMA ReadsAtOnce ==
  ASSUME NEW s \in Text, NEW topLevel, NEW n \in Nat, n = Len(s), NEW i \in 1..(n + 1),
         Free(s, i), NEW q, Reaches(s, i, q), At(s, i) # Blank
  PROVE  SkipsAndReads(s, topLevel, i, q)
<1>1. SkipWS(s, i) = i
  <2>1. i \in i..(n + 1) /\ \A k \in i..(i - 1) : At(s, k) = Blank
    OBVIOUS
  <2> QED
    BY <2>1, SkipsTo
<1>2. ReadsRight(s, topLevel, i, q)
  BY ReadsPart
<1>3. ASSUME Readable(s, topLevel, i, q)
      PROVE  /\ ReadChars(s, i, topLevel).next = q
             /\ TrimRight(ReadChars(s, i, topLevel).text) = Trim(Unescaped(s, i, q))
  <2>1. PICK u : u = Unescaped(s, i, q)
    OBVIOUS
  <2>2. ReadChars(s, i, topLevel) = [text |-> u, next |-> q]
    BY <1>2, <1>3, <2>1 DEF ReadsRight
  <2>3. ReadChars(s, i, topLevel).text = u /\ ReadChars(s, i, topLevel).next = q
    BY <2>2, Parts, Zenon
  <2>4. u \in Seq(Alphabet) /\ At(u, 1) # Blank
    BY <2>3, ReadsFirst
  <2> QED
    BY <2>1, <2>3, <2>4, TrimLast
<1> QED
  BY <1>1, <1>2, <1>3 DEF SkipsAndReads, ReadsRight

\* So it is after blanks.
LEMMA ReadsLater ==
  ASSUME NEW s \in Text, NEW topLevel, NEW i \in 1..(Len(s) + 1),
         Free(s, i), NEW q, Reaches(s, i, q)
  PROVE  SkipsAndReads(s, topLevel, i, q)
<1>1. PICK n \in Nat : n = Len(s)
  BY Marks
<1>2. PICK D, w : D = 1..(n + 1) /\ w = [j \in D |-> n + 1 - j]
  BY Zenon
<1>3. PICK T : T = {j \in D : Free(s, j) /\ Reaches(s, j, q) => SkipsAndReads(s, topLevel, j, q)}
  BY Zenon
<1>4. ASSUME NEW j \in D, \A k \in D : w[k] < w[j] => k \in T,
             Free(s, j), Reaches(s, j, q)
      PROVE  SkipsAndReads(s, topLevel, j, q)
  <2>1. CASE At(s, j) # Blank
    BY <1>1, <1>2, <1>4, <2>1, ReadsAtOnce
  <2>2. CASE At(s, j) = Blank
    <3>1. j \in 1..n /\ s[j] = Blank
      <4>1. At(s, j) # "end"
        BY <2>2, Marks DEF White
      <4>2. j <= n /\ At(s, j) = s[j]
        BY <1>1, <1>2, <4>1, Onwards
      <4> QED
        BY <1>2, <2>2, <4>2
    <3>2. s[j] \notin Reserved
      BY <3>1, CharactersAssumption DEF White
    <3>3. q # j
      <4>1. q = n + 1 \/ q \in Bare(s, Separators)
        BY <1>1, <1>4 DEF Reaches
      <4>2. j \notin Bare(s, Separators)
        BY <1>1, <3>2, BareIs DEF Reserved
      <4> QED
        BY <3>1, <4>1, <4>2
    <3>4. /\ j + 1 \in 1..(n + 1) /\ j < j + 1 /\ q \in (j + 1)..(n + 1)
          /\ Free(s, j + 1) /\ Reaches(s, j + 1, q)
          /\ Readable(s, topLevel, j, q) <=> Readable(s, topLevel, j + 1, q)
          /\ Unescaped(s, j, q) = <<s[j]>> \o Unescaped(s, j + 1, q)
      BY <1>1, <1>4, <3>1, <3>2, <3>3, PlainStep, ZenonT(60)
    <3>5. SkipsAndReads(s, topLevel, j + 1, q)
      <4>1. j + 1 \in D /\ w[j + 1] < w[j]
        BY <1>2, <3>1, <3>4
      <4> QED
        BY <1>3, <1>4, <3>4, <4>1
    <3>6. SkipWS(s, j) = SkipWS(s, j + 1)
      <4>1. PICK p \in (j + 1)..(n + 1) : p = SkipWS(s, j + 1) /\ At(s, p) # Blank
        BY <1>1, <3>4, SkipsBlanks
      <4>2. \A k \in (j + 1)..(p - 1) : At(s, k) = Blank
        <5>1. PICK K : K = {k \in (j + 1)..(n + 1) : At(s, k) # Blank}
          BY Zenon
        <5>2. p = Min(K)
          BY <1>1, <4>1, <5>1 DEF SkipWS
        <5>3. \A k \in K : p <= k
          <6>1. K \subseteq Nat /\ p \in K
            BY <3>1, <4>1, <5>1
          <6>2. PICK x \in K : \A k \in K : x <= k
            BY <6>1, Least, Zenon
          <6>3. Min(K) = x
            <7>1. K \subseteq Int
              BY <6>1
            <7> QED
              BY <6>2, <7>1, MinIs, Zenon
          <6> QED
            BY <5>2, <6>2, <6>3
        <5>4. ASSUME NEW k \in (j + 1)..(p - 1) PROVE At(s, k) = Blank
          <6>1. k \in (j + 1)..(n + 1) /\ ~(p <= k)
            BY <4>1
          <6> QED
            BY <5>1, <5>3, <6>1
        <5> QED
          BY <5>4
      <4>3. ASSUME NEW k \in j..(p - 1) PROVE At(s, k) = Blank
        <5>1. k = j \/ k \in (j + 1)..(p - 1)
          BY <3>1, <4>1
        <5> QED
          BY <2>2, <4>2, <5>1
      <4>4. p \in j..(n + 1) /\ j \in 1..(n + 1)
        BY <3>1, <4>1
      <4>5. SkipWS(s, j) = p
        BY <1>1, <4>1, <4>3, <4>4, SkipsTo
      <4> QED
        BY <4>1, <4>5
    <3>7. Trim(Unescaped(s, j, q)) = Trim(Unescaped(s, j + 1, q))
      <4>1. PICK u \in Seq(Alphabet) : u = Unescaped(s, j + 1, q)
        BY <1>1, <3>4, UnescapedIs, Zenon
      <4> QED
        BY <3>1, <3>4, <4>1, TrimFirst
    <3> QED
      BY <3>4, <3>5, <3>6, <3>7 DEF SkipsAndReads
  <2> QED
    BY <2>1, <2>2
<1>5. D \subseteq T
  <2>1. \A j \in D : w[j] \in Nat
    BY <1>2
  <2>2. \A j \in D : (\A k \in D : w[k] < w[j] => k \in T) => j \in T
    BY <1>3, <1>4
  <2>3. Inherits(D, w, T)
    BY <2>1, <2>2 DEF Inherits
  <2> QED
    BY <2>3, Ranked
<1> QED
  BY <1>1, <1>2, <1>3, <1>5

----------------------------------------------------------------------------
(* From separator to separator.                                            *)

\* The beginning and the end are no separators, and what is one is no backslash.
LEMMA SeparatorIs ==
  ASSUME NEW s \in Text, NEW n \in Nat, n = Len(s)
  PROVE  /\ At(s, 0) = "end" /\ At(s, n + 1) = "end"
         /\ \A k \in Bare(s, Separators) :
              k \in 1..n /\ k \in 0..n /\ At(s, k) = s[k] /\ At(s, k) \in Separators
              /\ Free(s, k + 1)
         /\ \A k \in Bare(s, Separators) : k \notin Bare(s, {Backslash})
         /\ \A k, C : C \subseteq Separators
              => (k \in Bare(s, C) <=> k \in Bare(s, Separators) /\ At(s, k) \in C)
         /\ \A b \in Bare(s, {Backslash}) : b \in 1..n
<1>1. DOMAIN s = 1..n
  BY Marks
<1>2. Backslash \notin Separators
  BY DEF Backslash, Separators
<1>3. At(s, 0) = "end" /\ At(s, n + 1) = "end" /\ \A k \in 1..n : At(s, k) = s[k]
  <2>1. 0 \notin 1..n /\ n + 1 \notin 1..n
    OBVIOUS
  <2> QED
    BY <1>1, <2>1 DEF At
<1>4. \A k, C : k \in Bare(s, C) <=> k \in 1..n /\ k \notin Escaped(s) /\ s[k] \in C
  BY BareIs
<1>5. ASSUME NEW k \in Bare(s, Separators) PROVE Free(s, k + 1)
  <2>1. k \in 1..n /\ s[k] # Backslash /\ Free(s, k)
    BY <1>2, <1>4 DEF Free
  <2> QED
    BY <2>1, FreeIs
<1> QED
  BY <1>2, <1>3, <1>4, <1>5

\* The next separator after position i, or the end.
LEMMA NextIs ==
  ASSUME NEW s \in Text, NEW n \in Nat, n = Len(s), NEW i \in 0..n
  PROVE  /\ Cut(s, i) \in (i + 1)..(n + 1)
         /\ \/ Cut(s, i) = n + 1 /\ At(s, Cut(s, i)) = "end"
            \/ Cut(s, i) \in Bare(s, Separators) /\ Cut(s, i) \in 1..n
               /\ At(s, Cut(s, i)) \in Separators
         /\ \A k \in Bare(s, Separators) : k <= i \/ k >= Cut(s, i)
<1>1. Cut(s, i) \in (i + 1)..(n + 1) /\ Reaches(s, i + 1, Cut(s, i))
  BY CutIs
<1>2. \A k \in Bare(s, Separators) : k < i + 1 \/ k >= Cut(s, i)
  BY <1>1 DEF Reaches
<1>3. Cut(s, i) = n + 1 \/ Cut(s, i) \in Bare(s, Separators)
  BY <1>1 DEF Reaches
<1>4. /\ At(s, n + 1) = "end"
      /\ \A k \in Bare(s, Separators) : k \in 1..n /\ At(s, k) \in Separators
  BY SeparatorIs
<1>5. \A k \in Bare(s, Separators) : k <= i \/ k >= Cut(s, i)
  BY <1>2, <1>4
<1> QED
  BY <1>1, <1>3, <1>4, <1>5

\* The separators, and the beginning.
Starts(s) == {0} \cup Bare(s, Separators)

\* From each of them the part up to the next is read.
LEMMA PartIs ==
  ASSUME NEW s \in Text, NEW topLevel, NEW i \in Starts(s)
  PROVE  SkipsAndReads(s, topLevel, i + 1, Cut(s, i))
<1>1. PICK n \in Nat : n = Len(s)
  BY Marks
<1>2. i \in 0..n /\ Free(s, i + 1)
  <2>1. CASE i = 0
    <3>1. Free(s, 1) /\ 0 + 1 = 1 /\ 0 \in 0..n
      BY <1>1, FreeIs
    <3> QED
      BY <2>1, <3>1
  <2>2. CASE i \in Bare(s, Separators)
    BY <1>1, <2>2, SeparatorIs
  <2> QED
    BY <2>1, <2>2 DEF Starts
<1>3. Reaches(s, i + 1, Cut(s, i))
  BY <1>1, <1>2, CutIs
<1>4. i + 1 \in 1..(n + 1)
  BY <1>2
<1> QED
  BY <1>1, <1>2, <1>3, <1>4, ReadsLater

\* What is trimmed to nothing begins with a blank or is nothing.
LEMMA TrimsToNothing ==
  ASSUME NEW t \in Seq(Alphabet), At(t, 1) # Blank, TrimRight(t) = <<>>
  PROVE  t = <<>>
<1>1. PICK m \in Nat : m = Len(t) /\ DOMAIN t = 1..m
  <2>1. Len(t) \in Nat /\ DOMAIN t = 1..Len(t)
    OBVIOUS
  <2> QED
    BY <2>1, Zenon
<1>2. ASSUME m # 0 PROVE FALSE
  <2>1. PICK K : K = {i \in 1..m : t[i] # Blank}
    BY Zenon
  <2>2. 1 \in K /\ K \subseteq 0..m
    <3>1. 1 \in 1..m /\ At(t, 1) = t[1]
      BY <1>1, <1>2 DEF At
    <3> QED
      BY <2>1, <3>1
  <2>3. PICK x \in K : \A k \in K : k <= x
    BY <2>2, Greatest, Zenon
  <2>4. x \in 1..m /\ x \in 0..Len(t) /\ t[x] # Blank
    BY <1>1, <2>1
  <2>5. ASSUME NEW j \in (x + 1)..Len(t) PROVE t[j] = Blank
    <3>1. j \in 1..m /\ ~(j <= x)
      BY <1>1, <2>4
    <3> QED
      BY <2>1, <2>3, <3>1
  <2>6. TrimRight(t) = SubSeq(t, 1, x)
    BY <2>4, <2>5, TrimRightIs
  <2>7. Len(SubSeq(t, 1, x)) = x
    BY <1>1, <2>4, Beginnings
  <2> QED
    BY <2>4, <2>6, <2>7
<1> QED
  BY <1>1, <1>2

\* Where nothing is read reading has not gone on.
LEMMA ReadsNothing ==
  ASSUME NEW s \in Text, NEW topLevel, NEW n \in Nat, n = Len(s), NEW i \in 1..(n + 1),
         ReadChars(s, i, topLevel).text = <<>>
  PROVE  ReadChars(s, i, topLevel).next \in {0, i}
<1>1. \A c \in Alphabet, u \in Seq(Alphabet) : <<c>> \o u # <<>>
  BY InFrontAt
<1>2. \A k \in 1..n : At(s, k) = s[k] /\ s[k] \in Alphabet
  BY Marks DEF At
<1>3. \A k \in 1..(n + 1) : ReadChars(s, k, topLevel).text \in Seq(Alphabet)
  <2>1. \A k \in 1..(n + 1) : ReadChars(s, k, topLevel) \in ReadResult(s)
    BY ReadCharsAt, Zenon
  <2> QED
    BY <2>1 DEF ReadResult
<1>4. CASE i > n \/ At(s, i) \in Stops(topLevel)
  <2>1. ReadChars(s, i, topLevel) = [text |-> <<>>, next |-> i]
    BY <1>4, ReadsStop
  <2> QED
    BY <2>1
<1>5. CASE i \in 1..n /\ s[i] = Backslash /\ At(s, i + 1) \in Reserved
  <2>1. /\ i + 1 \in 1..n /\ i + 2 \in 1..(n + 1)
        /\ ReadChars(s, i, topLevel) = [text |-> <<s[i + 1]>> \o ReadChars(s, i + 2, topLevel).text,
                                        next |-> ReadChars(s, i + 2, topLevel).next]
    BY <1>5, ReadsReserved, Zenon
  <2>2. ReadChars(s, i, topLevel).text = <<s[i + 1]>> \o ReadChars(s, i + 2, topLevel).text
    <3>1. PICK t, k : t = <<s[i + 1]>> \o ReadChars(s, i + 2, topLevel).text
                      /\ k = ReadChars(s, i + 2, topLevel).next
      BY Zenon
    <3>2. ReadChars(s, i, topLevel) = [text |-> t, next |-> k]
      BY <2>1, <3>1, Zenon
    <3> QED
      BY <3>1, <3>2, Parts, Zenon
  <2> QED
    BY <1>1, <1>2, <1>3, <2>1, <2>2
<1>6. CASE i \in 1..n /\ s[i] \notin Reserved
  <2>1. /\ i + 1 \in 1..(n + 1)
        /\ ReadChars(s, i, topLevel) = [text |-> <<s[i]>> \o ReadChars(s, i + 1, topLevel).text,
                                        next |-> ReadChars(s, i + 1, topLevel).next]
    BY <1>6, ReadsPlain
  <2>2. ReadChars(s, i, topLevel).text = <<s[i]>> \o ReadChars(s, i + 1, topLevel).text
    <3>1. PICK t, k : t = <<s[i]>> \o ReadChars(s, i + 1, topLevel).text
                      /\ k = ReadChars(s, i + 1, topLevel).next
      BY Zenon
    <3>2. ReadChars(s, i, topLevel) = [text |-> t, next |-> k]
      BY <2>1, <3>1, Zenon
    <3> QED
      BY <3>1, <3>2, Parts, Zenon
  <2> QED
    BY <1>1, <1>2, <1>3, <1>6, <2>1, <2>2
<1>7. CASE i \in 1..n /\ s[i] \in Reserved \ Stops(topLevel)
            /\ ~(s[i] = Backslash /\ At(s, i + 1) \in Reserved)
  <2>1. ReadChars(s, i, topLevel) = [text |-> <<>>, next |-> 0]
    BY <1>7, ReadCharsAt, ZenonT(60)
  <2> QED
    BY <2>1
<1>8. i > n \/ i \in 1..n
  OBVIOUS
<1> QED
  BY <1>2, <1>4, <1>5, <1>6, <1>7, <1>8

\* A list is closed as soon as it is opened if there is nothing but blanks
\* between its parentheses.
LEMMA Closing ==
  ASSUME NEW s \in Text, NEW o \in Bare(s, Separators)
  PROVE  /\ At(s, SkipWS(s, o + 1)) = ")"
            => /\ SkipWS(s, o + 1) = Cut(s, o) /\ Readable(s, FALSE, o + 1, Cut(s, o))
               /\ Part(s, o) = <<>>
         /\ Readable(s, FALSE, o + 1, Cut(s, o)) /\ Part(s, o) = <<>>
            => SkipWS(s, o + 1) = Cut(s, o)
<1>0. PICK q, first : q = Cut(s, o) /\ first = SkipWS(s, o + 1)
  OBVIOUS
<1>1. PICK n \in Nat : n = Len(s)
  BY Marks
<1>2. o \in 1..n /\ o \in 0..n /\ o + 1 \in 1..(n + 1) /\ o \in Starts(s)
  BY <1>1, SeparatorIs DEF Starts
<1>3. first \in 1..(n + 1) /\ At(s, first) # Blank
  BY <1>0, <1>1, <1>2, SkipsBlanks
<1>4. PICK read : read = ReadChars(s, first, FALSE)
  BY Zenon
<1>5. /\ Readable(s, FALSE, o + 1, q) => read.next = q /\ TrimRight(read.text) = Part(s, o)
      /\ ~Readable(s, FALSE, o + 1, q) => read.next = 0
  <2>1. SkipsAndReads(s, FALSE, o + 1, q)
    BY <1>0, <1>2, PartIs, Zenon
  <2> QED
    BY <1>0, <1>4, <2>1, Zenon DEF SkipsAndReads, Part
<1>6. ASSUME At(s, first) = ")"
      PROVE  first = q /\ Readable(s, FALSE, o + 1, q) /\ Part(s, o) = <<>>
  <2>1. read = [text |-> <<>>, next |-> first]
    BY <1>1, <1>3, <1>4, <1>6, ReadsStop, Zenon DEF Stops
  <2>2. read.text = <<>> /\ read.next = first
    BY <2>1, Parts, Zenon
  <2>3. TrimRight(<<>>) = <<>>
    <3>1. PICK u \in Seq(Alphabet) : u = <<>>
      <4>1. <<>> \in Seq(Alphabet)
        OBVIOUS
      <4> QED
        BY <4>1, Zenon
    <3>2. 0 \in 0..Len(u) /\ \A j \in (0 + 1)..Len(u) : u[j] = Blank
      BY <3>1
    <3>3. TrimRight(u) = <<>>
      BY <3>2, TrimRightIs
    <3> QED
      BY <3>1, <3>3, Zenon
  <2>4. first # 0
    BY <1>3
  <2>5. Readable(s, FALSE, o + 1, q)
    BY <1>5, <2>2, <2>4, Zenon
  <2> QED
    BY <1>5, <2>2, <2>3, <2>5, Zenon
<1>7. ASSUME Readable(s, FALSE, o + 1, q), Part(s, o) = <<>> PROVE first = q
  <2>1. read.text \in Seq(Alphabet) /\ At(read.text, 1) # Blank
    BY <1>1, <1>3, <1>4, ReadsFirst, Zenon
  <2>2. read.text = <<>>
    BY <1>5, <1>7, <2>1, TrimsToNothing
  <2>3. read.next \in {0, first}
    BY <1>1, <1>3, <1>4, <2>2, ReadsNothing, Zenon
  <2>4. q # 0
    BY <1>0, <1>1, <1>2, NextIs
  <2> QED
    BY <1>5, <1>7, <2>3, <2>4
<1> QED
  BY <1>0, <1>6, <1>7, Zenon

----------------------------------------------------------------------------
(* Keys and their values.                                                  *)

\* After o a key, the sign "=" and a value can be read.
Complete(s, o) ==
  /\ Readable(s, FALSE, o + 1, Cut(s, o)) /\ Part(s, o) # <<>> /\ At(s, Cut(s, o)) = "="
  /\ Readable(s, FALSE, Cut(s, o) + 1, Cut(s, Cut(s, o)))

\* These are
PairFrom(s, o) == [key |-> Part(s, o), value |-> Part(s, Cut(s, o))]

\* what is read after a separator.
LEMMA ReadsComplete ==
  ASSUME NEW s \in Text, NEW o \in Bare(s, Separators)
  PROVE  /\ NoPair(s, o + 1) <=> ~Complete(s, o)
         /\ Complete(s, o) => /\ PairAt(s, o + 1) = PairFrom(s, o)
                              /\ ValueAt(s, o + 1).next = Cut(s, Cut(s, o))
<1>1. PICK n \in Nat : n = Len(s)
  BY Marks
<1>2. o \in 1..n /\ o \in 0..n /\ o \in Starts(s)
  BY <1>1, SeparatorIs DEF Starts
<1>3. PICK q : q = Cut(s, o)
  OBVIOUS
<1>4. q # 0 /\ At(s, q) = "=" => q \in Starts(s) /\ q \in 0..n
  <2>1. /\ q \in (o + 1)..(n + 1)
        /\ \/ q = n + 1 /\ At(s, q) = "end"
           \/ q \in Bare(s, Separators) /\ q \in 1..n /\ At(s, q) \in Separators
    BY <1>1, <1>2, <1>3, NextIs, Zenon
  <2> QED
    BY <1>2, <2>1 DEF Starts
<1>5. /\ Readable(s, FALSE, o + 1, q)
         => KeyAt(s, o + 1).next = q /\ TrimRight(KeyAt(s, o + 1).text) = Part(s, o)
      /\ ~Readable(s, FALSE, o + 1, q) => KeyAt(s, o + 1).next = 0
  <2>1. SkipsAndReads(s, FALSE, o + 1, q)
    BY <1>2, <1>3, PartIs, Zenon
  <2> QED
    BY <1>3, <2>1, Zenon DEF SkipsAndReads, Part, KeyAt
<1>6. PICK r : r = Cut(s, q)
  OBVIOUS
<1>7. ASSUME At(s, q) = "=", KeyAt(s, o + 1).next = q, q # 0
      PROVE  /\ Readable(s, FALSE, q + 1, r)
                => ValueAt(s, o + 1).next = r /\ TrimRight(ValueAt(s, o + 1).text) = Part(s, q)
             /\ ~Readable(s, FALSE, q + 1, r) => ValueAt(s, o + 1).next = 0
  <2>1. SkipsAndReads(s, FALSE, q + 1, r)
    BY <1>4, <1>6, <1>7, PartIs, Zenon
  <2>2. ValueAt(s, o + 1) = ReadChars(s, SkipWS(s, q + 1), FALSE)
    BY <1>7, Zenon DEF ValueAt
  <2> QED
    BY <1>6, <2>1, <2>2, Zenon DEF SkipsAndReads, Part
<1>8. q # 0
  BY <1>1, <1>2, <1>3, NextIs
<1>9. r # 0 \/ At(s, q) # "="
  <2>1. ASSUME At(s, q) = "=" PROVE r # 0
    <3>1. q \in 0..n
      BY <1>4, <1>8, <2>1
    <3>2. r \in (q + 1)..(n + 1)
      BY <1>1, <1>6, <3>1, NextIs
    <3> QED
      BY <3>1, <3>2
  <2> QED
    BY <2>1
<1>10. ASSUME Complete(s, o)
       PROVE  ~NoPair(s, o + 1) /\ PairAt(s, o + 1) = PairFrom(s, o) /\ ValueAt(s, o + 1).next = r
  <2>1. /\ Readable(s, FALSE, o + 1, q) /\ Part(s, o) # <<>> /\ At(s, q) = "="
        /\ Readable(s, FALSE, q + 1, r)
    BY <1>3, <1>6, <1>10, Zenon DEF Complete
  <2>2. KeyAt(s, o + 1).next = q /\ TrimRight(KeyAt(s, o + 1).text) = Part(s, o)
    BY <1>5, <2>1, Zenon
  <2>3. ValueAt(s, o + 1).next = r /\ TrimRight(ValueAt(s, o + 1).text) = Part(s, q)
    BY <1>7, <1>8, <2>1, <2>2, Zenon
  <2>4. ~NoPair(s, o + 1)
    BY <1>8, <1>9, <2>1, <2>2, <2>3, Zenon DEF NoPair
  <2>5. PairAt(s, o + 1) = PairFrom(s, o)
    BY <1>3, <2>2, <2>3, Zenon DEF PairAt, PairFrom
  <2> QED
    BY <2>3, <2>4, <2>5
<1>11. ASSUME ~NoPair(s, o + 1) PROVE Complete(s, o)
  <2>1. /\ KeyAt(s, o + 1).next # 0 /\ TrimRight(KeyAt(s, o + 1).text) # <<>>
        /\ At(s, KeyAt(s, o + 1).next) = "=" /\ ValueAt(s, o + 1).next # 0
    BY <1>11, Zenon DEF NoPair
  <2>2. Readable(s, FALSE, o + 1, q)
    BY <1>5, <2>1, Zenon
  <2>3. KeyAt(s, o + 1).next = q /\ Part(s, o) # <<>> /\ At(s, q) = "="
    BY <1>5, <2>1, <2>2, Zenon
  <2>4. Readable(s, FALSE, q + 1, r)
    BY <1>7, <1>8, <2>1, <2>3, Zenon
  <2> QED
    BY <1>3, <1>6, <2>2, <2>3, <2>4, Zenon DEF Complete
<1> QED
  BY <1>3, <1>6, <1>10, <1>11, Zenon

----------------------------------------------------------------------------
(* Well-formed lists.                                                      *)

\* What may come after each separator, and at the beginning.
LEMMA SequelsAre ==
  ASSUME NEW x
  PROVE  /\ <<"end", x>> \in Sequels <=> x = "(" \/ x = "end"
         /\ <<"(", x>> \in Sequels <=> x = "=" \/ x = ")"
         /\ <<"=", x>> \in Sequels <=> x = "," \/ x = ")"
         /\ <<",", x>> \in Sequels <=> x = "="
         /\ <<")", x>> \in Sequels <=> x = "end"
         /\ <<x, "=">> \in Sequels <=> x \in {"(", ","}
BY DEF Sequels

\* What opens a key, and what ends a value.
Openers == {"(", ","}
Closers == {",", ")"}

\* From the separator o on the text is well-formed, and a key comes next.
EscapesFrom(s, o) == \A b \in Bare(s, {Backslash}) : b > o => At(s, b + 1) \in Reserved
OrderFrom(s, o) ==
  \A k \in Bare(s, Separators) : k >= o => <<At(s, k), At(s, Cut(s, k))>> \in Sequels
EndsFrom(s, o) == \A k \in Bare(s, {")"}) : k >= o => k = Len(s)
KeysFrom(s, o) ==
  \A k \in Bare(s, Openers) : k >= o => (k \in Opening(s) <=> Part(s, k) # <<>>)
GoodFrom(s, o) ==
  EscapesFrom(s, o) /\ OrderFrom(s, o) /\ EndsFrom(s, o) /\ KeysFrom(s, o) /\ Part(s, o) # <<>>

\* r follows the sign q that follows the separator o, and there are no other
\* separators in between.
InRow(s, o, q, r) ==
  /\ o \in Bare(s, Openers) /\ q = Cut(s, o) /\ r = Cut(s, q)
  /\ q \in Bare(s, Separators) /\ At(s, q) = "=" /\ r \in Bare(s, Closers)
  /\ o \in 1..Len(s) /\ q \in 1..Len(s) /\ r \in 1..Len(s) /\ o < q /\ q < r
  /\ \A k \in Bare(s, Separators) : k >= o => k = o \/ k = q \/ k >= r
  /\ \A k : k \in Opening(s) /\ k >= o => k = o \/ k >= r
  /\ o \in Opening(s)

\* Of three positions, with no others in between.
LEMMA InOrder ==
  ASSUME NEW o \in Int, NEW q \in Int, NEW r \in Int, o < q, q < r,
         NEW K, \A k \in K : k \in Int /\ (k <= o \/ k >= q) /\ (k <= q \/ k >= r)
  PROVE  \A k \in K : k >= o => k = o \/ k = q \/ k >= r
<1>1. ASSUME NEW k \in K, k >= o PROVE k = o \/ k = q \/ k >= r
  <2>1. k \in Int /\ (k <= o \/ k >= q) /\ (k <= q \/ k >= r)
    OBVIOUS
  <2> QED
    BY <1>1, <2>1
<1> QED
  BY <1>1

\* A key, the sign and a value, followed by one of these.
Lined(s, o, q, r) ==
  /\ o \in Bare(s, Openers) /\ q = Cut(s, o) /\ r = Cut(s, q)
  /\ At(s, q) = "=" /\ At(s, r) \in Closers

\* So they are in a row.
LEMMA Rows ==
  ASSUME NEW s \in Text, NEW n \in Nat, n = Len(s),
         NEW o, NEW q, NEW r, Lined(s, o, q, r)
  PROVE  InRow(s, o, q, r)
<1>1. /\ o \in Bare(s, Openers) /\ q = Cut(s, o) /\ r = Cut(s, q)
      /\ At(s, q) = "=" /\ At(s, r) \in Closers
  BY DEF Lined
<1>2. /\ \A k \in Bare(s, Separators) : k \in 1..n /\ k \in 0..n /\ At(s, k) \in Separators
      /\ \A k, C : C \subseteq Separators
           => (k \in Bare(s, C) <=> k \in Bare(s, Separators) /\ At(s, k) \in C)
  BY SeparatorIs
<1>3. o \in Bare(s, Separators) /\ o \in 1..n
  <2>1. Openers \subseteq Separators
    BY DEF Separators, Openers, Closers
  <2> QED
    BY <1>1, <1>2, <2>1
<1>4. /\ q \in (o + 1)..(n + 1) /\ q \in Bare(s, Separators) /\ q \in 1..n
      /\ \A k \in Bare(s, Separators) : k <= o \/ k >= q
  <2>1. o \in 0..n
    BY <1>2, <1>3, Zenon
  <2> QED
    BY <1>1, <2>1, NextIs
<1>5. /\ r \in (q + 1)..(n + 1) /\ r \in Bare(s, Separators) /\ r \in 1..n
      /\ \A k \in Bare(s, Separators) : k <= q \/ k >= r
  <2>1. q \in 0..n
    BY <1>2, <1>4, Zenon
  <2>2. At(s, r) # "end"
    BY <1>1, Zenon DEF Closers
  <2> QED
    BY <1>1, <2>1, <2>2, NextIs, Zenon
<1>6. r \in Bare(s, Closers)
  <2>1. Closers \subseteq Separators
    BY DEF Separators, Openers, Closers
  <2> QED
    BY <1>1, <1>2, <1>5, <2>1
<1>7. o < q /\ q < r /\ \A k \in Bare(s, Separators) : k >= o => k = o \/ k = q \/ k >= r
  <2>1. PICK K : K = Bare(s, Separators)
    OBVIOUS
  <2>2. \A k \in K : (k <= o \/ k >= q) /\ (k <= q \/ k >= r)
    BY <1>4, <1>5, <2>1, Zenon
  <2>3. \A k \in K : k \in Int
    BY <1>2, <2>1
  <2>4. o \in Int /\ q \in Int /\ r \in Int /\ o < q /\ q < r
    <3>1. o \in 1..n /\ q \in (o + 1)..(n + 1) /\ r \in (q + 1)..(n + 1)
      BY <1>3, <1>4, <1>5, Zenon
    <3> QED
      BY <3>1
  <2>5. \A k \in K : k >= o => k = o \/ k = q \/ k >= r
    BY <2>2, <2>3, <2>4, InOrder, Zenon
  <2> QED
    BY <2>1, <2>4, <2>5, Zenon
<1>8. ASSUME NEW k, k \in Opening(s), k >= o PROVE k = o \/ k >= r
  <2>1. k \in Bare(s, Separators) /\ At(s, Cut(s, k)) = "="
    BY <1>8 DEF Opening
  <2>2. k # q
    BY <1>1, <2>1, Zenon DEF Closers
  <2> QED
    BY <1>7, <1>8, <2>1, <2>2
<1>9. o \in Opening(s)
  BY <1>1, <1>3 DEF Opening
<1> QED
  BY <1>1, <1>3, <1>4, <1>5, <1>6, <1>7, <1>8, <1>9 DEF InRow

\* What is well-formed up to r and from there on is so from o on.
LEMMA GoodBackwards ==
  ASSUME NEW s \in Text, NEW o, NEW q, NEW r, InRow(s, o, q, r), Complete(s, o),
         EscapesFrom(s, r), OrderFrom(s, r), EndsFrom(s, r), KeysFrom(s, r)
  PROVE  GoodFrom(s, o)
<1>1. PICK n \in Nat : n = Len(s)
  BY Marks
<1>2. /\ o \in Bare(s, Openers) /\ q = Cut(s, o) /\ r = Cut(s, q)
      /\ q \in Bare(s, Separators) /\ At(s, q) = "=" /\ r \in Bare(s, Closers)
      /\ o \in 1..n /\ q \in 1..n /\ r \in 1..n /\ o < q /\ q < r
      /\ \A k \in Bare(s, Separators) : k >= o => k = o \/ k = q \/ k >= r
      /\ o \in Opening(s)
  BY <1>1 DEF InRow
<1>3. /\ \A k \in Bare(s, Separators) : k \notin Bare(s, {Backslash})
      /\ \A k, C : C \subseteq Separators
           => (k \in Bare(s, C) <=> k \in Bare(s, Separators) /\ At(s, k) \in C)
      /\ \A b \in Bare(s, {Backslash}) : b \in 1..n
  BY <1>1, SeparatorIs, Zenon
<1>4. /\ Openers \subseteq Separators /\ Closers \subseteq Separators
      /\ {")"} \subseteq Separators
  BY DEF Separators, Openers, Closers
<1>5. o \in Bare(s, Separators) /\ At(s, o) \in Openers
  BY <1>2, <1>3, <1>4
<1>6. r \in Bare(s, Separators) /\ At(s, r) \in Closers
  BY <1>2, <1>3, <1>4
<1>7. EscapesFrom(s, o)
  <2>1. ASSUME NEW b \in Bare(s, {Backslash}), b > o PROVE At(s, b + 1) \in Reserved
    <3>1. /\ b < o + 1 \/ b >= q \/ At(s, b + 1) \in Reserved
          /\ b < q + 1 \/ b >= r \/ At(s, b + 1) \in Reserved
      BY <1>2, Zenon DEF Complete, Readable
    <3>2. b \in 1..n /\ b # q /\ b # r
      BY <1>2, <1>3, <1>6, Zenon
    <3>3. b > r => At(s, b + 1) \in Reserved
      BY DEF EscapesFrom
    <3>4. o \in Int /\ q \in Int /\ r \in Int /\ b \in Int /\ o < q /\ q < r
      <4>1. o \in 1..n /\ q \in 1..n /\ r \in 1..n /\ o < q /\ q < r
        BY <1>2, Zenon
      <4> QED
        BY <3>2, <4>1
    <3>5. ~(b < o + 1 \/ b >= q) \/ ~(b < q + 1 \/ b >= r) \/ b > r
      BY <2>1, <3>2, <3>4
    <3> QED
      BY <3>1, <3>3, <3>5, Zenon
  <2> QED
    BY <2>1 DEF EscapesFrom
<1>8. OrderFrom(s, o)
  <2>1. <<At(s, o), At(s, Cut(s, o))>> \in Sequels
    BY <1>2, <1>5, SequelsAre, Zenon DEF Openers
  <2>2. <<At(s, q), At(s, Cut(s, q))>> \in Sequels
    BY <1>2, <1>6, SequelsAre, Zenon DEF Closers
  <2> QED
    BY <1>2, <2>1, <2>2 DEF OrderFrom
<1>9. EndsFrom(s, o)
  <2>1. ASSUME NEW k \in Bare(s, {")"}), k >= o PROVE k = Len(s)
    <3>1. k \in Bare(s, Separators) /\ At(s, k) = ")"
      <4>1. k \in Bare(s, Separators) /\ At(s, k) \in {")"}
        BY <1>3, <1>4, Zenon
      <4> QED
        BY <4>1
    <3>2. k # o /\ k # q
      BY <1>2, <1>5, <3>1, Zenon DEF Openers
    <3>3. k >= r
      BY <1>2, <2>1, <3>1, <3>2
    <3> QED
      BY <3>3 DEF EndsFrom
  <2> QED
    BY <2>1 DEF EndsFrom
<1>10. KeysFrom(s, o)
  <2>1. ASSUME NEW k \in Bare(s, Openers), k >= o
        PROVE  k \in Opening(s) <=> Part(s, k) # <<>>
    <3>1. k \in Bare(s, Separators) /\ At(s, k) \in Openers
      BY <1>3, <1>4
    <3>2. k # q
      BY <1>2, <3>1, Zenon DEF Openers
    <3>3. CASE k = o
      BY <1>2, <3>3, Zenon DEF Complete
    <3>4. CASE k >= r
      BY <3>4 DEF KeysFrom
    <3> QED
      BY <1>2, <2>1, <3>1, <3>2, <3>3, <3>4
  <2> QED
    BY <2>1 DEF KeysFrom
<1>11. Part(s, o) # <<>>
  BY DEF Complete
<1> QED
  BY <1>7, <1>8, <1>9, <1>10, <1>11 DEF GoodFrom

\* A list goes on, well-formed, at r, or ends there.
GoesOn(s, r) == \/ At(s, r) = "," /\ GoodFrom(s, r)
                \/ At(s, r) = ")" /\ r = Len(s)

\* It is well-formed from o on if there are a key and its value and it goes on.
LEMMA GoodIs ==
  ASSUME NEW s \in Text, NEW o \in Bare(s, Openers)
  PROVE  /\ GoodFrom(s, o) <=> Complete(s, o) /\ GoesOn(s, Cut(s, Cut(s, o)))
         /\ GoodFrom(s, o) => InRow(s, o, Cut(s, o), Cut(s, Cut(s, o)))
<1>0. PICK q, r : q = Cut(s, o) /\ r = Cut(s, q)
  OBVIOUS
<1>1. PICK n \in Nat : n = Len(s)
  BY Marks
<1>2. /\ \A k \in Bare(s, Separators) : k \in 1..n /\ At(s, k) = s[k] /\ At(s, k) \in Separators
      /\ \A k, C : C \subseteq Separators
           => (k \in Bare(s, C) <=> k \in Bare(s, Separators) /\ At(s, k) \in C)
      /\ \A b \in Bare(s, {Backslash}) : b \in 1..n
  BY <1>1, SeparatorIs, Zenon
<1>3. /\ Openers \subseteq Separators /\ {","} \subseteq Separators
      /\ {")"} \subseteq Separators
  BY Zenon DEF Separators, Openers, Closers
<1>4. o \in Bare(s, Separators) /\ At(s, o) \in Openers /\ o \in 1..n
  BY <1>2, <1>3, Zenon
<1>5. ASSUME GoodFrom(s, o) PROVE Complete(s, o) /\ GoesOn(s, r) /\ InRow(s, o, q, r)
  <2>1. /\ EscapesFrom(s, o) /\ OrderFrom(s, o) /\ EndsFrom(s, o) /\ KeysFrom(s, o)
        /\ Part(s, o) # <<>>
    BY <1>5 DEF GoodFrom
  <2>2. o >= o
    BY <1>4
  <2>3. At(s, q) = "="
    <3>1. o \in Opening(s)
      BY <2>1, <2>2, Zenon DEF KeysFrom
    <3> QED
      BY <1>0, <3>1 DEF Opening
  <2>4. q \in Bare(s, Separators) /\ q \in 1..n /\ q > o
    <3>1. o \in 0..n
      BY <1>4
    <3>2. q \in (o + 1)..(n + 1) /\ (q \in Bare(s, Separators) \/ At(s, q) = "end")
      BY <1>0, <1>1, <3>1, NextIs
    <3> QED
      BY <1>2, <1>4, <2>3, <3>2
  <2>5. At(s, r) \in Closers
    <3>1. q >= o
      BY <1>4, <2>4
    <3>2. <<At(s, q), At(s, r)>> \in Sequels
      BY <1>0, <2>1, <2>4, <3>1, Zenon DEF OrderFrom
    <3> QED
      BY <2>3, <3>2, SequelsAre, Zenon DEF Closers
  <2>6. InRow(s, o, q, r)
    BY <1>0, <1>1, <2>3, <2>5, Rows, Zenon DEF Lined, Closers
  <2>7. /\ r \in 1..n /\ q < r /\ o < q /\ r > o /\ r >= o /\ r \in Bare(s, Separators)
    <3>1. /\ r \in 1..n /\ q < r /\ o < q /\ r \in Bare(s, Closers)
      BY <1>1, <2>6 DEF InRow
    <3>2. Closers \subseteq Separators
      BY Zenon DEF Separators, Openers, Closers
    <3> QED
      BY <1>2, <1>4, <2>4, <3>1, <3>2
  <2>8. Complete(s, o)
    <3>1. s[q] \in Stops(FALSE) /\ s[r] \in Stops(FALSE)
      BY <1>2, <2>3, <2>4, <2>5, <2>7, Zenon DEF Stops, Closers
    <3>2. ASSUME NEW b \in Bare(s, {Backslash})
          PROVE  /\ b < o + 1 \/ b >= q \/ At(s, b + 1) \in Reserved
                 /\ b < q + 1 \/ b >= r \/ At(s, b + 1) \in Reserved
      <4>1. b \in 1..n
        BY <1>2
      <4>2. b > o => At(s, b + 1) \in Reserved
        BY <2>1, Zenon DEF EscapesFrom
      <4> QED
        BY <1>4, <2>4, <4>1, <4>2
    <3>3. Readable(s, FALSE, o + 1, q) /\ Readable(s, FALSE, q + 1, r)
      BY <3>1, <3>2, Zenon DEF Readable
    <3> QED
      BY <1>0, <2>1, <2>3, <3>3, Zenon DEF Complete
  <2>9. CASE At(s, r) = ","
    <3>1. r \in Bare(s, Openers)
      BY <1>2, <1>3, <2>7, <2>9, Zenon DEF Openers
    <3>2. r \in Opening(s)
      <4>1. <<At(s, r), At(s, Cut(s, r))>> \in Sequels
        BY <2>1, <2>7, Zenon DEF OrderFrom
      <4>2. At(s, Cut(s, r)) = "="
        BY <2>9, <4>1, SequelsAre, Zenon
      <4> QED
        BY <2>7, <4>2 DEF Opening
    <3>3. Part(s, r) # <<>>
      BY <2>1, <2>7, <3>1, <3>2, Zenon DEF KeysFrom
    <3>4. \A k \in Bare(s, Separators) : k >= r => k >= o
      BY <1>2, <1>4, <2>7
    <3>5. EscapesFrom(s, r)
      <4>1. \A b \in Bare(s, {Backslash}) : b > r => b > o
        BY <1>2, <1>4, <2>7
      <4> QED
        BY <2>1, <4>1, Zenon DEF EscapesFrom
    <3>6. OrderFrom(s, r)
      BY <2>1, <3>4, Zenon DEF OrderFrom
    <3>7. EndsFrom(s, r)
      BY <1>2, <1>3, <2>1, <3>4, Zenon DEF EndsFrom
    <3>8. KeysFrom(s, r)
      BY <1>2, <1>3, <2>1, <3>4, Zenon DEF KeysFrom
    <3>9. GoodFrom(s, r)
      BY <3>3, <3>5, <3>6, <3>7, <3>8 DEF GoodFrom
    <3> QED
      BY <2>6, <2>8, <2>9, <3>9, Zenon DEF GoesOn
  <2>10. CASE At(s, r) = ")"
    <3>1. r \in Bare(s, {")"})
      BY <1>2, <1>3, <2>7, <2>10, Zenon
    <3>2. r = Len(s)
      BY <2>1, <2>7, <3>1, Zenon DEF EndsFrom
    <3> QED
      BY <2>6, <2>8, <2>10, <3>2 DEF GoesOn
  <2> QED
    BY <2>5, <2>9, <2>10, Zenon DEF Closers
<1>6. ASSUME Complete(s, o), GoesOn(s, r) PROVE GoodFrom(s, o)
  <2>1. InRow(s, o, q, r)
    <3>1. At(s, q) = "=" /\ At(s, r) \in Closers
      BY <1>0, <1>6, Zenon DEF Complete, GoesOn, Closers
    <3> QED
      BY <1>0, <1>1, <3>1, Rows DEF Lined
  <2>2. CASE At(s, r) = "," /\ GoodFrom(s, r)
    <3>1. EscapesFrom(s, r) /\ OrderFrom(s, r) /\ EndsFrom(s, r) /\ KeysFrom(s, r)
      BY <2>2, Zenon DEF GoodFrom
    <3> QED
      BY <1>6, <2>1, <3>1, GoodBackwards
  <2>3. CASE At(s, r) = ")" /\ r = Len(s)
    <3>1. \A k \in Bare(s, Separators) : k >= r => k = r
      BY <1>1, <1>2, <2>3
    <3>2. EscapesFrom(s, r)
      <4>1. \A b \in Bare(s, {Backslash}) : ~(b > r)
        BY <1>1, <1>2, <2>3
      <4> QED
        BY <4>1 DEF EscapesFrom
    <3>3. OrderFrom(s, r)
      <4>1. r \in 0..n /\ Cut(s, r) \in (r + 1)..(n + 1)
        <5>1. r \in 0..n
          BY <1>1, <2>3
        <5> QED
          BY <1>1, <5>1, NextIs
      <4>2. At(s, Cut(s, r)) = "end"
        <5>1. Cut(s, r) = n + 1
          BY <1>1, <2>3, <4>1
        <5> QED
          BY <1>1, <5>1, SeparatorIs
      <4>3. <<At(s, r), At(s, Cut(s, r))>> \in Sequels
        BY <2>3, <4>2, SequelsAre, Zenon
      <4> QED
        BY <3>1, <4>3, Zenon DEF OrderFrom
    <3>4. EndsFrom(s, r)
      BY <1>2, <1>3, <2>3, <3>1, Zenon DEF EndsFrom
    <3>5. KeysFrom(s, r)
      <4>1. ASSUME NEW k \in Bare(s, Openers), k >= r PROVE FALSE
        <5>1. k \in Bare(s, Separators) /\ At(s, k) \in Openers
          BY <1>2, <1>3, Zenon
        <5>2. k = r
          BY <3>1, <4>1, <5>1
        <5> QED
          BY <2>3, <5>1, <5>2, Zenon DEF Openers
      <4> QED
        BY <4>1 DEF KeysFrom
    <3> QED
      BY <1>6, <2>1, <3>2, <3>3, <3>4, <3>5, GoodBackwards
  <2> QED
    BY <1>6, <2>2, <2>3, Zenon DEF GoesOn
<1> QED
  BY <1>0, <1>5, <1>6, Zenon

----------------------------------------------------------------------------
(* The list of parameters.                                                 *)

\* The pairs in a list of one, and in a list with one more in front, and which
\* of them have the same key.
LEMMA MorePairs ==
  ASSUME NEW p \in PairType, NEW ps \in Seq(PairType)
  PROVE  /\ ToSet(<<p>>) = {p} /\ ~Repeated(<<p>>)
         /\ ToSet(<<p>> \o ps) = {p} \cup ToSet(ps)
         /\ Repeated(<<p>> \o ps) <=> (\E x \in ToSet(ps) : x.key = p.key) \/ Repeated(ps)
<1>1. PICK n \in Nat : n = Len(ps) /\ DOMAIN ps = 1..n
  <2>1. Len(ps) \in Nat /\ DOMAIN ps = 1..Len(ps)
    OBVIOUS
  <2> QED
    BY <2>1, Zenon
<1>2. PICK all : all = <<p>> \o ps
  BY Zenon
<1>3. /\ all \in Seq(PairType) /\ Len(all) = n + 1 /\ all[1] = p
      /\ \A j \in 1..n : all[j + 1] = ps[j]
  BY <1>1, <1>2, InFrontAt
<1>4. DOMAIN all = 1..(n + 1)
  BY <1>3
<1>5. ToSet(<<p>>) = {p} /\ ~Repeated(<<p>>)
  <2>1. DOMAIN <<p>> = {1} /\ <<p>>[1] = p
    OBVIOUS
  <2>2. \A i, j \in {1} : ~(i < j)
    OBVIOUS
  <2> QED
    BY <2>1, <2>2 DEF ToSet, Repeated
<1>6. \A j \in 1..(n + 1) : j = 1 \/ \E i \in 1..n : j = i + 1
  <2>1. ASSUME NEW j \in 1..(n + 1), j # 1 PROVE \E i \in 1..n : j = i + 1
    <3>1. j - 1 \in 1..n /\ j = j - 1 + 1
      BY <2>1
    <3> QED
      BY <3>1
  <2> QED
    BY <2>1
<1>7. 1 \in 1..(n + 1) /\ \A j \in 1..n : j + 1 \in 1..(n + 1) /\ 1 < j + 1
  OBVIOUS
<1>8. ToSet(all) = {p} \cup ToSet(ps)
  <2>1. ASSUME NEW x \in ToSet(all) PROVE x \in {p} \cup ToSet(ps)
    <3>1. PICK j \in 1..(n + 1) : x = all[j]
      BY <1>4 DEF ToSet
    <3>2. CASE j = 1
      BY <1>3, <3>1, <3>2
    <3>3. CASE \E i \in 1..n : j = i + 1
      <4>1. PICK i \in 1..n : j = i + 1
        BY <3>3
      <4>2. x = ps[i]
        BY <1>3, <3>1, <4>1, Zenon
      <4> QED
        BY <1>1, <4>2 DEF ToSet
    <3> QED
      BY <1>6, <3>2, <3>3
  <2>2. ASSUME NEW x \in ToSet(ps) PROVE x \in ToSet(all)
    <3>1. PICK i \in 1..n : x = ps[i]
      BY <1>1 DEF ToSet
    <3>2. x = all[i + 1] /\ i + 1 \in DOMAIN all
      BY <1>3, <1>4, <1>7, <3>1, Zenon
    <3> QED
      BY <3>2 DEF ToSet
  <2>3. p \in ToSet(all)
    BY <1>3, <1>4, <1>7 DEF ToSet
  <2> QED
    BY <2>1, <2>2, <2>3
<1>9. ASSUME Repeated(all) PROVE (\E x \in ToSet(ps) : x.key = p.key) \/ Repeated(ps)
  <2>1. PICK i \in 1..(n + 1), j \in 1..(n + 1) : i < j /\ all[i].key = all[j].key
    BY <1>4, <1>9 DEF Repeated
  <2>2. j # 1
    BY <2>1
  <2>3. PICK l \in 1..n : j = l + 1
    BY <1>6, <2>2, Zenon
  <2>4. all[j] = ps[l]
    BY <1>3, <2>3, Zenon
  <2>5. CASE i = 1
    <3>1. ps[l].key = p.key /\ ps[l] \in ToSet(ps)
      BY <1>1, <1>3, <2>1, <2>4, <2>5, Zenon DEF ToSet
    <3> QED
      BY <3>1, Zenon
  <2>6. CASE i # 1
    <3>1. PICK k \in 1..n : i = k + 1
      BY <1>6, <2>6, Zenon
    <3>2. all[i] = ps[k]
      BY <1>3, <3>1, Zenon
    <3>3. k < l
      BY <2>1, <2>3, <3>1
    <3>4. ps[k].key = ps[l].key
      BY <2>1, <2>4, <3>2, Zenon
    <3> QED
      BY <1>1, <3>3, <3>4, Zenon DEF Repeated
  <2> QED
    BY <2>5, <2>6
<1>10. ASSUME \E x \in ToSet(ps) : x.key = p.key PROVE Repeated(all)
  <2>1. PICK x \in ToSet(ps) : x.key = p.key
    BY <1>10
  <2>2. PICK l \in 1..n : x = ps[l]
    BY <1>1 DEF ToSet
  <2>3. all[1].key = all[l + 1].key
    BY <1>3, <2>1, <2>2, Zenon
  <2> QED
    BY <1>4, <1>7, <2>3, Zenon DEF Repeated
<1>11. ASSUME Repeated(ps) PROVE Repeated(all)
  <2>1. PICK k \in 1..n, l \in 1..n : k < l /\ ps[k].key = ps[l].key
    BY <1>1, <1>11 DEF Repeated
  <2>2. k + 1 < l + 1
    BY <2>1
  <2>3. all[k + 1].key = all[l + 1].key
    BY <1>3, <2>1, Zenon
  <2> QED
    BY <1>4, <1>7, <2>2, <2>3, Zenon DEF Repeated
<1> QED
  BY <1>2, <1>5, <1>8, <1>9, <1>10, <1>11, Zenon

\* Two of the separators in O open the same key.
Ambiguous(s, O) == \E i, j \in O : i # j /\ Part(s, i) = Part(s, j)

\* The pairs ps are those that the separators in O open.
Tells(s, O, ps) ==
  /\ ps \in Seq(PairType) /\ ToSet(ps) = {PairFrom(s, k) : k \in O}
  /\ Repeated(ps) <=> Ambiguous(s, O)

\* So it is of one separator, and of one more.
LEMMA Told ==
  ASSUME NEW s, NEW o, PairFrom(s, o) \in PairType
  PROVE  /\ Tells(s, {o}, <<PairFrom(s, o)>>)
         /\ \A O, ps : Tells(s, O, ps) /\ o \notin O => Tells(s, {o} \cup O, <<PairFrom(s, o)>> \o ps)
<1>1. PICK p \in PairType : p = PairFrom(s, o)
  OBVIOUS
<1>2. \A k : PairFrom(s, k).key = Part(s, k)
  BY DEF PairFrom
<1>3. Tells(s, {o}, <<p>>)
  <2>1. <<p>> \in Seq(PairType) /\ <<>> \in Seq(PairType)
    OBVIOUS
  <2>2. ToSet(<<p>>) = {p} /\ ~Repeated(<<p>>)
    BY <2>1, MorePairs, Zenon
  <2>3. ~Ambiguous(s, {o})
    BY DEF Ambiguous
  <2>4. {PairFrom(s, k) : k \in {o}} = {p}
    BY <1>1
  <2> QED
    BY <2>1, <2>2, <2>3, <2>4, Zenon DEF Tells
<1>4. ASSUME NEW O, NEW ps, Tells(s, O, ps), o \notin O
      PROVE  Tells(s, {o} \cup O, <<p>> \o ps)
  <2>1. /\ ps \in Seq(PairType) /\ ToSet(ps) = {PairFrom(s, k) : k \in O}
        /\ Repeated(ps) <=> Ambiguous(s, O)
    BY <1>4 DEF Tells
  <2>2. PICK all : all = <<p>> \o ps
    BY Zenon
  <2>3. all \in Seq(PairType)
    BY <2>1, <2>2, InFrontAt
  <2>4. /\ ToSet(all) = {p} \cup ToSet(ps)
        /\ Repeated(all) <=> (\E x \in ToSet(ps) : x.key = p.key) \/ Repeated(ps)
    BY <2>1, <2>2, MorePairs, Zenon
  <2>5. ToSet(all) = {PairFrom(s, k) : k \in {o} \cup O}
    <3>1. {PairFrom(s, k) : k \in {o} \cup O} = {PairFrom(s, o)} \cup {PairFrom(s, k) : k \in O}
      OBVIOUS
    <3> QED
      BY <1>1, <2>1, <2>4, <3>1, Zenon
  <2>6. (\E x \in ToSet(ps) : x.key = p.key) <=> \E j \in O : Part(s, j) = Part(s, o)
    <3>1. p.key = Part(s, o)
      BY <1>1, <1>2, Zenon
    <3>2. \A x : x \in ToSet(ps) <=> \E k \in O : x = PairFrom(s, k)
      BY <2>1
    <3>3. ASSUME NEW x \in ToSet(ps), x.key = p.key PROVE \E j \in O : Part(s, j) = Part(s, o)
      <4>1. PICK k \in O : x = PairFrom(s, k)
        BY <3>2
      <4>2. Part(s, k) = Part(s, o)
        BY <1>2, <3>1, <3>3, <4>1
      <4> QED
        BY <4>2
    <3>4. ASSUME NEW j \in O, Part(s, j) = Part(s, o) PROVE \E x \in ToSet(ps) : x.key = p.key
      <4>1. PICK x : x = PairFrom(s, j)
        OBVIOUS
      <4>2. x \in ToSet(ps)
        BY <3>2, <4>1
      <4>3. x.key = p.key
        BY <1>2, <3>1, <3>4, <4>1
      <4> QED
        BY <4>2, <4>3
    <3> QED
      BY <3>3, <3>4
  <2>7. Ambiguous(s, {o} \cup O) <=> (\E j \in O : Part(s, j) = Part(s, o)) \/ Ambiguous(s, O)
    <3>1. ASSUME Ambiguous(s, {o} \cup O)
          PROVE  (\E j \in O : Part(s, j) = Part(s, o)) \/ Ambiguous(s, O)
      <4>1. PICK i \in {o} \cup O, j \in {o} \cup O : i # j /\ Part(s, i) = Part(s, j)
        BY <3>1 DEF Ambiguous
      <4> QED
        BY <4>1 DEF Ambiguous
    <3>2. ASSUME NEW j \in O, Part(s, j) = Part(s, o) PROVE Ambiguous(s, {o} \cup O)
      <4>1. j # o
        BY <1>4
      <4> QED
        BY <3>2, <4>1 DEF Ambiguous
    <3>3. Ambiguous(s, O) => Ambiguous(s, {o} \cup O)
      BY DEF Ambiguous
    <3> QED
      BY <3>1, <3>2, <3>3, Zenon
  <2> QED
    BY <2>1, <2>2, <2>3, <2>4, <2>5, <2>6, <2>7, Zenon DEF Tells
<1> QED
  BY <1>1, <1>3, <1>4, Zenon

\* The separators that open a key from o on.
OpeningFrom(s, o) == {k \in Opening(s) : k >= o}

\* The list is closed if it is well-formed, and then its pairs are those.
ReadsGood(s, o) ==
  /\ ReadParams(s, o + 1).closed <=> GoodFrom(s, o)
  /\ GoodFrom(s, o) => Tells(s, OpeningFrom(s, o), ReadParams(s, o + 1).pairs)

\* The parts of what was read.
LEMMA ListParts ==
  ASSUME NEW r, NEW p, NEW c, r = [pairs |-> p, closed |-> c]
  PROVE  r.pairs = p /\ r.closed = c
OBVIOUS

\* It is so at o if it is where the list goes on.
LEMMA ReadsGoodOn ==
  ASSUME NEW s \in Text, NEW o \in Bare(s, Openers),
         \A k \in Bare(s, Openers) : k > o => ReadsGood(s, k)
  PROVE  ReadsGood(s, o)
<1>1. PICK n \in Nat : n = Len(s)
  BY Marks
<1>2. o \in Bare(s, Separators) /\ o \in 1..n /\ o \in 0..n
  <2>1. Openers \subseteq Separators
    BY Zenon DEF Openers, Separators
  <2>2. o \in Bare(s, Separators)
    BY <1>1, <2>1, SeparatorIs, Zenon
  <2> QED
    BY <1>1, <2>2, SeparatorIs, Zenon
<1>3. PICK r : r = Cut(s, Cut(s, o))
  OBVIOUS
<1>4. /\ GoodFrom(s, o) <=> Complete(s, o) /\ GoesOn(s, r)
      /\ GoodFrom(s, o) => InRow(s, o, Cut(s, o), r)
  BY <1>3, GoodIs, Zenon
<1>5. /\ NoPair(s, o + 1) <=> ~Complete(s, o)
      /\ Complete(s, o) => PairAt(s, o + 1) = PairFrom(s, o) /\ ValueAt(s, o + 1).next = r
  BY <1>2, <1>3, ReadsComplete, Zenon
<1>6. PICK i \in 1..(n + 1) : i = o + 1
  <2>1. o + 1 \in 1..(n + 1)
    BY <1>2
  <2> QED
    BY <2>1
<1>7. CASE ~Complete(s, o)
  <2>1. ReadParams(s, i) = [pairs |-> <<>>, closed |-> FALSE]
    BY <1>1, <1>5, <1>6, <1>7, ReadParamsAt, Zenon
  <2>2. ~ReadParams(s, i).closed
    BY <2>1, ListParts
  <2> QED
    BY <1>4, <1>6, <1>7, <2>2, Zenon DEF ReadsGood
<1>8. CASE Complete(s, o)
  <2>1. PICK p \in PairType : p = PairFrom(s, o)
    <3>1. PairAt(s, i) \in PairType
      BY <1>1, <1>5, <1>6, <1>8, Pairs, Zenon
    <3> QED
      BY <1>5, <1>6, <1>8, <3>1, Zenon
  <2>2. /\ Tells(s, {o}, <<p>>)
        /\ \A O, ps : Tells(s, O, ps) /\ o \notin O => Tells(s, {o} \cup O, <<p>> \o ps)
    BY <2>1, Told, Zenon
  <2>3. ASSUME At(s, r) = "," PROVE ReadsGood(s, o)
    <3>1. PICK rest : rest = ReadParams(s, r + 1)
      OBVIOUS
    <3>2. r \in 1..n /\ ReadParams(s, i) = [pairs |-> <<p>> \o rest.pairs, closed |-> rest.closed]
      <4>1. ~NoPair(s, i) /\ ValueAt(s, i).next = r /\ PairAt(s, i) = p
        BY <1>5, <1>6, <1>8, <2>1, Zenon
      <4> QED
        BY <1>1, <2>3, <3>1, <4>1, ReadParamsAt, Zenon
    <3>3. ReadParams(s, i).pairs = <<p>> \o rest.pairs /\ ReadParams(s, i).closed = rest.closed
      <4>1. PICK v : v = <<p>> \o rest.pairs
        BY Zenon
      <4> QED
        BY <3>2, <4>1, ListParts, Zenon
    <3>4. GoodFrom(s, o) <=> GoodFrom(s, r)
      BY <1>4, <1>8, <2>3, Zenon DEF GoesOn
    <3>5. r > o /\ r \in Bare(s, Openers)
      <4>1. InRow(s, o, Cut(s, o), r)
        BY <1>1, <1>3, <1>8, <2>3, Rows, Zenon DEF Lined, Complete, Closers
      <4>2. PICK q \in 1..n : o < q /\ q < r
        BY <1>1, <4>1 DEF InRow
      <4>3. r \in Bare(s, Closers)
        BY <4>1, Zenon DEF InRow
      <4>4. Closers \subseteq Separators /\ Openers \subseteq Separators /\ "," \in Openers
        BY Zenon DEF Closers, Openers, Separators
      <4>5. r \in Bare(s, Openers)
        BY <1>1, <2>3, <4>3, <4>4, SeparatorIs, ZenonT(60)
      <4> QED
        BY <1>2, <3>2, <4>2, <4>5
    <3>6. ReadsGood(s, r)
      BY <3>5
    <3>7. ASSUME GoodFrom(s, o) PROVE Tells(s, OpeningFrom(s, o), <<p>> \o rest.pairs)
      <4>1. Tells(s, OpeningFrom(s, r), rest.pairs)
        BY <3>1, <3>4, <3>6, <3>7, Zenon DEF ReadsGood
      <4>2. o \notin OpeningFrom(s, r)
        BY <1>2, <3>2, <3>5 DEF OpeningFrom
      <4>3. OpeningFrom(s, o) = {o} \cup OpeningFrom(s, r)
        <5>1. /\ \A k : k \in Opening(s) /\ k >= o => k = o \/ k >= r
              /\ o \in Opening(s)
          BY <1>4, <3>7 DEF InRow
        <5>2. \A k \in Opening(s) : k \in 1..n
          BY <1>1, SeparatorIs DEF Opening
        <5>3. \A k \in Opening(s) : k >= r => k >= o
          BY <1>2, <3>2, <3>5, <5>2
        <5>4. o >= o
          BY <1>2
        <5> QED
          BY <5>1, <5>3, <5>4, Zenon DEF OpeningFrom
      <4> QED
        BY <2>2, <4>1, <4>2, <4>3, Zenon
    <3>8. rest.closed <=> GoodFrom(s, r)
      BY <3>1, <3>6, Zenon DEF ReadsGood
    <3> QED
      BY <1>6, <3>3, <3>4, <3>7, <3>8, Zenon DEF ReadsGood
  <2>4. ASSUME At(s, r) # "," PROVE ReadsGood(s, o)
    <3>1. ReadParams(s, i) = [pairs |-> <<p>>, closed |-> Closes(s, i)]
      <4>1. ~NoPair(s, i) /\ ValueAt(s, i).next = r /\ PairAt(s, i) = p
        BY <1>5, <1>6, <1>8, <2>1, Zenon
      <4> QED
        BY <1>1, <2>4, <4>1, ReadParamsAt, Zenon
    <3>2. ReadParams(s, i).pairs = <<p>> /\ ReadParams(s, i).closed = Closes(s, i)
      BY <3>1, ListParts, Zenon
    <3>3. Closes(s, i) <=> At(s, r) = ")" /\ r = Len(s)
      BY <1>5, <1>6, <1>8, Zenon DEF Closes
    <3>4. GoodFrom(s, o) <=> At(s, r) = ")" /\ r = Len(s)
      BY <1>4, <1>8, <2>4, Zenon DEF GoesOn
    <3>5. ASSUME GoodFrom(s, o) PROVE OpeningFrom(s, o) = {o}
      <4>1. /\ \A k : k \in Opening(s) /\ k >= o => k = o \/ k >= r
            /\ o \in Opening(s)
        BY <1>4, <3>5 DEF InRow
      <4>2. o >= o
        BY <1>2
      <4>3. ASSUME NEW k \in Opening(s), k >= r PROVE FALSE
        <5>1. k \in Bare(s, Separators) /\ At(s, Cut(s, k)) = "="
          BY DEF Opening
        <5>2. r = n /\ k \in 1..n
          BY <1>1, <3>4, <3>5, <5>1, SeparatorIs
        <5>3. k = n
          BY <4>3, <5>2
        <5>4. n \in 0..n /\ \A c \in (n + 1)..(n + 1) : c = n + 1
          OBVIOUS
        <5>5. Cut(s, k) \in (n + 1)..(n + 1)
          BY <1>1, <5>3, <5>4, NextIs
        <5>6. At(s, n + 1) = "end"
          BY <1>1, SeparatorIs
        <5> QED
          BY <5>1, <5>4, <5>5, <5>6
      <4> QED
        BY <4>1, <4>2, <4>3 DEF OpeningFrom
    <3> QED
      BY <1>6, <2>2, <3>2, <3>3, <3>4, <3>5, Zenon DEF ReadsGood
  <2> QED
    BY <2>3, <2>4, Zenon
<1> QED
  BY <1>7, <1>8

\* So it is at every separator that may open a key.
LEMMA ReadsGoodLists ==
  ASSUME NEW s \in Text
  PROVE  \A o \in Bare(s, Openers) : ReadsGood(s, o)
<1>1. PICK n \in Nat : n = Len(s)
  BY Marks
<1>2. PICK D, w : D = Bare(s, Openers) /\ w = [o \in D |-> n + 1 - o]
  BY Zenon
<1>3. \A o \in D : o \in 1..n
  <2>1. \A o \in Bare(s, Openers) : o \in 1..n
    BY <1>1, BareIs
  <2> QED
    BY <1>2, <2>1
<1>4. PICK T : T = {o \in D : ReadsGood(s, o)}
  BY Zenon
<1>5. ASSUME NEW o \in D, \A k \in D : w[k] < w[o] => k \in T PROVE o \in T
  <2>1. ASSUME NEW k \in D, k > o PROVE ReadsGood(s, k)
    <3>1. w[k] < w[o]
      BY <1>2, <1>3, <2>1
    <3> QED
      BY <1>4, <1>5, <3>1
  <2>2. ReadsGood(s, o)
    BY <1>2, <2>1, ReadsGoodOn
  <2> QED
    BY <1>4, <2>2
<1>6. D \subseteq T
  <2>1. \A o \in D : w[o] \in Nat
    BY <1>2, <1>3
  <2>2. Inherits(D, w, T)
    BY <1>5, <2>1 DEF Inherits
  <2> QED
    BY <2>2, Ranked
<1> QED
  BY <1>2, <1>4, <1>6

----------------------------------------------------------------------------
(* Well-formed texts.                                                      *)

\* Where a list is read from makes no difference as far as there are blanks.
LEMMA ListAfterBlanks ==
  ASSUME NEW s \in Text, NEW i \in 1..(Len(s) + 1)
  PROVE  ReadParams(s, SkipWS(s, i)) = ReadParams(s, i)
<1>1. PICK n \in Nat : n = Len(s)
  BY Marks
<1>2. PICK j \in 1..(n + 1) : j = SkipWS(s, i) /\ At(s, j) # Blank
  <2>1. SkipWS(s, i) \in i..(n + 1) /\ At(s, SkipWS(s, i)) # Blank
    BY <1>1, SkipsBlanks
  <2>2. SkipWS(s, i) \in 1..(n + 1)
    BY <1>1, <2>1
  <2> QED
    BY <2>1, <2>2
<1>3. SkipWS(s, j) = j
  <2>1. j \in j..(n + 1) /\ \A k \in j..(j - 1) : At(s, k) = Blank
    BY <1>2
  <2> QED
    BY <1>1, <1>2, <2>1, SkipsTo
<1>4. KeyAt(s, j) = KeyAt(s, i)
  BY <1>2, <1>3, Zenon DEF KeyAt
<1>5. ValueAt(s, j) = ValueAt(s, i)
  BY <1>4, Zenon DEF ValueAt
<1>6. /\ NoPair(s, j) <=> NoPair(s, i)
      /\ PairAt(s, j) = PairAt(s, i) /\ Closes(s, j) = Closes(s, i)
  BY <1>4, <1>5, Zenon DEF NoPair, PairAt, Closes
<1>7. CASE NoPair(s, i)
  <2>1. /\ ReadParams(s, i) = [pairs |-> <<>>, closed |-> FALSE]
        /\ ReadParams(s, j) = [pairs |-> <<>>, closed |-> FALSE]
    BY <1>1, <1>6, <1>7, ReadParamsAt, Zenon
  <2> QED
    BY <1>2, <2>1
<1>8. CASE ~NoPair(s, i) /\ At(s, ValueAt(s, i).next) = ","
  <2>1. PICK e : e = [pairs |-> <<PairAt(s, i)>> \o ReadParams(s, ValueAt(s, i).next + 1).pairs,
                      closed |-> ReadParams(s, ValueAt(s, i).next + 1).closed]
    BY Zenon
  <2>2. ReadParams(s, i) = e
    BY <1>8, <2>1, ReadParamsAt, Zenon
  <2>3. ReadParams(s, j) = [pairs |-> <<PairAt(s, j)>> \o ReadParams(s, ValueAt(s, j).next + 1).pairs,
                            closed |-> ReadParams(s, ValueAt(s, j).next + 1).closed]
    BY <1>1, <1>5, <1>6, <1>8, ReadParamsAt, Zenon
  <2>4. ReadParams(s, j) = e
    BY <1>5, <1>6, <2>1, <2>3, Zenon
  <2> QED
    BY <1>2, <2>2, <2>4, Zenon
<1>9. CASE ~NoPair(s, i) /\ At(s, ValueAt(s, i).next) # ","
  <2>1. ReadParams(s, i) = [pairs |-> <<PairAt(s, i)>>, closed |-> Closes(s, i)]
    BY <1>9, ReadParamsAt, Zenon
  <2>2. ReadParams(s, j) = [pairs |-> <<PairAt(s, j)>>, closed |-> Closes(s, j)]
    BY <1>1, <1>5, <1>6, <1>9, ReadParamsAt, Zenon
  <2> QED
    BY <1>2, <1>6, <2>1, <2>2, Zenon
<1> QED
  BY <1>7, <1>8, <1>9, Zenon

\* From position o on there is nothing wrong with escapes, separators and keys.
RightFrom(s, o) ==
  EscapesFrom(s, o) /\ OrderFrom(s, o) /\ EndsFrom(s, o) /\ KeysFrom(s, o)

\* The texts of the grammar whose keys Parse takes.
Acceptable(s) == WellFormed(s) /\ Keyed(s)

\* A text is acceptable if it has a table name, from there on nothing is wrong
\* and no key is given twice.
LEMMA AcceptableIs ==
  ASSUME NEW s \in Text
  PROVE  /\ Acceptable(s) => Part(s, 0) # <<>> /\ Readable(s, TRUE, 1, Cut(s, 0))
         /\ Part(s, 0) # <<>> /\ Readable(s, TRUE, 1, Cut(s, 0))
            => (Acceptable(s) <=> RightFrom(s, Cut(s, 0)) /\ ~Ambiguous(s, Opening(s)))
<1>1. PICK n \in Nat : n = Len(s)
  BY Marks
<1>2. PICK q : q = Cut(s, 0)
  OBVIOUS
<1>3. /\ \A k \in Bare(s, Separators) : k \in 1..n /\ At(s, k) = s[k] /\ At(s, k) \in Separators
      /\ \A k, C : C \subseteq Separators
           => (k \in Bare(s, C) <=> k \in Bare(s, Separators) /\ At(s, k) \in C)
      /\ \A k \in Bare(s, Separators) : k \notin Bare(s, {Backslash})
      /\ \A b \in Bare(s, {Backslash}) : b \in 1..n
      /\ At(s, 0) = "end" /\ At(s, n + 1) = "end"
  BY <1>1, SeparatorIs, Zenon
<1>4. /\ q \in 1..(n + 1)
      /\ \/ q = n + 1 /\ At(s, q) = "end"
         \/ q \in Bare(s, Separators) /\ q \in 1..n /\ At(s, q) \in Separators
      /\ \A k \in Bare(s, Separators) : k >= q
  <2>1. 0 \in 0..n /\ 0 + 1 = 1
    OBVIOUS
  <2>2. /\ q \in (0 + 1)..(n + 1)
        /\ \/ q = n + 1 /\ At(s, q) = "end"
           \/ q \in Bare(s, Separators) /\ q \in 1..n /\ At(s, q) \in Separators
        /\ \A k \in Bare(s, Separators) : k <= 0 \/ k >= q
    BY <1>1, <1>2, <2>1, NextIs
  <2>3. ASSUME NEW k \in Bare(s, Separators) PROVE k >= q
    BY <1>3, <2>2
  <2> QED
    BY <2>1, <2>2, <2>3
<1>5. Acceptable(s)
      <=> /\ \A b \in Bare(s, {Backslash}) : At(s, b + 1) \in Reserved
          /\ <<"end", At(s, q)>> \in Sequels
          /\ \A k \in Bare(s, Separators) : <<At(s, k), At(s, Cut(s, k))>> \in Sequels
          /\ \A k \in Bare(s, {")"}) : k = Len(s)
          /\ Part(s, 0) # <<>>
          /\ \A k \in Bare(s, Openers) : k \in Opening(s) <=> Part(s, k) # <<>>
          /\ ~Ambiguous(s, Opening(s))
  <2>1. (\A i, j \in Opening(s) : Part(s, i) = Part(s, j) => i = j) <=> ~Ambiguous(s, Opening(s))
    BY Zenon DEF Ambiguous
  <2>2. (\A i \in {0} \cup Bare(s, Separators) : <<At(s, i), At(s, Cut(s, i))>> \in Sequels)
        <=> /\ <<"end", At(s, q)>> \in Sequels
            /\ \A k \in Bare(s, Separators) : <<At(s, k), At(s, Cut(s, k))>> \in Sequels
    BY <1>2, <1>3, Zenon
  <2>3. ASSUME \A k \in Bare(s, Separators) : <<At(s, k), At(s, Cut(s, k))>> \in Sequels
        PROVE  Opening(s) \subseteq Bare(s, Openers)
    <3>1. ASSUME NEW k \in Opening(s) PROVE k \in Bare(s, Openers)
      <4>1. k \in Bare(s, Separators) /\ At(s, Cut(s, k)) = "="
        BY DEF Opening
      <4>2. PICK x : x = At(s, k)
        OBVIOUS
      <4>3. <<x, At(s, Cut(s, k))>> \in Sequels
        BY <2>3, <4>1, <4>2, Zenon
      <4>4. <<x, "=">> \in Sequels
        BY <4>1, <4>3, Zenon
      <4>5. x \in {"(", ","}
        BY <4>4, SequelsAre
      <4>6. Openers \subseteq Separators /\ x \in Openers
        BY <4>5 DEF Openers, Separators
      <4> QED
        BY <1>3, <4>1, <4>2, <4>6, Zenon
    <3> QED
      BY <3>1, Zenon
  <2>4. ASSUME \A k \in Bare(s, Separators) : <<At(s, k), At(s, Cut(s, k))>> \in Sequels
        PROVE  (\A k \in Bare(s, Openers) : k \in Opening(s) <=> Part(s, k) # <<>>)
               <=> /\ \A k \in Bare(s, Openers) : k \notin Opening(s) => Part(s, k) = <<>>
                   /\ \A k \in Opening(s) : Part(s, k) # <<>>
    BY <2>3, <2>4, Zenon
  <2> QED
    BY <2>1, <2>2, <2>4, Zenon DEF Acceptable, WellFormed, Keyed, Openers
<1>6. Readable(s, TRUE, 1, q)
      <=> /\ \A b \in Bare(s, {Backslash}) : b >= q \/ At(s, b + 1) \in Reserved
          /\ q = n + 1 \/ s[q] = "("
  <2>1. \A b \in Bare(s, {Backslash}) : ~(b < 1)
    <3>1. ASSUME NEW b \in Bare(s, {Backslash}) PROVE ~(b < 1)
      <4>1. b \in 1..n
        BY <1>3, Zenon
      <4> QED
        BY <4>1
    <3> QED
      BY <3>1
  <2>2. s[q] \in Stops(TRUE) <=> s[q] = "("
    BY DEF Stops
  <2> QED
    BY <1>1, <2>1, <2>2, Zenon DEF Readable
<1>7. q = n + 1 \/ s[q] = "(" <=> <<"end", At(s, q)>> \in Sequels
  <2>1. q # n + 1 => At(s, q) = s[q] /\ At(s, q) # "end"
    BY <1>3, <1>4, Zenon DEF Separators
  <2>2. q = n + 1 => At(s, q) = "end"
    BY <1>3
  <2> QED
    BY <2>1, <2>2, SequelsAre, Zenon
<1>8. ASSUME Acceptable(s) PROVE Part(s, 0) # <<>> /\ Readable(s, TRUE, 1, q)
  BY <1>5, <1>6, <1>7, <1>8, Zenon
<1>9. ASSUME Part(s, 0) # <<>>, Readable(s, TRUE, 1, q)
      PROVE  Acceptable(s) <=> RightFrom(s, q) /\ ~Ambiguous(s, Opening(s))
  <2>1. <<"end", At(s, q)>> \in Sequels
    BY <1>6, <1>7, <1>9, Zenon
  <2>2. (\A b \in Bare(s, {Backslash}) : At(s, b + 1) \in Reserved) <=> EscapesFrom(s, q)
    <3>1. ASSUME EscapesFrom(s, q), NEW b \in Bare(s, {Backslash}) PROVE At(s, b + 1) \in Reserved
      <4>1. b >= q \/ At(s, b + 1) \in Reserved
        BY <1>6, <1>9, Zenon
      <4>2. b # q
        <5>1. b \in 1..n
          BY <1>3, Zenon
        <5>2. b # n + 1
          BY <5>1
        <5> QED
          BY <1>3, <1>4, <5>2, Zenon
      <4>3. b > q => At(s, b + 1) \in Reserved
        BY <3>1, Zenon DEF EscapesFrom
      <4>4. b \in 1..n
        BY <1>3, Zenon
      <4>5. q \in 1..(n + 1)
        BY <1>4
      <4>6. b >= q => b > q
        BY <4>2, <4>4, <4>5
      <4> QED
        BY <4>1, <4>3, <4>6, Zenon
    <3> QED
      BY <3>1, Zenon DEF EscapesFrom
  <2>3. (\A k \in Bare(s, Separators) : <<At(s, k), At(s, Cut(s, k))>> \in Sequels) <=> OrderFrom(s, q)
    BY <1>4, Zenon DEF OrderFrom
  <2>4. (\A k \in Bare(s, {")"}) : k = Len(s)) <=> EndsFrom(s, q)
    <3>1. {")"} \subseteq Separators
      BY DEF Separators
    <3>2. \A k \in Bare(s, {")"}) : k >= q
      BY <1>3, <1>4, <3>1, Zenon
    <3> QED
      BY <3>2, Zenon DEF EndsFrom
  <2>5. (\A k \in Bare(s, Openers) : k \in Opening(s) <=> Part(s, k) # <<>>) <=> KeysFrom(s, q)
    <3>1. Openers \subseteq Separators
      BY DEF Openers, Separators
    <3>2. \A k \in Bare(s, Openers) : k >= q
      BY <1>3, <1>4, <3>1, Zenon
    <3> QED
      BY <3>2, Zenon DEF KeysFrom
  <2> QED
    BY <1>5, <1>9, <2>1, <2>2, <2>3, <2>4, <2>5, Zenon DEF RightFrom
<1> QED
  BY <1>2, <1>8, <1>9, Zenon

----------------------------------------------------------------------------
(* Parse and the grammar.                                                  *)

\* The values that a text gives its keys.
Values(s) ==
  [k \in {Part(s, i) : i \in Opening(s)} |->
     Part(s, Cut(s, CHOOSE i \in Opening(s) : Part(s, i) = k))]

\* These are what its pairs say.
LEMMA ValuesAre ==
  ASSUME NEW s, NEW ps, Tells(s, Opening(s), ps), ~Ambiguous(s, Opening(s))
  PROVE  Collected(ps) = Values(s)
<1>1. PICK P, O : P = ToSet(ps) /\ O = Opening(s)
  OBVIOUS
<1>2. P = {PairFrom(s, k) : k \in O}
  BY <1>1 DEF Tells
<1>3. \A k : PairFrom(s, k).key = Part(s, k) /\ PairFrom(s, k).value = Part(s, Cut(s, k))
  BY DEF PairFrom
<1>4. PICK K : K = {Part(s, i) : i \in O}
  BY Zenon
<1>5. {p.key : p \in P} = K
  <2>1. ASSUME NEW p \in P PROVE p.key \in K
    <3>1. PICK k \in O : p = PairFrom(s, k)
      BY <1>2
    <3> QED
      BY <1>3, <1>4, <3>1
  <2>2. ASSUME NEW i \in O PROVE Part(s, i) \in {p.key : p \in P}
    <3>1. PICK p : p = PairFrom(s, i)
      OBVIOUS
    <3>2. p \in P /\ p.key = Part(s, i)
      BY <1>2, <1>3, <3>1
    <3> QED
      BY <3>2
  <2> QED
    BY <1>4, <2>1, <2>2
<1>6. ASSUME NEW k \in K
      PROVE  (CHOOSE p \in P : p.key = k).value = Part(s, Cut(s, CHOOSE i \in O : Part(s, i) = k))
  <2>1. PICK x : x = CHOOSE p \in P : p.key = k
    OBVIOUS
  <2>2. PICK j : j = CHOOSE i \in O : Part(s, i) = k
    OBVIOUS
  <2>3. j \in O /\ Part(s, j) = k
    <3>1. \E i \in O : Part(s, i) = k
      BY <1>4
    <3> QED
      BY <2>2, <3>1, Zenon
  <2>4. x \in P /\ x.key = k
    <3>1. \E p \in P : p.key = k
      <4>1. PICK p : p = PairFrom(s, j)
        OBVIOUS
      <4>2. p \in P /\ p.key = k
        BY <1>2, <1>3, <2>3, <4>1
      <4> QED
        BY <4>2
    <3> QED
      BY <2>1, <3>1, Zenon
  <2>5. PICK i \in O : x = PairFrom(s, i)
    BY <1>2, <2>4
  <2>6. Part(s, i) = Part(s, j)
    BY <1>3, <2>3, <2>4, <2>5, Zenon
  <2>7. i = j
    BY <1>1, <2>3, <2>6, Zenon DEF Ambiguous
  <2>8. x.value = Part(s, Cut(s, j))
    BY <1>3, <2>5, <2>7, Zenon
  <2> QED
    BY <2>1, <2>2, <2>8, Zenon
<1>7. Collected(ps) = [k \in {p.key : p \in P} |-> (CHOOSE p \in P : p.key = k).value]
  BY <1>1 DEF Collected
<1>8. Values(s) = [k \in {Part(s, i) : i \in O} |->
                     Part(s, Cut(s, CHOOSE i \in O : Part(s, i) = k))]
  BY <1>1 DEF Values
<1>9. Collected(ps) = [k \in K |-> (CHOOSE p \in P : p.key = k).value]
  BY <1>5, <1>7
<1>10. Values(s) = [k \in K |-> Part(s, Cut(s, CHOOSE i \in O : Part(s, i) = k))]
  BY <1>4, <1>8
<1> QED
  BY <1>6, <1>9, <1>10

\* Where nothing is opened there are none.
LEMMA NoValues ==
  ASSUME NEW s, Opening(s) = {}
  PROVE  Values(s) = NoParams /\ ~Ambiguous(s, Opening(s))
<1>1. {Part(s, i) : i \in Opening(s)} = {}
  OBVIOUS
<1>2. Values(s) = [k \in {} |-> Part(s, Cut(s, CHOOSE i \in Opening(s) : Part(s, i) = k))]
  BY <1>1, Zenon DEF Values
<1>3. Values(s) = NoParams
  BY <1>2 DEF NoParams
<1> QED
  BY <1>3 DEF Ambiguous

\* A text without separators is acceptable if it can be read and is not blank.
LEMMA OnlyName ==
  ASSUME NEW s \in Text, Part(s, 0) # <<>>, Readable(s, TRUE, 1, Cut(s, 0)), Cut(s, 0) = Len(s) + 1
  PROVE  Acceptable(s) /\ Opening(s) = {}
<1>1. PICK n \in Nat : n = Len(s)
  BY Marks
<1>2. Bare(s, Separators) = {}
  <2>1. ASSUME NEW k \in Bare(s, Separators) PROVE FALSE
    <3>1. k \in 1..n
      BY <1>1, SeparatorIs
    <3>2. 0 \in 0..n
      OBVIOUS
    <3>3. k <= 0 \/ k >= n + 1
      BY <1>1, <3>2, NextIs
    <3> QED
      BY <3>1, <3>3
  <2> QED
    BY <2>1
<1>3. Opening(s) = {}
  BY <1>2 DEF Opening
<1>4. /\ \A k, C : C \subseteq Separators => k \notin Bare(s, C)
      /\ \A b \in Bare(s, {Backslash}) : b \in 1..n
  BY <1>1, <1>2, SeparatorIs
<1>5. RightFrom(s, n + 1)
  <2>1. EscapesFrom(s, n + 1)
    <3>1. ASSUME NEW b \in Bare(s, {Backslash}) PROVE ~(b > n + 1)
      <4>1. b \in 1..n
        BY <1>4, Zenon
      <4> QED
        BY <4>1
    <3> QED
      BY <3>1 DEF EscapesFrom
  <2>2. OrderFrom(s, n + 1)
    BY <1>2 DEF OrderFrom
  <2>3. {")"} \subseteq Separators /\ Openers \subseteq Separators
    BY DEF Openers, Separators
  <2>4. EndsFrom(s, n + 1) /\ KeysFrom(s, n + 1)
    BY <1>4, <2>3, Zenon DEF EndsFrom, KeysFrom
  <2> QED
    BY <2>1, <2>2, <2>4 DEF RightFrom
<1> QED
  BY <1>1, <1>3, <1>5, NoValues, AcceptableIs, Zenon

\* A name, and an opening parenthesis behind it.
Headed(s, q) ==
  /\ Part(s, 0) # <<>> /\ Readable(s, TRUE, 1, q) /\ q = Cut(s, 0) /\ q # Len(s) + 1

\* There is one.
LEMMA HeadedIs ==
  ASSUME NEW s \in Text, NEW q, Headed(s, q)
  PROVE  /\ q \in Bare(s, Openers) /\ q \in Bare(s, Separators) /\ At(s, q) = "("
         /\ q \in 1..Len(s) /\ \A k \in Bare(s, Separators) : k >= q
<1>1. PICK n \in Nat : n = Len(s)
  BY Marks
<1>2. q = Cut(s, 0) /\ q # n + 1 /\ Readable(s, TRUE, 1, q)
  BY <1>1, Zenon DEF Headed
<1>3. 0 \in 0..n
  OBVIOUS
<1>4. /\ q \in Bare(s, Separators) /\ q \in 1..n
      /\ \A k \in Bare(s, Separators) : k <= 0 \/ k >= q
  BY <1>1, <1>2, <1>3, NextIs
<1>5. At(s, q) = "("
  <2>1. s[q] \in Stops(TRUE)
    BY <1>1, <1>2, Zenon DEF Readable
  <2>2. At(s, q) = s[q]
    BY <1>1, <1>4, SeparatorIs
  <2> QED
    BY <2>1, <2>2 DEF Stops
<1>6. q \in Bare(s, Openers)
  <2>1. Openers \subseteq Separators /\ "(" \in Openers
    BY DEF Openers, Separators
  <2> QED
    BY <1>1, <1>4, <1>5, <2>1, SeparatorIs, ZenonT(60)
<1>7. ASSUME NEW k \in Bare(s, Separators) PROVE k >= q
  <2>1. k \in 1..n /\ (k <= 0 \/ k >= q)
    BY <1>1, <1>4, SeparatorIs
  <2> QED
    BY <2>1
<1> QED
  BY <1>1, <1>4, <1>5, <1>6, <1>7

\* The positions of a text that ends behind two separators.
LEMMA EmptyListPositions ==
  ASSUME NEW s \in Text, NEW q, Headed(s, q), Cut(s, q) = Len(s), At(s, Len(s)) = ")"
  PROVE  /\ Bare(s, Separators) = {q, Len(s)} /\ Opening(s) = {}
         /\ At(s, Cut(s, Len(s))) = "end"
<1>1. PICK n \in Nat : n = Len(s)
  BY Marks
<1>2. /\ q \in Bare(s, Separators) /\ q \in 1..n /\ q \in 0..n
      /\ \A k \in Bare(s, Separators) : k \in 1..n /\ k >= q
  BY <1>1, HeadedIs, SeparatorIs
<1>3. /\ n \in Bare(s, Separators) \/ At(s, n) = "end"
      /\ \A k \in Bare(s, Separators) : k <= q \/ k >= n
  BY <1>1, <1>2, NextIs, Zenon
<1>4. Bare(s, Separators) = {q, n}
  <2>1. n \in Bare(s, Separators)
    BY <1>1, <1>3
  <2>2. ASSUME NEW k \in Bare(s, Separators) PROVE k = q \/ k = n
    <3>1. k \in 1..n /\ k >= q /\ (k <= q \/ k >= n)
      BY <1>2, <1>3
    <3> QED
      BY <1>2, <3>1
  <2> QED
    BY <1>2, <2>1, <2>2, Zenon
<1>5. At(s, Cut(s, n)) = "end"
  <2>1. n \in 0..n
    OBVIOUS
  <2>2. Cut(s, n) \in (n + 1)..(n + 1)
    BY <1>1, <2>1, NextIs
  <2>3. Cut(s, n) = n + 1
    BY <2>2
  <2> QED
    BY <1>1, <2>3, SeparatorIs
<1>6. Opening(s) = {}
  <2>1. ASSUME NEW k \in Opening(s) PROVE FALSE
    <3>1. k \in {q, n} /\ At(s, Cut(s, k)) = "="
      BY <1>4 DEF Opening
    <3>2. k # n
      BY <1>5, <3>1
    <3>3. k # q
      BY <1>1, <3>1
    <3> QED
      BY <3>1, <3>2, <3>3
  <2> QED
    BY <2>1
<1> QED
  BY <1>1, <1>4, <1>5, <1>6

\* A list that is closed as soon as it is opened is acceptable if it ends the text.
LEMMA EmptyList ==
  ASSUME NEW s \in Text, NEW q, Headed(s, q), NEW first, first = SkipWS(s, q + 1),
         At(s, first) = ")"
  PROVE  /\ Acceptable(s) <=> first = Len(s)
         /\ Acceptable(s) => Opening(s) = {}
<1>1. PICK n \in Nat : n = Len(s)
  BY Marks
<1>2. /\ q \in Bare(s, Openers) /\ q \in Bare(s, Separators) /\ At(s, q) = "("
      /\ q \in 1..n /\ q \in 0..n
  BY <1>1, HeadedIs, SeparatorIs
<1>3. first = Cut(s, q) /\ Readable(s, FALSE, q + 1, first) /\ Part(s, q) = <<>>
  <2>1. first = Cut(s, q) /\ Readable(s, FALSE, q + 1, Cut(s, q)) /\ Part(s, q) = <<>>
    <3>1. At(s, SkipWS(s, q + 1)) = ")"
      OBVIOUS
    <3>2. SkipWS(s, q + 1) = Cut(s, q) /\ Readable(s, FALSE, q + 1, Cut(s, q)) /\ Part(s, q) = <<>>
      BY <1>2, <3>1, Closing, Zenon
    <3> QED
      BY <3>2, Zenon
  <2> QED
    BY <2>1, Zenon
<1>4. Acceptable(s) <=> RightFrom(s, q) /\ ~Ambiguous(s, Opening(s))
  BY AcceptableIs, Zenon DEF Headed
<1>5. first \in Bare(s, Separators) /\ first >= q /\ first \in Bare(s, {")"})
  <2>1. first \in (q + 1)..(n + 1) /\ (first \in Bare(s, Separators) \/ At(s, first) = "end")
    BY <1>1, <1>2, <1>3, NextIs
  <2>2. first >= q
    BY <1>2, <2>1
  <2>3. first \in Bare(s, Separators)
    BY <2>1
  <2>4. {")"} \subseteq Separators
    BY DEF Separators
  <2>5. first \in Bare(s, {")"})
    BY <1>1, <2>3, <2>4, SeparatorIs
  <2> QED
    BY <2>2, <2>3, <2>5
<1>6. ASSUME Acceptable(s) PROVE first = n
  <2>1. EndsFrom(s, q)
    BY <1>4, <1>6, Zenon DEF RightFrom
  <2> QED
    BY <1>1, <1>5, <2>1, Zenon DEF EndsFrom
<1>7. ASSUME first = n PROVE Acceptable(s) /\ Opening(s) = {}
  <2>1. Bare(s, Separators) = {q, n} /\ Opening(s) = {} /\ At(s, Cut(s, n)) = "end"
    BY <1>1, <1>3, <1>7, EmptyListPositions, Zenon
  <2>2. /\ \A k, C : C \subseteq Separators
             => (k \in Bare(s, C) <=> k \in {q, n} /\ At(s, k) \in C)
        /\ \A b \in Bare(s, {Backslash}) : b \in 1..n
        /\ \A b \in Bare(s, {Backslash}) : b \notin {q, n}
    BY <1>1, <2>1, SeparatorIs, Zenon
  <2>3. EscapesFrom(s, q)
    <3>1. ASSUME NEW b \in Bare(s, {Backslash}), b > q PROVE At(s, b + 1) \in Reserved
      <4>1. b < q + 1 \/ b >= n \/ At(s, b + 1) \in Reserved
        BY <1>3, <1>7, Zenon DEF Readable
      <4>2. b \in 1..n /\ b # n
        BY <2>2
      <4>3. ~(b < q + 1) /\ ~(b >= n)
        BY <1>2, <3>1, <4>2
      <4> QED
        BY <4>1, <4>3, Zenon
    <3> QED
      BY <3>1 DEF EscapesFrom
  <2>4. OrderFrom(s, q)
    <3>1. <<At(s, q), At(s, Cut(s, q))>> \in Sequels
      BY <1>2, <1>3, SequelsAre, Zenon
    <3>2. <<At(s, n), At(s, Cut(s, n))>> \in Sequels
      BY <1>7, <2>1, SequelsAre, Zenon
    <3> QED
      BY <2>1, <3>1, <3>2 DEF OrderFrom
  <2>5. EndsFrom(s, q)
    <3>1. {")"} \subseteq Separators
      BY DEF Separators
    <3>2. ASSUME NEW k \in Bare(s, {")"}) PROVE k = n
      <4>1. k \in {q, n} /\ At(s, k) \in {")"}
        BY <2>2, <3>1, Zenon
      <4> QED
        BY <1>2, <4>1
    <3> QED
      BY <1>1, <3>2 DEF EndsFrom
  <2>6. KeysFrom(s, q)
    <3>1. Openers \subseteq Separators /\ ")" \notin Openers
      BY DEF Openers, Separators
    <3>2. ASSUME NEW k \in Bare(s, Openers) PROVE k = q
      <4>1. k \in {q, n} /\ At(s, k) \in Openers
        BY <2>2, <3>1, Zenon
      <4> QED
        BY <1>7, <3>1, <4>1
    <3> QED
      BY <1>3, <2>1, <3>2 DEF KeysFrom
  <2> QED
    BY <1>4, <2>1, <2>3, <2>4, <2>5, <2>6, NoValues DEF RightFrom
<1> QED
  BY <1>1, <1>6, <1>7

\* Another list is acceptable if it goes on so from its beginning.
LEMMA OtherList ==
  ASSUME NEW s \in Text, NEW q, Headed(s, q), At(s, SkipWS(s, q + 1)) # ")"
  PROVE  /\ Acceptable(s) <=> GoodFrom(s, q) /\ ~Ambiguous(s, Opening(s))
         /\ OpeningFrom(s, q) = Opening(s)
<1>1. PICK n \in Nat : n = Len(s)
  BY Marks
<1>2. /\ q \in Bare(s, Openers) /\ q \in Bare(s, Separators) /\ At(s, q) = "("
      /\ q \in 1..n /\ \A k \in Bare(s, Separators) : k >= q
  BY <1>1, HeadedIs
<1>3. Acceptable(s) <=> RightFrom(s, q) /\ ~Ambiguous(s, Opening(s))
  BY AcceptableIs, Zenon DEF Headed
<1>4. GoodFrom(s, q) <=> RightFrom(s, q) /\ Part(s, q) # <<>>
  BY Zenon DEF GoodFrom, RightFrom
<1>5. ASSUME RightFrom(s, q), Part(s, q) = <<>> PROVE FALSE
  <2>1. q >= q
    BY <1>2
  <2>2. q \notin Opening(s)
    BY <1>2, <1>5, <2>1, Zenon DEF RightFrom, KeysFrom
  <2>3. At(s, Cut(s, q)) # "="
    BY <1>2, <2>2 DEF Opening
  <2>4. At(s, Cut(s, q)) = ")"
    <3>1. <<At(s, q), At(s, Cut(s, q))>> \in Sequels
      BY <1>2, <1>5, <2>1, Zenon DEF RightFrom, OrderFrom
    <3> QED
      BY <1>2, <2>3, <3>1, SequelsAre, Zenon
  <2>5. Readable(s, FALSE, q + 1, Cut(s, q))
    <3>1. s[Cut(s, q)] \in Stops(FALSE)
      <4>1. q \in 0..n
        BY <1>2
      <4>2. Cut(s, q) \in Bare(s, Separators)
        BY <1>1, <2>4, <4>1, NextIs
      <4>3. s[Cut(s, q)] = ")"
        BY <1>1, <2>4, <4>2, SeparatorIs
      <4> QED
        BY <4>3 DEF Stops
    <3>2. ASSUME NEW b \in Bare(s, {Backslash}) PROVE b < q + 1 \/ At(s, b + 1) \in Reserved
      <4>1. b \in 1..n
        BY <1>1, SeparatorIs, Zenon
      <4>2. b > q => At(s, b + 1) \in Reserved
        BY <1>5, Zenon DEF RightFrom, EscapesFrom
      <4>3. b < q + 1 \/ b > q
        BY <1>2, <4>1
      <4> QED
        BY <4>2, <4>3
    <3> QED
      BY <3>1, <3>2, Zenon DEF Readable
  <2>6. SkipWS(s, q + 1) = Cut(s, q)
    BY <1>2, <1>5, <2>5, Closing, Zenon
  <2> QED
    BY <2>4, <2>6
<1>6. OpeningFrom(s, q) = Opening(s)
  BY <1>2, Zenon DEF OpeningFrom, Opening
<1> QED
  BY <1>3, <1>4, <1>5, <1>6, Zenon

\* Parse reads the name u from the trimmed text s, up to k.
NameRead(t, s, u, k) ==
  /\ s = TrimSpace(t) /\ ReadChars(s, 1, TRUE).next = k
  /\ TrimRight(ReadChars(s, 1, TRUE).text) = u

\* What it makes of a list that comes behind the name.
Outcome(s, u, first, list) ==
  IF At(s, first) = ")" THEN IF first = Len(s) THEN Ref(u, NoParams) ELSE SyntaxError
  ELSE IF Repeated(list.pairs) THEN DuplicateKey
  ELSE IF ~list.closed THEN SyntaxError
  ELSE Ref(u, Collected(list.pairs))

\* What it makes of them.
LEMMA ParseCases ==
  ASSUME NEW t, NEW s, NEW u, NEW k, NameRead(t, s, u, k)
  PROVE  /\ k = 0 \/ u = <<>> => Parse(t) = SyntaxError
         /\ k # 0 /\ u # <<>> /\ k > Len(s) => Parse(t) = Ref(u, NoParams)
         /\ k # 0 /\ u # <<>> /\ ~(k > Len(s))
            => \A first, list : first = SkipWS(s, k + 1) /\ list = ReadParams(s, first)
                              => Parse(t) = Outcome(s, u, first, list)
<1>1. /\ s = TrimSpace(t) /\ ReadChars(s, 1, TRUE).next = k
      /\ TrimRight(ReadChars(s, 1, TRUE).text) = u
  BY Zenon DEF NameRead
<1>2. k = 0 \/ u = <<>> => Parse(t) = SyntaxError
  BY <1>1, Zenon DEF Parse
<1>3. k # 0 /\ u # <<>> /\ k > Len(s) => Parse(t) = Ref(u, NoParams)
  BY <1>1, Zenon DEF Parse
<1>4. ASSUME NEW first, NEW list, k # 0, u # <<>>,
             ~(k > Len(s)), first = SkipWS(s, k + 1), list = ReadParams(s, first)
      PROVE  Parse(t) = Outcome(s, u, first, list)
  BY <1>1, <1>4, Zenon DEF Parse, Outcome
<1> QED
  BY <1>2, <1>3, <1>4

\* The text t has this meaning for Parse.
MeansTo(t, s) ==
  IF Acceptable(s) THEN Parse(t) = Ref(Part(s, 0), Values(s)) ELSE Failed(Parse(t))

\* Parse reads the meaning of a text.
LEMMA ParseReadsMeaning ==
  ASSUME NEW t \in Text
  PROVE  MeansTo(t, TrimSpace(t))
<1>1. PICK s \in Text : s = TrimSpace(t) /\ At(s, 1) # Blank
  BY TrimSpaceText DEF White
<1>2. PICK n \in Nat : n = Len(s)
  BY Marks
<1>3. PICK k, u : NameRead(t, s, u, k)
  BY <1>1, Zenon DEF NameRead
<1>4. PICK q : q = Cut(s, 0)
  OBVIOUS
<1>5. /\ Readable(s, TRUE, 1, q) => k = q /\ u = Part(s, 0)
      /\ ~Readable(s, TRUE, 1, q) => k = 0
  <2>1. SkipsAndReads(s, TRUE, 0 + 1, Cut(s, 0))
    BY PartIs, Zenon DEF Starts
  <2>2. SkipWS(s, 1) = 1
    <3>1. 1 \in 1..(n + 1) /\ \A j \in 1..(1 - 1) : At(s, j) = Blank
      OBVIOUS
    <3> QED
      BY <1>1, <1>2, <3>1, SkipsTo
  <2>3. 0 + 1 = 1
    OBVIOUS
  <2>4. SkipsAndReads(s, TRUE, 1, q)
    BY <1>4, <2>1, <2>3, Zenon
  <2>5. Part(s, 0) = Trim(Unescaped(s, 1, q))
    BY <1>4, <2>3, Zenon DEF Part
  <2> QED
    BY <1>3, <2>2, <2>4, <2>5, Zenon DEF SkipsAndReads, NameRead
<1>6. Failed(SyntaxError) /\ Failed(DuplicateKey)
  BY DEF Failed, SyntaxError, DuplicateKey
<1>7. CASE ~Readable(s, TRUE, 1, q) \/ Part(s, 0) = <<>>
  <2>1. ~Acceptable(s)
    BY <1>4, <1>7, AcceptableIs, Zenon
  <2>2. k = 0 \/ u = <<>>
    BY <1>5, <1>7, Zenon
  <2>3. Parse(t) = SyntaxError
    BY <1>3, <2>2, ParseCases, Zenon
  <2> QED
    BY <1>1, <1>6, <2>1, <2>3, Zenon DEF MeansTo
<1>8. CASE Readable(s, TRUE, 1, q) /\ Part(s, 0) # <<>>
  <2>1. k = q /\ u = Part(s, 0) /\ u # <<>>
    BY <1>5, <1>8, Zenon
  <2>2. k # 0 /\ (q = n + 1 \/ q \in 1..n)
    <3>1. 0 \in 0..n
      OBVIOUS
    <3>2. q \in (0 + 1)..(n + 1)
      BY <1>2, <1>4, <3>1, NextIs
    <3> QED
      BY <2>1, <3>2
  <2>3. ASSUME q = n + 1 PROVE MeansTo(t, s)
    <3>1. Acceptable(s) /\ Opening(s) = {}
      BY <1>2, <1>4, <1>8, <2>3, OnlyName, Zenon
    <3>2. k # 0 /\ u # <<>> /\ k > Len(s)
      <4>1. k > Len(s)
        BY <1>2, <2>1, <2>3
      <4> QED
        BY <2>1, <2>2, <4>1
    <3>3. Parse(t) = Ref(u, NoParams)
      BY <1>3, <3>2, ParseCases, SMT
    <3>4. Values(s) = NoParams
      BY <3>1, NoValues, Zenon
    <3> QED
      BY <2>1, <3>1, <3>3, <3>4, Zenon DEF MeansTo
  <2>4. ASSUME q \in 1..n PROVE MeansTo(t, s)
    <3>1. ~(k > Len(s)) /\ k + 1 \in 1..(n + 1) /\ q # Len(s) + 1
      BY <1>2, <2>1, <2>4
    <3>2. Headed(s, q)
      BY <1>4, <1>8, <3>1, Zenon DEF Headed
    <3>3. PICK first, list : first = SkipWS(s, k + 1) /\ list = ReadParams(s, first)
      OBVIOUS
    <3>4. Parse(t) = Outcome(s, u, first, list)
      <4>1. k # 0 /\ u # <<>> /\ ~(k > Len(s))
        BY <2>1, <2>2, <3>1
      <4> QED
        BY <1>3, <3>3, <4>1, ParseCases, Zenon
    <3>5. CASE At(s, first) = ")"
      <4>1. /\ Acceptable(s) <=> first = Len(s)
            /\ Acceptable(s) => Opening(s) = {}
        BY <2>1, <3>2, <3>3, <3>5, EmptyList, Zenon
      <4>2. Acceptable(s) => Values(s) = NoParams
        BY <4>1, NoValues, Zenon
      <4> QED
        BY <1>6, <2>1, <3>4, <3>5, <4>1, <4>2, Zenon DEF MeansTo, Outcome
    <3>6. CASE At(s, first) # ")"
      <4>1. /\ Acceptable(s) <=> GoodFrom(s, q) /\ ~Ambiguous(s, Opening(s))
            /\ OpeningFrom(s, q) = Opening(s)
        BY <2>1, <3>2, <3>3, <3>6, OtherList, Zenon
      <4>2. list = ReadParams(s, q + 1)
        BY <1>2, <2>1, <3>1, <3>3, ListAfterBlanks, Zenon
      <4>3. ReadsGood(s, q)
        BY <3>2, HeadedIs, ReadsGoodLists, Zenon
      <4>4. /\ list.closed <=> GoodFrom(s, q)
            /\ GoodFrom(s, q) => Tells(s, Opening(s), list.pairs)
        BY <4>1, <4>2, <4>3, Zenon DEF ReadsGood
      <4>5. GoodFrom(s, q) => (Repeated(list.pairs) <=> Ambiguous(s, Opening(s)))
        BY <4>4, Zenon DEF Tells
      <4>6. Acceptable(s) => Collected(list.pairs) = Values(s)
        BY <4>1, <4>4, ValuesAre, Zenon
      <4>7. CASE Acceptable(s)
        <5>1. ~Repeated(list.pairs) /\ list.closed
          BY <4>1, <4>4, <4>5, <4>7, Zenon
        <5>2. Parse(t) = Ref(u, Collected(list.pairs))
          BY <3>4, <3>6, <5>1, Zenon DEF Outcome
        <5> QED
          BY <2>1, <4>6, <4>7, <5>2, Zenon DEF MeansTo
      <4>8. CASE ~Acceptable(s)
        <5>1. Repeated(list.pairs) \/ ~list.closed
          BY <4>1, <4>4, <4>5, <4>8, Zenon
        <5>2. Parse(t) = DuplicateKey \/ Parse(t) = SyntaxError
          BY <3>4, <3>6, <5>1, Zenon DEF Outcome
        <5> QED
          BY <1>6, <4>8, <5>2, Zenon DEF MeansTo
      <4> QED
        BY <4>7, <4>8
    <3> QED
      BY <3>5, <3>6
  <2> QED
    BY <1>1, <2>2, <2>3, <2>4, Zenon
<1> QED
  BY <1>7, <1>8, Zenon

\* Of the texts of the grammar, Parse accepts exactly those whose keys are neither
\* empty nor repeated, whatever characters are typed, and reads the reference they
\* mean; it accepts no others (tables.go:77-238, tables/doc.go:26-40).
THEOREM ParsesTheGrammarAlways == Spec => []ParsesTheGrammar
<1>1. TextOK => ParsesTheGrammar
  <2>1. SUFFICES ASSUME text \in Text PROVE ParsesTheGrammar
    BY DEF TextOK
  <2>2. PICK s : s = TrimSpace(text)
    OBVIOUS
  <2>3. MeansTo(text, s)
    BY <2>1, <2>2, ParseReadsMeaning, Zenon
  <2>4. Meaning(s) = Ref(Part(s, 0), Values(s))
    BY DEF Meaning, Values
  <2>5. IF WellFormed(s) /\ Keyed(s) THEN Parse(text) = Meaning(s) ELSE Failed(Parse(text))
    BY <2>3, <2>4, Zenon DEF MeansTo, Acceptable
  <2> QED
    BY <2>2, <2>5, Zenon DEF ParsesTheGrammar
<1> QED
  BY <1>1, TextAlways, PTL
=============================================================================
