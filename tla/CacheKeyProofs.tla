-------------------------- MODULE CacheKeyProofs --------------------------
(* Proofs, for any requests, that cache keys are shared by whoever asks    *)
(* the same thing, and, where no table is named after the label of a key   *)
(* part, by nobody else.                                                   *)
EXTENDS KeyComparison, FiniteSetTheorems, FunctionTheorems, WellFoundedInduction, TLAPS

\* What is known of the requests.
LEMMA RequestTypes ==
  /\ None \notin Requests /\ None \notin Seq(Nat)
  /\ \A in \in Requests :
       /\ in.path \in STRING
       /\ in.path = "columns" => in.tables \in Seq(Nat)
       /\ in.path = "tableParameterValues" => in.table \in FreeText /\ in.tableParameter \in FreeText
       /\ in.path = "columnValues" => in.table \in FreeText /\ in.columns \in Seq(Nat)
BY RequestsAssumption DEF TypedFields

----------------------------------------------------------------------------
(* Sorting.                                                                *)

\* Reordering can be undone,
LEMMA PermutedBack ==
  ASSUME NEW s, NEW t, Permuted(s, t)
  PROVE  Permuted(t, s)
<1>1. PICK p \in Bijection(DOMAIN s, DOMAIN t) : \A i \in DOMAIN s : t[p[i]] = s[i]
  BY DEF Permuted
<1>2. PICK q \in Bijection(DOMAIN t, DOMAIN s) : q = Inverse(p, DOMAIN s, DOMAIN t)
  BY Fun_BijInverse
<1>3. \A j \in DOMAIN t : p[q[j]] = j
  BY <1>2, Fun_BijInverse, Fun_BijectionProperties
<1>4. \A j \in DOMAIN t : q[j] \in DOMAIN s
  BY <1>2, Fun_BijectionProperties
<1> QED
  BY <1>1, <1>3, <1>4 DEF Permuted

\* and repeated.
LEMMA PermutedOn ==
  ASSUME NEW s, NEW t, NEW u, Permuted(s, t), Permuted(t, u)
  PROVE  Permuted(s, u)
<1>1. PICK p \in Bijection(DOMAIN s, DOMAIN t) : \A i \in DOMAIN s : t[p[i]] = s[i]
  BY DEF Permuted
<1>2. PICK q \in Bijection(DOMAIN t, DOMAIN u) : \A i \in DOMAIN t : u[q[i]] = t[i]
  BY DEF Permuted
<1>3. PICK r \in Bijection(DOMAIN s, DOMAIN u) : r = [i \in DOMAIN s |-> q[p[i]]]
  BY Fun_BijTransitive
<1>4. \A i \in DOMAIN s : p[i] \in DOMAIN t
  BY Fun_BijectionProperties
<1> QED
  BY <1>1, <1>2, <1>3, <1>4 DEF Permuted

\* An interval from 1 is finite.
LEMMA Interval ==
  ASSUME NEW n \in Nat
  PROVE  IsFiniteSet(1..n) /\ Cardinality(1..n) = n
<1>1. 1 \in Int /\ n \in Int
  OBVIOUS
<1>2. IsFiniteSet(1..n) /\ Cardinality(1..n) = IF 1 > n THEN 0 ELSE n - 1 + 1
  BY <1>1, FS_Interval, Zenon
<1> QED
  BY <1>2

\* A reordered list has the length and the members of the list.
LEMMA PermutedLikeness ==
  ASSUME NEW S, NEW s \in Seq(S), NEW t \in Seq(S), Permuted(s, t)
  PROVE  DOMAIN s = DOMAIN t /\ Range(s) = Range(t)
<1>1. PICK p \in Bijection(DOMAIN s, DOMAIN t) : \A i \in DOMAIN s : t[p[i]] = s[i]
  BY DEF Permuted
<1>2. DOMAIN s = 1..Len(s) /\ DOMAIN t = 1..Len(t) /\ Len(s) \in Nat /\ Len(t) \in Nat
  OBVIOUS
<1>3. /\ IsFiniteSet(1..Len(s)) /\ Cardinality(1..Len(s)) = Len(s)
      /\ Cardinality(1..Len(t)) = Len(t)
  BY <1>2, Interval
<1>4. ExistsBijection(1..Len(s), 1..Len(t))
  BY <1>1, <1>2 DEF ExistsBijection
<1>5. Len(s) = Len(t)
  BY <1>3, <1>4, FS_Bijection
<1>6. \A i \in DOMAIN s : p[i] \in DOMAIN t
  BY Fun_BijectionProperties
<1>7. \A j \in DOMAIN t : \E i \in DOMAIN s : p[i] = j
  BY Fun_BijectionProperties
<1>8. DOMAIN s = DOMAIN t
  BY <1>2, <1>5
<1>9. Range(s) \subseteq Range(t)
  BY <1>1, <1>6 DEF Range
<1>10. Range(t) \subseteq Range(s)
  BY <1>1, <1>7 DEF Range
<1> QED
  BY <1>8, <1>9, <1>10

\* Reordered lists have one sorted copy.
LEMMA SortedAlike ==
  ASSUME NEW S, NEW s \in Seq(S), NEW t \in Seq(S), Permuted(s, t)
  PROVE  SortedStrings(s) = SortedStrings(t)
<1>1. DOMAIN s = DOMAIN t /\ Range(s) = Range(t)
  BY PermutedLikeness
<1>2. \A u : Permuted(s, u) <=> Permuted(t, u)
  BY PermutedBack, PermutedOn
<1>3. SortedCopies(s) = SortedCopies(t)
  BY <1>1, <1>2 DEF SortedCopies
<1> QED
  BY <1>3 DEF SortedStrings

\* The place of an index in the sorted list: how many come before it.
Before(s, i) == {j \in DOMAIN s : s[j] < s[i] \/ (s[j] = s[i] /\ j <= i)}
Rank(s)      == [i \in DOMAIN s |-> Cardinality(Before(s, i))]

\* The places are those of the list, each taken once, in order.
LEMMA Ranks ==
  ASSUME NEW s \in Seq(Nat)
  PROVE  /\ Rank(s) \in Bijection(DOMAIN s, DOMAIN s)
         /\ \A i, j \in DOMAIN s : s[i] < s[j] => Rank(s)[i] < Rank(s)[j]
<1>1. DOMAIN s = 1..Len(s) /\ Len(s) \in Nat /\ \A i \in DOMAIN s : s[i] \in Nat /\ i \in Nat
  OBVIOUS
<1>2. IsFiniteSet(DOMAIN s) /\ Cardinality(DOMAIN s) = Len(s)
  BY <1>1, Interval
<1>3. ASSUME NEW i \in DOMAIN s
      PROVE  /\ IsFiniteSet(Before(s, i)) /\ i \in Before(s, i)
             /\ Cardinality(Before(s, i)) \in 1..Len(s)
  <2>1. Before(s, i) \in SUBSET DOMAIN s /\ i \in Before(s, i)
    BY <1>1 DEF Before
  <2>2. IsFiniteSet(Before(s, i)) /\ Cardinality(Before(s, i)) <= Len(s)
    BY <1>2, <2>1, FS_Subset
  <2>3. Cardinality(Before(s, i)) \in Nat /\ Cardinality(Before(s, i)) # 0
    BY <2>1, <2>2, FS_CardinalityType, FS_EmptySet
  <2> QED
    BY <1>1, <2>1, <2>2, <2>3
<1>4. ASSUME NEW i \in DOMAIN s, NEW j \in DOMAIN s, s[i] < s[j] \/ (s[i] = s[j] /\ i < j)
      PROVE  Rank(s)[i] < Rank(s)[j]
  <2>1. Before(s, i) \subseteq Before(s, j) /\ j \notin Before(s, i) /\ j \in Before(s, j)
    BY <1>1, <1>4 DEF Before
  <2>2. /\ Cardinality(Before(s, i)) <= Cardinality(Before(s, j))
        /\ Cardinality(Before(s, i)) # Cardinality(Before(s, j))
    BY <1>3, <2>1, FS_Subset
  <2>3. Cardinality(Before(s, i)) \in Nat /\ Cardinality(Before(s, j)) \in Nat
    BY <1>3
  <2> QED
    BY <2>2, <2>3 DEF Rank
<1>5. Rank(s) \in [DOMAIN s -> DOMAIN s]
  BY <1>1, <1>3 DEF Rank
<1>6. \A i, j \in DOMAIN s : Rank(s)[i] = Rank(s)[j] => i = j
  <2>1. SUFFICES ASSUME NEW i \in DOMAIN s, NEW j \in DOMAIN s, i # j
                 PROVE  Rank(s)[i] # Rank(s)[j]
    OBVIOUS
  <2>2. Rank(s)[i] < Rank(s)[j] \/ Rank(s)[j] < Rank(s)[i]
    BY <1>1, <1>4, <2>1
  <2> QED
    BY <1>1, <1>5, <2>2
<1>7. Rank(s) \in Injection(DOMAIN s, DOMAIN s)
  BY <1>5, <1>6, Fun_IsInj
<1>8. Rank(s) \in Surjection(DOMAIN s, DOMAIN s)
  BY <1>2, <1>7, FS_Injection
<1> QED
  BY <1>4, <1>7, <1>8, Fun_IsBij

\* Every list has a sorted copy: sort.Strings returns one.
LEMMA SortedCopyExists ==
  ASSUME NEW s \in Seq(Nat)
  PROVE  /\ SortedStrings(s) \in SortedCopies(s)
         /\ SortedStrings(s) \in Seq(Nat) /\ Permuted(s, SortedStrings(s))
<1>1. PICK r \in Bijection(DOMAIN s, DOMAIN s) :
        r = Rank(s) /\ \A i, j \in DOMAIN s : s[i] < s[j] => r[i] < r[j]
  BY Ranks
<1>2. PICK q \in Bijection(DOMAIN s, DOMAIN s) : q = Inverse(r, DOMAIN s, DOMAIN s)
  BY Fun_BijInverse
<1>3. /\ \A i \in DOMAIN s : r[i] \in DOMAIN s /\ q[r[i]] = i
      /\ \A j \in DOMAIN s : q[j] \in DOMAIN s /\ r[q[j]] = j
  <2>1. \A i \in DOMAIN s : r[i] \in DOMAIN s /\ q[r[i]] = i
    BY <1>2, Fun_BijInverse, Fun_BijectionProperties
  <2>2. \A j \in DOMAIN s : q[j] \in DOMAIN s
    BY Fun_BijectionProperties
  <2>3. \A j \in DOMAIN s : \E i \in DOMAIN s : r[i] = j
    BY Fun_BijectionProperties
  <2> QED
    BY <2>1, <2>2, <2>3
<1> DEFINE t == [j \in DOMAIN s |-> s[q[j]]]
<1>4. t \in [DOMAIN s -> Range(s)]
  BY <1>3 DEF Range
<1>5. Permuted(s, t)
  <2>1. DOMAIN t = DOMAIN s /\ \A i \in DOMAIN s : t[r[i]] = s[i]
    BY <1>3
  <2> QED
    BY <1>1, <2>1 DEF Permuted
<1>6. \A i, j \in DOMAIN t : i <= j => t[i] <= t[j]
  <2>1. SUFFICES ASSUME NEW i \in DOMAIN s, NEW j \in DOMAIN s, i <= j, ~(t[i] <= t[j])
                 PROVE  FALSE
    OBVIOUS
  <2>2. s[q[j]] < s[q[i]] /\ i \in Nat /\ j \in Nat
    <3>1. /\ t[i] = s[q[i]] /\ t[j] = s[q[j]]
          /\ q[i] \in DOMAIN s /\ q[j] \in DOMAIN s
      BY <1>3
    <3>2. s[q[i]] \in Nat /\ s[q[j]] \in Nat /\ i \in Nat /\ j \in Nat
      BY <3>1
    <3> HIDE DEF t
    <3> QED
      BY <2>1, <3>1, <3>2
  <2>3. r[q[j]] < r[q[i]]
    BY <1>1, <1>3, <2>2
  <2>4. r[q[i]] = i /\ r[q[j]] = j
    BY <1>3
  <2> QED
    BY <2>1, <2>2, <2>3, <2>4
<1>7. t \in SortedCopies(s)
  BY <1>4, <1>5, <1>6 DEF SortedCopies
<1>8. SortedStrings(s) \in SortedCopies(s)
  BY <1>7 DEF SortedStrings
<1> QED
  <2>1. Permuted(s, SortedStrings(s)) /\ SortedStrings(s) \in [DOMAIN s -> Range(s)]
    BY <1>8 DEF SortedCopies
  <2>2. [DOMAIN s -> Range(s)] \subseteq Seq(Nat)
    <3>1. DOMAIN s = 1..Len(s) /\ Len(s) \in Nat /\ Range(s) \subseteq Nat
      BY DEF Range
    <3> QED
      BY <3>1
  <2> QED
    BY <1>8, <2>1, <2>2

----------------------------------------------------------------------------
(* Running parts together.                                                 *)

\* A set of naturals has a smallest member: what fails for some n fails for
\* a first one.
LEMMA Smallest ==
  ASSUME NEW T, T \subseteq Nat, T # {}
  PROVE  \E n \in T : \A k \in T : n <= k
<1>1. OpToRel(<, Nat) = {ss \in Nat \X Nat : ss[1] < ss[2]}
  BY DEF OpToRel
<1>2. IsWellFoundedOn({ss \in Nat \X Nat : ss[1] < ss[2]}, Nat)
  BY <1>1, NatLessThanWellFounded, Zenon
<1>3. \E n \in T : \A k \in T : ~ (<<k, n>> \in {ss \in Nat \X Nat : ss[1] < ss[2]})
  BY <1>2, WFMin, Zenon
<1>4. PICK n \in T : \A k \in T : ~ (<<k, n>> \in {ss \in Nat \X Nat : ss[1] < ss[2]})
  BY <1>3
<1>5. ASSUME NEW k \in T PROVE n <= k
  <2>1. ~ (<<k, n>> \in {ss \in Nat \X Nat : ss[1] < ss[2]})
    BY <1>4
  <2>2. <<k, n>> \in Nat \X Nat /\ <<k, n>>[1] = k /\ <<k, n>>[2] = n
    OBVIOUS
  <2>3. ~(k < n)
    BY <2>1, <2>2
  <2> QED
    BY <2>3
<1> QED
  BY <1>5

\* What FlattenSeq computes: f[i] is the first i lists of ss, run together.
Runs(ss, n, f) == f = [i \in 1..n |-> IF i = 1 THEN ss[i] ELSE f[i - 1] \o ss[i]]

\* The first runs.
FiveRuns(ss, f) ==
  /\ f[1] = ss[1] /\ f[2] = f[1] \o ss[2] /\ f[3] = f[2] \o ss[3]
  /\ f[4] = f[3] \o ss[4] /\ f[5] = f[4] \o ss[5]

\* Each is the one before and the next part.
LEMMA FirstRuns ==
  ASSUME NEW n \in Nat, NEW ss, NEW f, Runs(ss, n, f), n > 5
  PROVE  FiveRuns(ss, f)
<1>1. f[1] = ss[1]
  BY DEF Runs
<1>2. 1 \in 1..n /\ 2 \in 1..n /\ 3 \in 1..n /\ 4 \in 1..n /\ 5 \in 1..n
  OBVIOUS
<1>3. f[2] = f[1] \o ss[2]
  <2>1. f[2] = IF 2 = 1 THEN ss[2] ELSE f[2 - 1] \o ss[2]
    BY <1>2 DEF Runs
  <2> QED
    BY <2>1
<1>4. f[3] = f[2] \o ss[3]
  <2>1. f[3] = IF 3 = 1 THEN ss[3] ELSE f[3 - 1] \o ss[3]
    BY <1>2 DEF Runs
  <2> QED
    BY <2>1
<1>5. f[4] = f[3] \o ss[4]
  <2>1. f[4] = IF 4 = 1 THEN ss[4] ELSE f[4 - 1] \o ss[4]
    BY <1>2 DEF Runs
  <2> QED
    BY <2>1
<1>6. f[5] = f[4] \o ss[5]
  <2>1. f[5] = IF 5 = 1 THEN ss[5] ELSE f[5 - 1] \o ss[5]
    BY <1>2 DEF Runs
  <2> QED
    BY <2>1
<1> QED
  BY <1>1, <1>3, <1>4, <1>5, <1>6 DEF FiveRuns

\* One list after the other can be run together.
LEMMA RunsExist ==
  ASSUME NEW ss, NEW m \in Nat, m > 0
  PROVE  \E f : Runs(ss, m, f)
<1> DEFINE T == {n \in Nat : n > 0 /\ ~ \E f : Runs(ss, n, f)}
<1>1. SUFFICES ASSUME T # {} PROVE FALSE
  OBVIOUS
<1>2. PICK n \in T : \A k \in T : n <= k
  BY <1>1, Smallest
<1>3. n \in Nat /\ n > 0 /\ ~ \E f : Runs(ss, n, f)
  OBVIOUS
<1>4. CASE n = 1
  <2>1. Runs(ss, 1, [i \in 1..1 |-> ss[i]])
    BY DEF Runs
  <2> QED
    BY <1>3, <1>4, <2>1
<1>5. CASE n # 1
  <2>1. n - 1 \in Nat /\ n - 1 > 0 /\ ~(n <= n - 1)
    BY <1>3, <1>5
  <2>2. PICK f : Runs(ss, n - 1, f)
    BY <1>2, <2>1
  <2> DEFINE g == [i \in 1..n |-> IF i = n THEN f[n - 1] \o ss[n] ELSE f[i]]
  <2>3. ASSUME NEW i \in 1..n PROVE g[i] = IF i = 1 THEN ss[i] ELSE g[i - 1] \o ss[i]
    <3>1. CASE i = n
      <4>1. n \in 1..n /\ n - 1 \in 1..n /\ n - 1 # n
        BY <1>3, <1>5
      <4>2. g[n] = f[n - 1] \o ss[n]
        BY <4>1
      <4>3. g[n - 1] = f[n - 1]
        BY <4>1
      <4> HIDE DEF g
      <4> QED
        BY <1>5, <3>1, <4>2, <4>3
    <3>2. CASE i # n
      <4>1. i \in 1..(n - 1) /\ g[i] = f[i] /\ (i # 1 => i - 1 \in 1..n /\ g[i - 1] = f[i - 1])
        BY <1>3, <3>2
      <4>2. f[i] = IF i = 1 THEN ss[i] ELSE f[i - 1] \o ss[i]
        BY <2>2, <4>1 DEF Runs
      <4> QED
        BY <4>1, <4>2
    <3> QED
      BY <3>1, <3>2
  <2>4. g = [i \in 1..n |-> g[i]]
    OBVIOUS
  <2> HIDE DEF g
  <2>5. Runs(ss, n, g)
    BY <2>3, <2>4 DEF Runs
  <2> QED
    BY <1>3, <2>5
<1> QED
  BY <1>4, <1>5

\* Every run is a text,
LEMMA RunsAreTexts ==
  ASSUME NEW S, NEW n \in Nat, NEW ss, NEW f, Runs(ss, n, f), \A i \in 1..n : ss[i] \in Seq(S)
  PROVE  \A k \in 1..n : f[k] \in Seq(S)
<1> DEFINE T == {k \in 1..n : f[k] \notin Seq(S)}
<1>1. SUFFICES ASSUME T # {} PROVE FALSE
  OBVIOUS
<1>2. T \subseteq Nat
  OBVIOUS
<1>3. PICK k \in T : \A j \in T : k <= j
  BY <1>1, <1>2, Smallest
<1>4. k \in 1..n /\ f[k] \notin Seq(S) /\ ss[k] \in Seq(S)
  OBVIOUS
<1>5. f[k] = IF k = 1 THEN ss[k] ELSE f[k - 1] \o ss[k]
  BY <1>4 DEF Runs
<1>6. CASE k = 1
  BY <1>4, <1>5, <1>6
<1>7. CASE k # 1
  <2>1. k - 1 \in 1..n /\ ~(k <= k - 1)
    BY <1>4, <1>7
  <2>2. f[k - 1] \in Seq(S)
    BY <1>3, <2>1
  <2>3. f[k - 1] \o ss[k] \in Seq(S)
    BY <1>4, <2>2
  <2> QED
    BY <1>4, <1>5, <1>7, <2>3
<1> QED
  BY <1>6, <1>7

\* and FlattenSeq computes the last.
LEMMA FlattenRuns ==
  ASSUME NEW ss, Len(ss) \in Nat, Len(ss) > 0
  PROVE  \E f : Runs(ss, Len(ss), f) /\ FlattenSeq(ss) = f[Len(ss)]
<1> DEFINE g == CHOOSE f : Runs(ss, Len(ss), f)
<1>1. Runs(ss, Len(ss), g)
  <2>1. \E f : Runs(ss, Len(ss), f)
    BY RunsExist
  <2> QED
    BY <2>1, Zenon
<1>2. FlattenSeq(ss) = g[Len(ss)]
  BY DEF FlattenSeq, Runs
<1> QED
  BY <1>1, <1>2

\* Lengths and members of two texts run together,
LEMMA Concat ==
  ASSUME NEW S, NEW s \in Seq(S), NEW t \in Seq(S)
  PROVE  /\ s \o t \in Seq(S) /\ Len(s \o t) = Len(s) + Len(t)
         /\ Len(s) \in Nat /\ Len(t) \in Nat
         /\ \A i \in 1..Len(s) : (s \o t)[i] = s[i]
         /\ \A i \in 1..Len(t) : (s \o t)[Len(s) + i] = t[i]
OBVIOUS

\* which begin like the first.
LEMMA KeepsFirst ==
  ASSUME NEW S, NEW s \in Seq(S), NEW t \in Seq(S), Len(s) > 0
  PROVE  s \o t \in Seq(S) /\ Len(s \o t) > 0 /\ (s \o t)[1] = s[1]
OBVIOUS

\* The first chunk is that of the first part.
LEMMA FirstChunk ==
  ASSUME NEW S, NEW ss \in Seq(Seq(S)), NEW c \in S, Len(ss) > 0, ss[1] = <<c>>
  PROVE  FlattenSeq(ss)[1] = c
<1>1. PICK m \in Nat : m = Len(ss)
  OBVIOUS
<1>2. PICK f : Runs(ss, m, f) /\ FlattenSeq(ss) = f[m]
  BY <1>1, FlattenRuns
<1>3. \A i \in 1..m : ss[i] \in Seq(S)
  BY <1>1
<1> DEFINE T == {k \in 1..m : ~(f[k] \in Seq(S) /\ Len(f[k]) > 0 /\ f[k][1] = c)}
<1>4. CASE T = {}
  BY <1>1, <1>2, <1>4
<1>5. CASE T # {}
  <2>1. T \subseteq Nat
    OBVIOUS
  <2>2. PICK k \in T : \A j \in T : k <= j
    BY <1>5, <2>1, Smallest
  <2>3. k \in 1..m /\ ~(f[k] \in Seq(S) /\ Len(f[k]) > 0 /\ f[k][1] = c)
    OBVIOUS
  <2>4. f[k] = IF k = 1 THEN ss[k] ELSE f[k - 1] \o ss[k]
    BY <1>2, <2>3 DEF Runs
  <2>5. CASE k = 1
    <3>1. f[k] = <<c>>
      BY <2>4, <2>5
    <3> QED
      BY <2>3, <3>1
  <2>6. CASE k # 1
    <3>1. k - 1 \in 1..m /\ ~(k <= k - 1)
      BY <2>3, <2>6
    <3>2. f[k - 1] \in Seq(S) /\ Len(f[k - 1]) > 0 /\ f[k - 1][1] = c
      BY <2>2, <3>1
    <3>3. f[k] = f[k - 1] \o ss[k] /\ ss[k] \in Seq(S)
      BY <1>3, <2>3, <2>4, <2>6
    <3> HIDE DEF T
    <3>4. f[k] \in Seq(S) /\ Len(f[k]) > 0 /\ f[k][1] = c
      <4>1. /\ f[k - 1] \o ss[k] \in Seq(S) /\ Len(f[k - 1] \o ss[k]) > 0
            /\ (f[k - 1] \o ss[k])[1] = f[k - 1][1]
        BY <3>2, <3>3, KeepsFirst
      <4> QED
        BY <3>2, <3>3, <4>1, Zenon
    <3> QED
      BY <2>3, <3>4
  <2> QED
    BY <2>5, <2>6
<1> QED
  BY <1>4, <1>5

\* Texts that are equal, and whose ends are of one length, have one end.
LEMMA SplitAlike ==
  ASSUME NEW S, NEW p \in Seq(S), NEW q \in Seq(S), NEW s \in Seq(S), NEW t \in Seq(S),
         Len(s) = Len(t), p \o s = q \o t
  PROVE  p = q /\ s = t
<1>1. /\ Len(p \o s) = Len(p) + Len(s) /\ Len(q \o t) = Len(q) + Len(t)
      /\ Len(p) \in Nat /\ Len(q) \in Nat /\ Len(s) \in Nat
  BY Concat
<1>2. Len(p) = Len(q)
  BY <1>1
<1>3. ASSUME NEW i \in 1..Len(p) PROVE p[i] = q[i]
  <2>1. (p \o s)[i] = p[i] /\ (q \o t)[i] = q[i]
    BY <1>2
  <2> QED
    BY <2>1
<1>4. ASSUME NEW i \in 1..Len(s) PROVE s[i] = t[i]
  <2>1. Len(p) + i > Len(p) /\ (Len(p) + i) - Len(p) = i /\ Len(p) + i \in 1..(Len(p) + Len(s))
    BY <1>1
  <2>2. (p \o s)[Len(p) + i] = s[i] /\ (q \o t)[Len(p) + i] = t[i]
    BY <1>1, <1>2, <2>1
  <2> QED
    BY <2>2
<1>5. p = q
  BY <1>2, <1>3
<1> QED
  BY <1>4, <1>5

\* What follows the same text is told from the whole.
LEMMA SameFirst ==
  ASSUME NEW S, NEW p \in Seq(S), NEW s \in Seq(S), NEW t \in Seq(S), p \o s = p \o t
  PROVE  s = t
<1>1. /\ Len(p \o s) = Len(p) + Len(s) /\ Len(p \o t) = Len(p) + Len(t)
      /\ Len(p) \in Nat /\ Len(s) \in Nat /\ Len(t) \in Nat
  BY Concat
<1>2. Len(s) = Len(t)
  BY <1>1
<1> QED
  BY <1>2, SplitAlike

\* Two lists of n parts that run together alike, of which all but the first
\* m parts have the lengths of their counterparts.
AlikeEnds(S, n, m, ss, tt) ==
  /\ n \in Nat /\ m \in 1..n
  /\ ss \in Seq(Seq(S)) /\ Len(ss) = n
  /\ tt \in Seq(Seq(S)) /\ Len(tt) = n
  /\ FlattenSeq(ss) = FlattenSeq(tt)
  /\ \A i \in (m + 1)..n : Len(ss[i]) = Len(tt[i])

\* The parts at the end are the same, and the first m run together alike.
SameEnds(S, n, m, ss, tt, f, g) ==
  /\ Runs(ss, n, f) /\ Runs(tt, n, g) /\ f[m] = g[m]
  /\ \A i \in 1..n : f[i] \in Seq(S) /\ g[i] \in Seq(S)
  /\ \A i \in (m + 1)..n : ss[i] = tt[i]

\* Parts at the end that have the lengths of their counterparts are told.
LEMMA EndsTold ==
  ASSUME NEW S, NEW n, NEW m, NEW ss, NEW tt, AlikeEnds(S, n, m, ss, tt)
  PROVE  \E f, g : SameEnds(S, n, m, ss, tt, f, g)
<1>1. /\ n \in Nat /\ m \in 1..n /\ n \in 1..n
      /\ \A i \in (m + 1)..n : Len(ss[i]) = Len(tt[i])
  BY DEF AlikeEnds
<1>2. PICK f, g : Runs(ss, n, f) /\ Runs(tt, n, g) /\ f[n] = g[n]
  <2>1. Len(ss) \in Nat /\ Len(ss) > 0 /\ Len(tt) \in Nat /\ Len(tt) > 0
    BY <1>1 DEF AlikeEnds
  <2>2. /\ \E f : Runs(ss, n, f) /\ FlattenSeq(ss) = f[n]
        /\ \E g : Runs(tt, n, g) /\ FlattenSeq(tt) = g[n]
    BY <2>1, FlattenRuns DEF AlikeEnds
  <2> QED
    BY <2>2 DEF AlikeEnds
<1>3. \A i \in 1..n : ss[i] \in Seq(S) /\ tt[i] \in Seq(S)
  BY DEF AlikeEnds
<1>4. \A k \in 1..n : f[k] \in Seq(S) /\ g[k] \in Seq(S)
  BY <1>1, <1>2, <1>3, RunsAreTexts
<1>5. ASSUME NEW k \in (m + 1)..n, f[k] = g[k]
      PROVE  f[k - 1] = g[k - 1] /\ ss[k] = tt[k]
  <2>1. k \in 1..n /\ k - 1 \in 1..n /\ k # 1
    BY <1>1
  <2>2. PICK p \in Seq(S), q \in Seq(S), s \in Seq(S), t \in Seq(S) :
          p = f[k - 1] /\ q = g[k - 1] /\ s = ss[k] /\ t = tt[k]
    BY <1>3, <1>4, <2>1
  <2>3. f[k] = p \o s /\ g[k] = q \o t
    <3>1. f[k] = IF k = 1 THEN ss[k] ELSE f[k - 1] \o ss[k]
      BY <1>2, <2>1 DEF Runs
    <3>2. g[k] = IF k = 1 THEN tt[k] ELSE g[k - 1] \o tt[k]
      BY <1>2, <2>1 DEF Runs
    <3> QED
      BY <2>1, <2>2, <3>1, <3>2
  <2>4. Len(s) = Len(t) /\ p \o s = q \o t
    <3>1. Len(ss[k]) = Len(tt[k]) /\ f[k] = g[k]
      BY <1>1, <1>5
    <3> QED
      BY <2>2, <2>3, <3>1
  <2>5. p = q /\ s = t
    BY <2>4, SplitAlike, ZenonT(60)
  <2> QED
    BY <2>2, <2>5
<1> DEFINE T == {j \in 0..(n - m) : f[n - j] # g[n - j]}
<1>6. T = {}
  <2>1. SUFFICES ASSUME T # {} PROVE FALSE
    OBVIOUS
  <2>2. T \subseteq Nat
    OBVIOUS
  <2>3. PICK j \in T : \A i \in T : j <= i
    BY <2>1, <2>2, Smallest
  <2>4. j \in 0..(n - m) /\ f[n - j] # g[n - j] /\ j # 0
    BY <1>1, <1>2
  <2>5. j - 1 \in 0..(n - m) /\ ~(j <= j - 1) /\ n - (j - 1) \in (m + 1)..n
        /\ n - (j - 1) - 1 = n - j
    BY <1>1, <2>4
  <2>6. f[n - (j - 1)] = g[n - (j - 1)]
    BY <2>3, <2>5
  <2>7. f[n - j] = g[n - j]
    BY <1>5, <2>5, <2>6
  <2> QED
    BY <2>4, <2>7
<1>7. ASSUME NEW k \in m..n PROVE f[k] = g[k]
  <2>1. n - k \in 0..(n - m) /\ n - (n - k) = k
    BY <1>1
  <2>2. f[n - (n - k)] = g[n - (n - k)]
    BY <1>6, <2>1
  <2> QED
    BY <2>1, <2>2
<1>8. m \in m..n /\ \A k \in (m + 1)..n : k \in m..n
  BY <1>1
<1> QED
  BY <1>2, <1>4, <1>5, <1>7, <1>8 DEF SameEnds

\* Two texts that run together alike, each with a label c between a text
\* without that label and another.
AlikeAround(S, c, p, s, q, t) ==
  /\ c \in S /\ p \in Seq(S) /\ q \in Seq(S) /\ s \in Seq(S) /\ t \in Seq(S)
  /\ c \notin Range(p) /\ c \notin Range(q) /\ (p \o <<c>>) \o s = (q \o <<c>>) \o t

\* Where the label comes first tells what is before it and after it.
LEMMA FirstLabel ==
  ASSUME NEW S, NEW c, NEW p, NEW s, NEW q, NEW t, AlikeAround(S, c, p, s, q, t)
  PROVE  p = q /\ s = t
<1> USE DEF AlikeAround
<1>1. ASSUME NEW x \in Seq(S), NEW y \in Seq(S), NEW u \in Seq(S), NEW v \in Seq(S),
             c \notin Range(y), (x \o <<c>>) \o u = (y \o <<c>>) \o v
      PROVE  ~(Len(x) < Len(y))
  <2>1. SUFFICES ASSUME Len(x) < Len(y) PROVE FALSE
    OBVIOUS
  <2>2. Len(x) + 1 \in 1..Len(y) /\ Len(x) \in Nat /\ Len(y) \in Nat
    BY <2>1
  <2>3. ((x \o <<c>>) \o u)[Len(x) + 1] = c
    BY <2>2
  <2>4. ((y \o <<c>>) \o v)[Len(x) + 1] = y[Len(x) + 1]
    BY <2>2
  <2>5. y[Len(x) + 1] = c
    BY <1>1, <2>3, <2>4
  <2>6. y[Len(x) + 1] \in Range(y)
    BY <2>2 DEF Range
  <2> QED
    BY <1>1, <2>5, <2>6
<1>2. Len(p) = Len(q) /\ Len(p) \in Nat
  <2>1. Len(p) \in Nat /\ Len(q) \in Nat
    OBVIOUS
  <2>2. ~(Len(p) < Len(q)) /\ ~(Len(q) < Len(p))
    BY <1>1
  <2> QED
    BY <2>1, <2>2
<1>3. /\ p \o <<c>> \in Seq(S) /\ q \o <<c>> \in Seq(S)
      /\ Len(p \o <<c>>) = Len(p) + 1 /\ Len(q \o <<c>>) = Len(q) + 1
  OBVIOUS
<1>4. Len(s) = Len(t)
  <2>1. /\ Len((p \o <<c>>) \o s) = Len(p) + 1 + Len(s) /\ Len((q \o <<c>>) \o t) = Len(q) + 1 + Len(t)
        /\ Len(s) \in Nat /\ Len(t) \in Nat
    BY <1>3
  <2> QED
    BY <1>2, <2>1
<1>5. ASSUME NEW i \in 1..Len(p) PROVE p[i] = q[i]
  <2>1. ((p \o <<c>>) \o s)[i] = p[i] /\ ((q \o <<c>>) \o t)[i] = q[i]
    BY <1>2, <1>3
  <2> QED
    BY <2>1
<1>6. ASSUME NEW i \in 1..Len(s) PROVE s[i] = t[i]
  <2>1. ((p \o <<c>>) \o s)[Len(p) + 1 + i] = s[i]
    BY <1>2, <1>3, <1>4
  <2>2. ((q \o <<c>>) \o t)[Len(p) + 1 + i] = t[i]
    BY <1>2, <1>3, <1>4
  <2> QED
    BY <2>1, <2>2
<1>7. p = q
  BY <1>2, <1>5
<1> QED
  BY <1>4, <1>6, <1>7

----------------------------------------------------------------------------
(* The bodies of keys.                                                     *)

\* The words of a body, and its chunks if its JSON parts encode members of V.
\* (The provers do not know that a literal is a STRING.)
Labels == {"table", "tables", "tableParameter", "tableParameters", "columns", "dependencyValues",
           "schemaContext", "timeRange", "request", "unknown"}
Chunk(V) == ({"word"} \X (STRING \cup Labels)) \cup {<<"null">>} \cup {<<"json", v>> : v \in V}

\* A word is one chunk, and so is the JSON of a value.
LEMMA Chunks ==
  ASSUME NEW V
  PROVE  /\ \A w \in STRING \cup Labels :
              <<"word", w>> \in Chunk(V) /\ Word(w) \in Seq(Chunk(V)) /\ Len(Word(w)) = 1
         /\ \A v \in V : JSON(v) \in Seq(Chunk(V)) /\ Len(JSON(v)) = 1
         /\ FreeText \subseteq Seq(Chunk(V))
<1>1. /\ \A w \in STRING \cup Labels : <<"word", w>> \in Chunk(V)
      /\ <<"null">> \in Chunk(V)
      /\ \A v \in V : <<"json", v>> \in Chunk(V)
  BY DEF Chunk
<1>2. {"word"} \X STRING \subseteq Chunk(V)
  BY DEF Chunk
<1>3. ASSUME NEW S, NEW c \in S PROVE << c >> \in Seq(S) /\ Len(<< c >>) = 1
  OBVIOUS
<1>4. ASSUME NEW S, NEW R \in SUBSET S PROVE Seq(R) \subseteq Seq(S)
  OBVIOUS
<1>5. FreeText \subseteq Seq(Chunk(V))
  BY <1>2, <1>4 DEF FreeText
<1>6. \A w \in STRING \cup Labels : Word(w) \in Seq(Chunk(V)) /\ Len(Word(w)) = 1
  BY <1>1, <1>3 DEF Word
<1>7. \A v \in V : JSON(v) \in Seq(Chunk(V)) /\ Len(JSON(v)) = 1
  BY <1>1, <1>3 DEF JSON
<1> QED
  BY <1>1, <1>5, <1>6, <1>7

\* The JSON of anything is one chunk.
LEMMA JSONLength == \A v : Len(JSON(v)) = 1
BY DEF JSON

\* A value is told by its JSON.
LEMMA JSONTells ==
  ASSUME NEW u, NEW v, JSON(u) = JSON(v)
  PROVE  u = v
<1>1. << <<"null">> >>[1] = <<"null">> /\ Len(<<"null">>) = 1
  OBVIOUS
<1>2. \A w : << <<"json", w>> >>[1] = <<"json", w>> /\ Len(<<"json", w>>) = 2 /\ <<"json", w>>[2] = w
  OBVIOUS
<1> QED
  BY <1>1, <1>2 DEF JSON

\* The values whose JSON a key may hold, the names in their sorted order.
Listed(names) == IF names = <<>> THEN None ELSE SortedStrings(names)
Values(in) ==
  {Listed(in.tables), Listed(in.columns), in.tableParameters, in.schemaContext,
   in.dependencyValues, in.timeRange}

\* The parts that are hashed.
Parts(in) == << Word(in.path) >> \o KeyParts(in)

\* A list of ten parts is a list.
LEMMA TenParts ==
  ASSUME NEW Q, NEW a \in Q, NEW b \in Q, NEW c \in Q, NEW d \in Q, NEW e \in Q,
         NEW f \in Q, NEW g \in Q, NEW h \in Q, NEW i \in Q, NEW j \in Q
  PROVE  <<a, b, c, d, e, f, g, h, i, j>> \in Seq(Q)
OBVIOUS

\* They are texts, the path before those of the endpoint.
LEMMA PartsOfKeys ==
  ASSUME NEW in \in Requests, NEW V, Values(in) \subseteq V
  PROVE  /\ KeyParts(in) \in Seq(Seq(Chunk(V)))
         /\ Parts(in) \in Seq(Seq(Chunk(V))) /\ Len(Parts(in)) = 1 + Len(KeyParts(in))
         /\ Parts(in)[1] = Word(in.path)
         /\ \A i \in 1..Len(KeyParts(in)) : Parts(in)[1 + i] = KeyParts(in)[i]
<1>1. PICK Q : Q = Seq(Chunk(V))
  OBVIOUS
<1>2. /\ \A w \in Labels : Word(w) \in Q
      /\ \A v \in V : JSON(v) \in Q
      /\ FreeText \subseteq Q
  BY <1>1, Chunks
<1>3. Word(in.path) \in Q
  BY <1>1, Chunks, RequestTypes
<1>4. ASSUME NEW p \in Q, NEW rest \in Seq(Q)
      PROVE  /\ <<p>> \o rest \in Seq(Q) /\ Len(<<p>> \o rest) = 1 + Len(rest)
             /\ (<<p>> \o rest)[1] = p
             /\ \A i \in 1..Len(rest) : (<<p>> \o rest)[1 + i] = rest[i]
  OBVIOUS
<1>5. KeyParts(in) \in Seq(Q)
  <2>1. CASE in.path = "columns"
    <3>1. /\ JSON(Listed(in.tables)) \in Q /\ JSON(in.tableParameters) \in Q
          /\ JSON(in.schemaContext) \in Q
          /\ Word("tables") \in Q /\ Word("tableParameters") \in Q /\ Word("schemaContext") \in Q
      BY <1>2 DEF Values, Labels
    <3>2. KeyParts(in) = << Word("tables"), JSON(Listed(in.tables)),
                            Word("tableParameters"), JSON(in.tableParameters),
                            Word("schemaContext"), JSON(in.schemaContext) >>
      BY <2>1 DEF KeyParts, SortedJSON, Listed
    <3> QED
      BY <3>1, <3>2
  <2>2. CASE in.path = "tableParameterValues"
    <3>1. /\ in.table \in Q /\ in.tableParameter \in Q /\ JSON(in.dependencyValues) \in Q
          /\ Word("table") \in Q /\ Word("tableParameter") \in Q /\ Word("dependencyValues") \in Q
      BY <1>2, <2>2, RequestTypes DEF Values, Labels
    <3>2. KeyParts(in) = << Word("table"), in.table, Word("tableParameter"), in.tableParameter,
                            Word("dependencyValues"), JSON(in.dependencyValues) >>
      BY <2>2 DEF KeyParts
    <3> QED
      BY <3>1, <3>2
  <2>3. CASE in.path = "columnValues"
    <3>1. /\ in.table \in Q /\ JSON(Listed(in.columns)) \in Q /\ JSON(in.tableParameters) \in Q
          /\ JSON(in.schemaContext) \in Q /\ JSON(in.timeRange) \in Q
          /\ Word("table") \in Q /\ Word("columns") \in Q /\ Word("tableParameters") \in Q
          /\ Word("schemaContext") \in Q /\ Word("timeRange") \in Q
      BY <1>2, <2>3, RequestTypes DEF Values, Labels
    <3>2. KeyParts(in) = << Word("table"), in.table, Word("columns"), JSON(Listed(in.columns)),
                            Word("tableParameters"), JSON(in.tableParameters),
                            Word("schemaContext"), JSON(in.schemaContext),
                            Word("timeRange"), JSON(in.timeRange) >>
      BY <2>3 DEF KeyParts, SortedJSON, Listed
    <3> QED
      BY <3>1, <3>2, TenParts
  <2>4. CASE in.path \notin {"columns", "tableParameterValues", "columnValues"}
    <3>1. KeyParts(in) = << Word("request") >> \/ KeyParts(in) = << Word("unknown") >>
      BY <2>4 DEF KeyParts
    <3>2. Word("request") \in Q /\ Word("unknown") \in Q
      BY <1>2 DEF Labels
    <3>3. << Word("request") >> \in Seq(Q) /\ << Word("unknown") >> \in Seq(Q)
      BY <3>2
    <3> QED
      BY <3>1, <3>3
  <2> QED
    BY <2>1, <2>2, <2>3, <2>4
<1> QED
  BY <1>1, <1>3, <1>4, <1>5 DEF Parts

\* In particular, the parts come after the path, in order.
LEMMA PartsBehindPath ==
  ASSUME NEW in \in Requests
  PROVE  /\ Parts(in)[1] = Word(in.path)
         /\ \A i \in 1..Len(KeyParts(in)) : Parts(in)[1 + i] = KeyParts(in)[i]
<1>1. PICK V : V = Values(in)
  OBVIOUS
<1> QED
  BY <1>1, PartsOfKeys

\* Two lists with one sorted copy differ only in their order.
LEMMA ListedTells ==
  ASSUME NEW s \in Seq(Nat), NEW t \in Seq(Nat), Listed(s) = Listed(t)
  PROVE  Permuted(s, t)
<1>1. /\ Permuted(s, SortedStrings(s)) /\ SortedStrings(s) \in Seq(Nat)
      /\ Permuted(t, SortedStrings(t)) /\ SortedStrings(t) \in Seq(Nat)
  BY SortedCopyExists
<1>2. SortedStrings(s) = SortedStrings(t)
  BY <1>1, RequestTypes DEF Listed
<1> QED
  BY <1>1, <1>2, PermutedBack, PermutedOn

\* Lists that differ only in their order have one sorted copy.
LEMMA ListedAlike ==
  ASSUME NEW s \in Seq(Nat), NEW t \in Seq(Nat), Permuted(s, t)
  PROVE  Listed(s) = Listed(t)
<1>1. DOMAIN s = DOMAIN t
  BY PermutedLikeness
<1>2. s = <<>> <=> t = <<>>
  BY <1>1
<1>3. SortedStrings(s) = SortedStrings(t)
  BY SortedAlike
<1> QED
  BY <1>2, <1>3 DEF Listed

\* The body of a key begins with the path.
LEMMA PathFirst ==
  ASSUME NEW in \in Requests
  PROVE  FlattenSeq(Parts(in))[1] = <<"word", in.path>>
<1>1. PICK S : S = Chunk(Values(in))
  OBVIOUS
<1>2. PICK ss \in Seq(Seq(S)), c \in S : ss = Parts(in) /\ c = <<"word", in.path>>
  BY <1>1, PartsOfKeys, Chunks, RequestTypes
<1>3. Len(ss) > 0 /\ ss[1] = <<c>>
  <2>1. ASSUME NEW Q, NEW s \in Seq(Q) PROVE 1 + Len(s) > 0
    OBVIOUS
  <2> QED
    BY <1>2, <2>1, PartsOfKeys DEF Word
<1>4. FlattenSeq(ss)[1] = c
  BY <1>3, FirstChunk
<1> QED
  BY <1>2, <1>4

\* Where the body of one request is that of another,
AlikeBodies(a, b) == HashParts(a.path, KeyParts(a)) = HashParts(b.path, KeyParts(b))

\* they are for one endpoint,
LEMMA BodyTellsPath ==
  ASSUME NEW a \in Requests, NEW b \in Requests, AlikeBodies(a, b)
  PROVE  a.path = b.path
<1>1. FlattenSeq(Parts(a)) = FlattenSeq(Parts(b))
  BY DEF AlikeBodies, HashParts, Parts
<1>2. <<"word", a.path>> = <<"word", b.path>>
  BY <1>1, PathFirst
<1> QED
  BY <1>2

\* The free texts and the labels are texts of chunks in S.
HoldsText(S) ==
  /\ FreeText \subseteq Seq(S)
  /\ \A w \in STRING \cup Labels : <<"word", w>> \in S /\ Word(w) \in Seq(S)

\* Requests with n parts each, of which all but the first m (the path is one
\* of these) have the lengths of their counterparts.
AlikeParts(a, b, n, m) ==
  /\ a \in Requests /\ b \in Requests /\ AlikeBodies(a, b)
  /\ n \in Nat /\ Len(KeyParts(a)) = n /\ Len(KeyParts(b)) = n
  /\ m \in 1..(1 + n) /\ \A i \in m..n : Len(KeyParts(a)[i]) = Len(KeyParts(b)[i])

\* Those parts are the same, and the first m run together alike.
LEMMA PartsTold ==
  ASSUME NEW a, NEW b, NEW n, NEW m, AlikeParts(a, b, n, m)
  PROVE  /\ \A i \in m..n : KeyParts(a)[i] = KeyParts(b)[i]
         /\ \E S, f, g : HoldsText(S) /\ SameEnds(S, 1 + n, m, Parts(a), Parts(b), f, g)
<1> USE DEF AlikeParts
<1>1. PICK V, S : V = Values(a) \cup Values(b) /\ S = Chunk(V)
  OBVIOUS
<1>2. PICK k \in Nat, ss \in Seq(Seq(S)), tt \in Seq(Seq(S)) : k = 1 + n /\ ss = Parts(a) /\ tt = Parts(b)
  BY <1>1, PartsOfKeys
<1>3. /\ Len(ss) = k /\ \A i \in 1..n : ss[1 + i] = KeyParts(a)[i]
      /\ Len(tt) = k /\ \A i \in 1..n : tt[1 + i] = KeyParts(b)[i]
  BY <1>2, PartsOfKeys
<1>4. FlattenSeq(ss) = FlattenSeq(tt)
  BY <1>2 DEF AlikeBodies, HashParts, Parts
<1>5. PICK j \in 1..k : j = m
  BY <1>2
<1>6. \A i \in (j + 1)..k : Len(ss[i]) = Len(tt[i])
  <2>1. ASSUME NEW i \in (j + 1)..k PROVE i - 1 \in m..n /\ i - 1 \in 1..n /\ 1 + (i - 1) = i
    BY <1>2, <1>5
  <2> QED
    BY <1>3, <2>1
<1>7. PICK f, g : SameEnds(S, k, j, ss, tt, f, g)
  <2>1. AlikeEnds(S, k, j, ss, tt)
    BY <1>3, <1>4, <1>6 DEF AlikeEnds
  <2> QED
    BY <2>1, EndsTold
<1>8. ASSUME NEW i \in m..n PROVE KeyParts(a)[i] = KeyParts(b)[i]
  <2>1. 1 + i \in (j + 1)..k /\ i \in 1..n
    BY <1>2, <1>5
  <2> QED
    BY <1>3, <1>7, <2>1 DEF SameEnds
<1>9. HoldsText(S)
  BY <1>1, Chunks DEF HoldsText
<1> QED
  BY <1>2, <1>5, <1>7, <1>8, <1>9

\* and the body tells what the endpoint reads: columns,
LEMMA ColumnsTold ==
  ASSUME NEW a \in Requests, NEW b \in Requests, AlikeBodies(a, b),
         a.path = "columns", b.path = "columns"
  PROVE  /\ Listed(a.tables) = Listed(b.tables)
         /\ a.tableParameters = b.tableParameters /\ a.schemaContext = b.schemaContext
<1>1. \A in : in.path = "columns" =>
        KeyParts(in) = << Word("tables"), JSON(Listed(in.tables)),
                          Word("tableParameters"), JSON(in.tableParameters),
                          Word("schemaContext"), JSON(in.schemaContext) >>
  BY DEF KeyParts, SortedJSON, Listed
<1>2. \A in : in.path = "columns" =>
        /\ Len(KeyParts(in)) = 6
        /\ KeyParts(in)[1] = Word("tables") /\ KeyParts(in)[2] = JSON(Listed(in.tables))
        /\ KeyParts(in)[3] = Word("tableParameters") /\ KeyParts(in)[4] = JSON(in.tableParameters)
        /\ KeyParts(in)[5] = Word("schemaContext") /\ KeyParts(in)[6] = JSON(in.schemaContext)
  BY <1>1
<1>3. \A i \in 1..6 : Len(KeyParts(a)[i]) = Len(KeyParts(b)[i])
  <2>1. ASSUME NEW i \in 1..6 PROVE i = 1 \/ i = 2 \/ i = 3 \/ i = 4 \/ i = 5 \/ i = 6
    OBVIOUS
  <2> QED
    BY <1>2, <2>1, JSONLength
<1>4. \A i \in 1..6 : KeyParts(a)[i] = KeyParts(b)[i]
  <2>1. AlikeParts(a, b, 6, 1)
    BY <1>2, <1>3 DEF AlikeParts
  <2> QED
    BY <2>1, PartsTold
<1> QED
  BY <1>2, <1>4, JSONTells

\* columnValues,
LEMMA ColumnValuesTold ==
  ASSUME NEW a \in Requests, NEW b \in Requests, AlikeBodies(a, b),
         a.path = "columnValues", b.path = "columnValues"
  PROVE  /\ a.table = b.table /\ Listed(a.columns) = Listed(b.columns)
         /\ a.tableParameters = b.tableParameters /\ a.schemaContext = b.schemaContext
         /\ a.timeRange = b.timeRange
<1>1. \A in : in.path = "columnValues" =>
        KeyParts(in) = << Word("table"), in.table, Word("columns"), JSON(Listed(in.columns)),
                          Word("tableParameters"), JSON(in.tableParameters),
                          Word("schemaContext"), JSON(in.schemaContext),
                          Word("timeRange"), JSON(in.timeRange) >>
  BY DEF KeyParts, SortedJSON, Listed
<1>2. \A in : in.path = "columnValues" =>
        /\ Len(KeyParts(in)) = 10
        /\ KeyParts(in)[1] = Word("table") /\ KeyParts(in)[2] = in.table
        /\ KeyParts(in)[3] = Word("columns") /\ KeyParts(in)[4] = JSON(Listed(in.columns))
        /\ KeyParts(in)[5] = Word("tableParameters") /\ KeyParts(in)[6] = JSON(in.tableParameters)
        /\ KeyParts(in)[7] = Word("schemaContext") /\ KeyParts(in)[8] = JSON(in.schemaContext)
        /\ KeyParts(in)[9] = Word("timeRange") /\ KeyParts(in)[10] = JSON(in.timeRange)
  BY <1>1
<1>3. AlikeParts(a, b, 10, 3)
  <2>1. ASSUME NEW i \in 3..10
        PROVE  i = 3 \/ i = 4 \/ i = 5 \/ i = 6 \/ i = 7 \/ i = 8 \/ i = 9 \/ i = 10
    OBVIOUS
  <2>2. \A i \in 3..10 : Len(KeyParts(a)[i]) = Len(KeyParts(b)[i])
    BY <1>2, <2>1, JSONLength
  <2>3. 3 \in 1..(1 + 10) /\ Len(KeyParts(a)) = 10 /\ Len(KeyParts(b)) = 10
    BY <1>2
  <2> QED
    BY <2>2, <2>3 DEF AlikeParts
<1>4. \A i \in 3..10 : KeyParts(a)[i] = KeyParts(b)[i]
  BY <1>3, PartsTold
<1>5. a.table = b.table
  <2>1. PICK S, f, g : HoldsText(S) /\ SameEnds(S, 1 + 10, 3, Parts(a), Parts(b), f, g)
    BY <1>3, PartsTold
  <2>2. /\ Runs(Parts(a), 11, f) /\ Runs(Parts(b), 11, g) /\ f[3] = g[3]
    BY <2>1 DEF SameEnds
  <2>3. /\ Parts(a)[1] = Word("columnValues") /\ Parts(a)[2] = Word("table") /\ Parts(a)[3] = a.table
        /\ Parts(b)[1] = Word("columnValues") /\ Parts(b)[2] = Word("table") /\ Parts(b)[3] = b.table
    <3>1. \A i \in 1..10 : Parts(a)[1 + i] = KeyParts(a)[i] /\ Parts(b)[1 + i] = KeyParts(b)[i]
      <4>1. Len(KeyParts(a)) = 10 /\ Len(KeyParts(b)) = 10
        BY <1>2
      <4>2. \A i \in 1..10 : Parts(a)[1 + i] = KeyParts(a)[i]
        BY <4>1, PartsBehindPath
      <4>3. \A i \in 1..10 : Parts(b)[1 + i] = KeyParts(b)[i]
        BY <4>1, PartsBehindPath
      <4> QED
        BY <4>2, <4>3
    <3>2. Parts(a)[1] = Word(a.path) /\ Parts(b)[1] = Word(b.path)
      BY PartsBehindPath
    <3>3. /\ Parts(a)[1 + 1] = KeyParts(a)[1] /\ Parts(a)[1 + 2] = KeyParts(a)[2]
          /\ Parts(b)[1 + 1] = KeyParts(b)[1] /\ Parts(b)[1 + 2] = KeyParts(b)[2]
      BY <3>1
    <3>4. /\ Parts(a)[2] = KeyParts(a)[1] /\ Parts(a)[3] = KeyParts(a)[2]
          /\ Parts(b)[2] = KeyParts(b)[1] /\ Parts(b)[3] = KeyParts(b)[2]
      BY <3>3
    <3>5. /\ KeyParts(a)[1] = Word("table") /\ KeyParts(a)[2] = a.table
          /\ KeyParts(b)[1] = Word("table") /\ KeyParts(b)[2] = b.table
      BY <1>2
    <3> QED
      BY <3>2, <3>4, <3>5
  <2>4. PICK p \in Seq(S), s \in Seq(S), t \in Seq(S) :
          p = Word("columnValues") \o Word("table") /\ s = a.table /\ t = b.table
    <3>1. Word(a.path) \in Seq(S) /\ Word("table") \in Seq(S) /\ a.table \in Seq(S) /\ b.table \in Seq(S)
      BY <2>1, RequestTypes DEF HoldsText, Labels
    <3>2. Word(a.path) \o Word("table") \in Seq(S)
      BY <3>1
    <3> QED
      BY <3>1, <3>2
  <2>5. f[3] = p \o s /\ g[3] = p \o t
    <3>1. FiveRuns(Parts(a), f) /\ FiveRuns(Parts(b), g)
      BY <2>2, FirstRuns
    <3> QED
      BY <2>3, <2>4, <3>1 DEF FiveRuns
  <2>6. s = t
    BY <2>2, <2>5, SameFirst
  <2> QED
    BY <2>4, <2>6
<1> QED
  BY <1>2, <1>4, <1>5, JSONTells

\* A chunk of neither text is in neither run together.
LEMMA InNeither ==
  ASSUME NEW S, NEW l, NEW q \in Seq(S), NEW u \in Seq(S), l \notin Range(q), l \notin Range(u)
  PROVE  q \o u \in Seq(S) /\ l \notin Range(q \o u)
<1>1. q \o u \in Seq(S) /\ DOMAIN (q \o u) = 1..(Len(q) + Len(u)) /\ Len(q) \in Nat /\ Len(u) \in Nat
  OBVIOUS
<1>2. ASSUME NEW i \in 1..(Len(q) + Len(u)) PROVE (q \o u)[i] # l
  <2>1. CASE i \in 1..Len(q)
    <3>1. (q \o u)[i] = q[i] /\ q[i] \in Range(q)
      BY <2>1 DEF Range
    <3> QED
      BY <3>1
  <2>2. CASE i \notin 1..Len(q)
    <3>1. (q \o u)[i] = u[i - Len(q)] /\ i - Len(q) \in 1..Len(u)
      BY <1>1, <2>2
    <3>2. u[i - Len(q)] \in Range(u)
      BY <3>1 DEF Range
    <3> QED
      BY <3>1, <3>2
  <2> QED
    BY <2>1, <2>2
<1> QED
  BY <1>1, <1>2 DEF Range

\* and tableParameterValues.
LEMMA ParameterValuesTold ==
  ASSUME NEW a \in Requests, NEW b \in Requests, AlikeBodies(a, b), LabelFree(a), LabelFree(b),
         a.path = "tableParameterValues", b.path = "tableParameterValues"
  PROVE  /\ a.table = b.table /\ a.tableParameter = b.tableParameter
         /\ a.dependencyValues = b.dependencyValues
<1>1. \A in : in.path = "tableParameterValues" =>
        KeyParts(in) = << Word("table"), in.table, Word("tableParameter"), in.tableParameter,
                          Word("dependencyValues"), JSON(in.dependencyValues) >>
  BY DEF KeyParts
<1>2. \A in : in.path = "tableParameterValues" =>
        /\ Len(KeyParts(in)) = 6
        /\ KeyParts(in)[1] = Word("table") /\ KeyParts(in)[2] = in.table
        /\ KeyParts(in)[3] = Word("tableParameter") /\ KeyParts(in)[4] = in.tableParameter
        /\ KeyParts(in)[5] = Word("dependencyValues") /\ KeyParts(in)[6] = JSON(in.dependencyValues)
  BY <1>1
<1>3. AlikeParts(a, b, 6, 5)
  <2>1. ASSUME NEW i \in 5..6 PROVE i = 5 \/ i = 6
    OBVIOUS
  <2>2. \A i \in 5..6 : Len(KeyParts(a)[i]) = Len(KeyParts(b)[i])
    BY <1>2, <2>1, JSONLength
  <2>3. 5 \in 1..(1 + 6) /\ Len(KeyParts(a)) = 6 /\ Len(KeyParts(b)) = 6
    BY <1>2
  <2> QED
    BY <2>2, <2>3 DEF AlikeParts
<1>4. \A i \in 5..6 : KeyParts(a)[i] = KeyParts(b)[i]
  BY <1>3, PartsTold
<1>5. a.table = b.table /\ a.tableParameter = b.tableParameter
  <2>1. PICK S, f, g : HoldsText(S) /\ SameEnds(S, 1 + 6, 5, Parts(a), Parts(b), f, g)
    BY <1>3, PartsTold
  <2>2. Runs(Parts(a), 7, f) /\ Runs(Parts(b), 7, g) /\ f[5] = g[5]
    BY <2>1 DEF SameEnds
  <2>3. /\ Parts(a)[1] = Word("tableParameterValues") /\ Parts(a)[2] = Word("table")
        /\ Parts(a)[3] = a.table /\ Parts(a)[4] = Word("tableParameter") /\ Parts(a)[5] = a.tableParameter
        /\ Parts(b)[1] = Word("tableParameterValues") /\ Parts(b)[2] = Word("table")
        /\ Parts(b)[3] = b.table /\ Parts(b)[4] = Word("tableParameter") /\ Parts(b)[5] = b.tableParameter
    <3>1. \A i \in 1..6 : Parts(a)[1 + i] = KeyParts(a)[i] /\ Parts(b)[1 + i] = KeyParts(b)[i]
      <4>1. Len(KeyParts(a)) = 6 /\ Len(KeyParts(b)) = 6
        BY <1>2
      <4>2. \A i \in 1..6 : Parts(a)[1 + i] = KeyParts(a)[i]
        BY <4>1, PartsBehindPath
      <4>3. \A i \in 1..6 : Parts(b)[1 + i] = KeyParts(b)[i]
        BY <4>1, PartsBehindPath
      <4> QED
        BY <4>2, <4>3
    <3>2. Parts(a)[1] = Word(a.path) /\ Parts(b)[1] = Word(b.path)
      BY PartsBehindPath
    <3>3. /\ Parts(a)[1 + 1] = KeyParts(a)[1] /\ Parts(a)[1 + 2] = KeyParts(a)[2]
          /\ Parts(a)[1 + 3] = KeyParts(a)[3] /\ Parts(a)[1 + 4] = KeyParts(a)[4]
          /\ Parts(b)[1 + 1] = KeyParts(b)[1] /\ Parts(b)[1 + 2] = KeyParts(b)[2]
          /\ Parts(b)[1 + 3] = KeyParts(b)[3] /\ Parts(b)[1 + 4] = KeyParts(b)[4]
      BY <3>1
    <3>4. /\ Parts(a)[2] = KeyParts(a)[1] /\ Parts(a)[3] = KeyParts(a)[2]
          /\ Parts(a)[4] = KeyParts(a)[3] /\ Parts(a)[5] = KeyParts(a)[4]
          /\ Parts(b)[2] = KeyParts(b)[1] /\ Parts(b)[3] = KeyParts(b)[2]
          /\ Parts(b)[4] = KeyParts(b)[3] /\ Parts(b)[5] = KeyParts(b)[4]
      BY <3>3
    <3>5. /\ KeyParts(a)[1] = Word("table") /\ KeyParts(a)[2] = a.table
          /\ KeyParts(a)[3] = Word("tableParameter") /\ KeyParts(a)[4] = a.tableParameter
      BY <1>2
    <3>6. /\ KeyParts(b)[1] = Word("table") /\ KeyParts(b)[2] = b.table
          /\ KeyParts(b)[3] = Word("tableParameter") /\ KeyParts(b)[4] = b.tableParameter
      BY <1>2
    <3> QED
      BY <3>2, <3>4, <3>5, <3>6
  <2>4. PICK l \in S, q \in Seq(S) :
          /\ l = <<"word", "tableParameter">>
          /\ q = Word("tableParameterValues") \o Word("table") /\ l \notin Range(q)
    <3>1. Word(a.path) \in Seq(S)
      BY <2>1, RequestTypes DEF HoldsText
    <3>2. Word("table") \in Seq(S) /\ <<"word", "tableParameter">> \in S
      BY <2>1 DEF HoldsText, Labels
    <3>3. \A c : Range(Word(c)) = {<<"word", c>>}
      BY DEF Word, Range
    <3>4. /\ <<"word", "tableParameter">> \notin Range(Word("tableParameterValues"))
          /\ <<"word", "tableParameter">> \notin Range(Word("table"))
      BY <3>3
    <3> QED
      BY <3>1, <3>2, <3>4, InNeither
  <2>5. PICK s \in Seq(S), t \in Seq(S), x \in Seq(S), y \in Seq(S) :
          s = a.table /\ t = b.table /\ x = a.tableParameter /\ y = b.tableParameter
    BY <2>1, RequestTypes DEF HoldsText
  <2>6. ((q \o s) \o <<l>>) \o x = ((q \o t) \o <<l>>) \o y
    <3>1. FiveRuns(Parts(a), f) /\ FiveRuns(Parts(b), g)
      BY <2>2, FirstRuns
    <3>2. Word("tableParameter") = <<l>>
      BY <2>4 DEF Word
    <3>3. f[5] = ((q \o s) \o <<l>>) \o x
      <4>1. f[1] = Word("tableParameterValues") /\ f[2] = f[1] \o Word("table")
        BY <2>3, <3>1 DEF FiveRuns
      <4>2. f[3] = f[2] \o s /\ f[4] = f[3] \o <<l>> /\ f[5] = f[4] \o x
        BY <2>3, <2>5, <3>1, <3>2 DEF FiveRuns
      <4> QED
        BY <2>4, <4>1, <4>2
    <3>4. g[5] = ((q \o t) \o <<l>>) \o y
      <4>1. g[1] = Word("tableParameterValues") /\ g[2] = g[1] \o Word("table")
        BY <2>3, <3>1 DEF FiveRuns
      <4>2. g[3] = g[2] \o t /\ g[4] = g[3] \o <<l>> /\ g[5] = g[4] \o y
        BY <2>3, <2>5, <3>1, <3>2 DEF FiveRuns
      <4> QED
        BY <2>4, <4>1, <4>2
    <3> QED
      BY <2>2, <3>3, <3>4
  <2>7. l \notin Range(q) /\ l \notin Range(s) /\ l \notin Range(t)
    BY <2>4, <2>5 DEF LabelFree
  <2>8. AlikeAround(S, l, q \o s, x, q \o t, y)
    <3>1. /\ q \o s \in Seq(S) /\ l \notin Range(q \o s)
          /\ q \o t \in Seq(S) /\ l \notin Range(q \o t)
      BY <2>7, InNeither
    <3> QED
      BY <2>6, <3>1 DEF AlikeAround
  <2>9. q \o s = q \o t /\ x = y
    BY <2>8, FirstLabel
  <2>10. s = t
    BY <2>9, SameFirst
  <2> QED
    BY <2>5, <2>9, <2>10
<1> QED
  BY <1>2, <1>4, <1>5, JSONTells

\* So one body is one question,
LEMMA BodyTellsQuestion ==
  ASSUME NEW a \in Requests, NEW b \in Requests, AlikeBodies(a, b), LabelFree(a), LabelFree(b)
  PROVE  SameQuestion(a, b)
<1>1. a.path = b.path
  BY BodyTellsPath
<1>2. CASE a.path = "columns"
  <2>1. /\ Listed(a.tables) = Listed(b.tables)
        /\ a.tableParameters = b.tableParameters /\ a.schemaContext = b.schemaContext
    BY <1>1, <1>2, ColumnsTold
  <2>2. Permuted(a.tables, b.tables)
    BY <1>1, <1>2, <2>1, ListedTells, RequestTypes
  <2> QED
    BY <1>1, <1>2, <2>1, <2>2 DEF SameQuestion, Fields
<1>3. CASE a.path = "tableParameterValues"
  <2>1. /\ a.table = b.table /\ a.tableParameter = b.tableParameter
        /\ a.dependencyValues = b.dependencyValues
    BY <1>1, <1>3, ParameterValuesTold
  <2> QED
    BY <1>1, <1>3, <2>1 DEF SameQuestion, Fields
<1>4. CASE a.path = "columnValues"
  <2>1. /\ a.table = b.table /\ Listed(a.columns) = Listed(b.columns)
        /\ a.tableParameters = b.tableParameters /\ a.schemaContext = b.schemaContext
        /\ a.timeRange = b.timeRange
    BY <1>1, <1>4, ColumnValuesTold
  <2>2. Permuted(a.columns, b.columns)
    BY <1>1, <1>4, <2>1, ListedTells, RequestTypes
  <2> QED
    BY <1>1, <1>4, <2>1, <2>2 DEF SameQuestion, Fields
<1>5. CASE a.path \notin {"columns", "tableParameterValues", "columnValues"}
  BY <1>1, <1>5 DEF SameQuestion, Fields
<1> QED
  BY <1>2, <1>3, <1>4, <1>5

\* and one question one body.
LEMMA QuestionTellsBody ==
  ASSUME NEW a \in Requests, NEW b \in Requests, SameQuestion(a, b)
  PROVE  HashParts(a.path, KeyParts(a)) = HashParts(b.path, KeyParts(b))
<1>1. a.path = b.path
  BY DEF SameQuestion
<1>2. CASE a.path = "columns"
  <2>1. /\ Permuted(a.tables, b.tables)
        /\ a.tableParameters = b.tableParameters /\ a.schemaContext = b.schemaContext
    BY <1>2 DEF SameQuestion, Fields
  <2>2. Listed(a.tables) = Listed(b.tables)
    BY <1>1, <1>2, <2>1, ListedAlike, RequestTypes
  <2>3. SortedJSON(a.tables) = SortedJSON(b.tables)
    BY <2>2 DEF SortedJSON, Listed
  <2>4. KeyParts(a) = KeyParts(b)
    BY <1>1, <1>2, <2>1, <2>3 DEF KeyParts
  <2> QED
    BY <1>1, <2>4
<1>3. CASE a.path = "tableParameterValues"
  <2>1. /\ a.table = b.table /\ a.tableParameter = b.tableParameter
        /\ a.dependencyValues = b.dependencyValues
    BY <1>3 DEF SameQuestion, Fields
  <2>2. KeyParts(a) = KeyParts(b)
    BY <1>1, <1>3, <2>1 DEF KeyParts
  <2> QED
    BY <1>1, <2>2
<1>4. CASE a.path = "columnValues"
  <2>1. /\ a.table = b.table /\ Permuted(a.columns, b.columns)
        /\ a.tableParameters = b.tableParameters /\ a.schemaContext = b.schemaContext
        /\ a.timeRange = b.timeRange
    BY <1>4 DEF SameQuestion, Fields
  <2>2. Listed(a.columns) = Listed(b.columns)
    BY <1>1, <1>4, <2>1, ListedAlike, RequestTypes
  <2>3. SortedJSON(a.columns) = SortedJSON(b.columns)
    BY <2>2 DEF SortedJSON, Listed
  <2>4. KeyParts(a) = KeyParts(b)
    BY <1>1, <1>4, <2>1, <2>3 DEF KeyParts
  <2> QED
    BY <1>1, <2>4
<1>5. CASE a.path \notin {"columns", "tableParameterValues", "columnValues"}
  <2>1. KeyParts(a) = KeyParts(b)
    BY <1>1, <1>5 DEF KeyParts
  <2> QED
    BY <1>1, <2>1
<1> QED
  BY <1>2, <1>3, <1>4, <1>5

\* Users who go by one text are one, or their fields are mixed up.
LEMMA IdentityTells ==
  ASSUME NEW u, NEW v, UserIdentity(u) = UserIdentity(v), UserIdentity(u) # ""
  PROVE  SameUser(u, v) \/ Mixed(u, v)
<1>1. /\ u["login"] = u.login /\ u["email"] = u.email /\ u["name"] = u.name
      /\ v["login"] = v.login /\ v["email"] = v.email /\ v["name"] = v.name
  OBVIOUS
<1>2. "login" # "email" /\ "login" # "name" /\ "email" # "name"
  OBVIOUS
<1> QED
  BY <1>1, <1>2 DEF UserIdentity, SameUser, Mixed

\* An instant and the second it is in.
LEMMA Seconds ==
  ASSUME NEW s \in Int, NEW t \in Int, Unix(s) = Unix(t)
  PROVE  s - t < TicksPerSecond /\ t - s < TicksPerSecond
BY DEF Unix, TicksPerSecond

\* One prefix is made for one place, for configurations close together, and
\* for a user it tells from those who are not mixed up with it.
LEMMA PrefixTells ==
  ASSUME NEW a \in Requests, NEW b \in Requests, NEW s,
         Keyable(a.ctx, s), Keyable(b.ctx, s), Prefix(a.ctx, s) = Prefix(b.ctx, s)
  PROVE  InReach(a, b, s)
<1>1. /\ SamePlace(a, b) /\ Unix(a.ctx.settings.updated) = Unix(b.ctx.settings.updated)
      /\ s = "user" => UserIdentity(a.ctx.user) = UserIdentity(b.ctx.user)
  BY DEF Prefix, SamePlace
<1>2. a.ctx.settings.updated \in Int /\ b.ctx.settings.updated \in Int
  BY RequestsAssumption DEF Keyable, TypedFields
<1>3. s = "user" => SameUser(a.ctx.user, b.ctx.user) \/ Mixed(a.ctx.user, b.ctx.user)
  BY <1>1, IdentityTells DEF Keyable
<1> QED
  BY <1>1, <1>2, <1>3, Seconds DEF InReach

\* And where responses must be shared there is one prefix.
LEMMA ReachTells ==
  ASSUME NEW a, NEW b, NEW s \in Scopes, SameReach(a, b, s)
  PROVE  Prefix(a.ctx, s) = Prefix(b.ctx, s)
<1>1. s = "user" => UserIdentity(a.ctx.user) = UserIdentity(b.ctx.user)
  BY DEF SameReach, SameUser, UserIdentity
<1> QED
  BY <1>1 DEF SameReach, SamePlace, Prefix

----------------------------------------------------------------------------
(* Pairs of requests.                                                      *)

\* The requests compared are requests, in a declared scope.
Comparing ==
  /\ scope \in Scopes
  /\ first \in Requests \cup {None} /\ second \in Requests \cup {None}
  /\ second # None => first # None

\* Which every step keeps.
LEMMA AlwaysComparing == Spec => []Comparing
<1>1. Init => Comparing
  BY DEF Init, Comparing
<1>2. Comparing /\ [Next]_vars => Comparing'
  BY RequestTypes DEF Comparing, Next, AskFirst, AskSecond, Forget, vars
<1> QED
  BY <1>1, <1>2, PTL DEF Spec

\* Whoever asks the same thing has the same key: for any requests, whatever
\* the names, their number and their order.
THEOREM KeysShared == Spec => []KeysAreShared
<1>1. Comparing => KeysAreShared
  <2>1. SUFFICES ASSUME Comparing, second # None,
                        Keyable(first.ctx, scope), Keyable(second.ctx, scope),
                        SameQuestion(first, second), SameReach(first, second, scope)
                 PROVE  SameKey(first, second, scope)
    BY DEF KeysAreShared
  <2>2. first \in Requests /\ second \in Requests /\ scope \in Scopes
    BY <2>1 DEF Comparing
  <2>3. HashParts(first.path, KeyParts(first)) = HashParts(second.path, KeyParts(second))
    BY <2>1, <2>2, QuestionTellsBody
  <2>4. Prefix(first.ctx, scope) = Prefix(second.ctx, scope)
    BY <2>1, <2>2, ReachTells
  <2> QED
    BY <2>1, <2>3, <2>4 DEF SameKey, KeyFromPluginContext
<1> QED
  BY <1>1, AlwaysComparing, PTL

\* And nobody else has it: where no table is named after the label that
\* follows its name in a key, one key is one question, within one tenant,
\* datasource, proxy and, under ScopeUser, user (but for users whose fields
\* are mixed up), and configurations less than a second apart.
THEOREM KeysTellApart ==
  ASSUME \A in \in Requests : LabelFree(in)
  PROVE  Spec => []KeysSeparate
<1>1. Comparing => KeysSeparate
  <2>1. SUFFICES ASSUME Comparing, ShareAKey
                 PROVE  SameQuestion(first, second) /\ InReach(first, second, scope)
    BY DEF KeysSeparate
  <2>2. first \in Requests /\ second \in Requests /\ scope \in Scopes
    BY <2>1 DEF Comparing, ShareAKey
  <2>3. /\ AlikeBodies(first, second)
        /\ Prefix(first.ctx, scope) = Prefix(second.ctx, scope)
    BY <2>1 DEF ShareAKey, SameKey, KeyFromPluginContext, AlikeBodies
  <2>4. SameQuestion(first, second)
    BY <2>2, <2>3, BodyTellsQuestion
  <2>5. InReach(first, second, scope)
    BY <2>1, <2>2, <2>3, PrefixTells DEF ShareAKey, SameKey
  <2> QED
    BY <2>4, <2>5
<1> QED
  BY <1>1, AlwaysComparing, PTL
=============================================================================
