---------------------------- MODULE RankingProofs ----------------------------
(***************************************************************************)
(* Lemmas about the data every part is built from: induction over naturals *)
(* and over finite sets, folds, and what a sorted list, a selection and a  *)
(* concatenation hold.                                                     *)
(***************************************************************************)
EXTENDS Ranking, SequencesExt, FiniteSetTheorems, TLAPS

-----------------------------------------------------------------------------
(* Induction, and folding over a finite set.                               *)

\* A set of naturals that has a member has a least one.
LEMMA LeastNatural ==
    ASSUME NEW T \in SUBSET Nat, T # {}
    PROVE  \E m \in T : \A k \in T : m <= k
<1> DEFINE R == {ss \in Nat \X Nat : ss[1] < ss[2]}
<1>1. R = OpToRel(<, Nat)
    BY DEF OpToRel
<1>2. IsWellFoundedOn(R, Nat)
    BY <1>1, NatLessThanWellFounded
<1> HIDE DEF R
<1>3. PICK m \in T : \A k \in T : ~(<<k, m>> \in R)
    BY <1>2, WFMin
<1>4. \A k \in T : ~(k < m)
    BY <1>3 DEF R
<1> QED
    BY <1>4

\* Induction: a set with zero and with the successor of each natural in it.
LEMMA SetInduction ==
    ASSUME NEW M, 0 \in M, \A m \in Nat : m \in M => m + 1 \in M
    PROVE  Nat \subseteq M
<1> SUFFICES ASSUME Nat \ M # {} PROVE FALSE
    OBVIOUS
<1>1. PICK m \in Nat \ M : \A k \in Nat \ M : m <= k
    BY LeastNatural
<1>2. m \in Nat /\ m # 0 /\ m \notin M
    BY <1>1
<1>3. m - 1 \in Nat /\ (m - 1) + 1 = m /\ ~(m <= m - 1)
    BY <1>2
<1>4. m - 1 \in M
    BY <1>1, <1>3
<1> QED
    BY <1>2, <1>3, <1>4

\* A set of subsets of a finite S has all of them, if it has the empty one and
\* each that has a member whose removal leaves one it has.
LEMMA SubsetInduction ==
    ASSUME NEW S, IsFiniteSet(S), NEW Good,
           {} \in Good,
           \A s \in SUBSET S : s # {} => \E x \in s : s \ {x} \in Good => s \in Good
    PROVE  \A s \in SUBSET S : s \in Good
<1> DEFINE Bad == {s \in SUBSET S : s \notin Good}
           T   == {Cardinality(s) : s \in Bad}
<1>1. \A s \in SUBSET S : IsFiniteSet(s) /\ Cardinality(s) \in Nat
    BY FS_Subset, FS_CardinalityType
<1>2. T \in SUBSET Nat
    BY <1>1
<1>3. T = {}
  <2> SUFFICES ASSUME T # {} PROVE FALSE
      OBVIOUS
  <2>1. PICK m \in T : \A k \in T : m <= k
      BY <1>2, LeastNatural
  <2>2. PICK s \in Bad : m = Cardinality(s)
      BY <2>1
  <2>3. s \in SUBSET S /\ s \notin Good
      OBVIOUS
  <2>8. s # {}
    <3> HIDE DEF Bad, T
    <3> QED
      BY <2>3
  <2>4. PICK x \in s : s \ {x} \in Good => s \in Good
      BY <2>3, <2>8
  <2>5. s \ {x} \in SUBSET S /\ s \ {x} \in Bad
      BY <2>2, <2>3, <2>4
  <2>6. Cardinality(s \ {x}) = Cardinality(s) - 1
      BY <1>1, <2>3, FS_RemoveElement
  <2>7. m <= m - 1 /\ m \in Nat
      BY <1>2, <2>1, <2>2, <2>5, <2>6
  <2> QED
      BY <2>7
<1> QED
    BY <1>3

\* What the community modules' MapThenFoldSet defines: iter on the subsets of S,
\* each from what is left of it when the chosen member is taken out.
FoldOf(iter, S, base, pick, fold) ==
    iter = [s \in SUBSET S |->
              IF s = {} THEN base ELSE fold[<<pick[s], iter[s \ {pick[s]}]>>]]

\* There is such a function: it is built from the smallest subsets up.
LEMMA FoldExists ==
    ASSUME NEW S, IsFiniteSet(S), NEW base, NEW fold, NEW pick,
           \A s \in SUBSET S : s # {} => pick[s] \in s
    PROVE  \E iter : FoldOf(iter, S, base, pick, fold)
<1> DEFINE UpTo(m) == {s \in SUBSET S : Cardinality(s) <= m}
           Stands(g, m) ==
             g = [s \in UpTo(m) |->
                    IF s = {} THEN base ELSE fold[<<pick[s], g[s \ {pick[s]}]>>]]
           Found == {m \in Nat : \E g : Stands(g, m)}
<1>1. \A s \in SUBSET S : IsFiniteSet(s) /\ Cardinality(s) \in Nat
    BY FS_Subset, FS_CardinalityType
<1>2. \A s \in SUBSET S : s # {} =>
         /\ pick[s] \in s /\ s \ {pick[s]} \in SUBSET S
         /\ Cardinality(s \ {pick[s]}) = Cardinality(s) - 1
    BY <1>1, FS_RemoveElement
<1>3. \E g : Stands(g, 0)
  <2> DEFINE g == [s \in UpTo(0) |-> base]
  <2>1. \A s \in UpTo(0) : s = {}
      BY <1>1, FS_EmptySet
  <2>2. Stands(g, 0)
      BY <2>1
  <2> QED
      BY <2>2
<1>4. ASSUME NEW m \in Nat, NEW g, Stands(g, m)
      PROVE  \E h : Stands(h, m + 1)
  <2> DEFINE Value(s, f) == IF s = {} THEN base ELSE fold[<<pick[s], f[s \ {pick[s]}]>>]
             h == [s \in UpTo(m + 1) |-> Value(s, g)]
  <2>1. \A s \in UpTo(m) : g[s] = Value(s, g)
      BY <1>4
  <2>2. \A s \in UpTo(m) : s \in UpTo(m + 1)
      BY <1>1
  <2>3. \A s \in UpTo(m) : h[s] = g[s]
      BY <2>1, <2>2
  <2>4. ASSUME NEW s \in UpTo(m + 1) PROVE Value(s, g) = Value(s, h)
    <3>1. CASE s = {}
        BY <3>1
    <3>2. CASE s # {}
      <4>1. s \ {pick[s]} \in UpTo(m)
          BY <1>1, <1>2, <3>2
      <4>2. h[s \ {pick[s]}] = g[s \ {pick[s]}]
          BY <2>3, <4>1
      <4> QED
          BY <3>2, <4>2
    <3> QED
        BY <3>1, <3>2
  <2>5. h = [s \in UpTo(m + 1) |-> Value(s, h)]
    <3> DEFINE k == [s \in UpTo(m + 1) |-> Value(s, h)]
    <3>1. \A s \in UpTo(m + 1) : h[s] = k[s]
        BY <2>4
    <3> HIDE DEF Value, UpTo
    <3> QED
        BY <3>1
  <2> HIDE DEF h
  <2> QED
      BY <2>5
<1>5. Nat \subseteq Found
  <2> HIDE DEF Stands
  <2>1. 0 \in Found
      BY <1>3
  <2>2. \A m \in Nat : m \in Found => m + 1 \in Found
      BY <1>4
  <2> HIDE DEF Found
  <2> QED
      BY <2>1, <2>2, SetInduction
<1>6. Cardinality(S) \in Nat /\ \A s \in SUBSET S : Cardinality(s) <= Cardinality(S)
    BY FS_CardinalityType, FS_Subset
<1>7. UpTo(Cardinality(S)) = SUBSET S
    BY <1>6
<1>8. PICK g : Stands(g, Cardinality(S))
    BY <1>5, <1>6
<1> QED
    BY <1>7, <1>8 DEF FoldOf

\* And its values are of a type that the base has and every step keeps.
LEMMA FoldIsTyped ==
    ASSUME NEW S, IsFiniteSet(S), NEW A, NEW base \in A, NEW fold \in [S \X A -> A],
           NEW pick, \A s \in SUBSET S : s # {} => pick[s] \in s
    PROVE  \E iter : /\ FoldOf(iter, S, base, pick, fold)
                     /\ \A s \in SUBSET S : iter[s] \in A
<1>1. PICK iter : FoldOf(iter, S, base, pick, fold)
    BY FoldExists
<1>2. \A s \in SUBSET S :
         iter[s] = IF s = {} THEN base ELSE fold[<<pick[s], iter[s \ {pick[s]}]>>]
  <2>1. iter = [s \in SUBSET S |->
                  IF s = {} THEN base ELSE fold[<<pick[s], iter[s \ {pick[s]}]>>]]
      BY <1>1, Zenon DEF FoldOf
  <2> QED
      BY <2>1, Zenon
<1> DEFINE Good == {s \in SUBSET S : iter[s] \in A}
<1>3. {} \in Good
    BY <1>2
<1>4. \A s \in SUBSET S : s # {} => \E x \in s : s \ {x} \in Good => s \in Good
  <2> SUFFICES ASSUME NEW s \in SUBSET S, s # {}, s \ {pick[s]} \in Good
               PROVE  s \in Good
      OBVIOUS
  <2>1. pick[s] \in S /\ iter[s \ {pick[s]}] \in A
      OBVIOUS
  <2>2. iter[s] = fold[<<pick[s], iter[s \ {pick[s]}]>>]
      BY <1>2
  <2> QED
      BY <2>1, <2>2
<1> HIDE DEF Good
<1>5. \A s \in SUBSET S : s \in Good
    BY <1>3, <1>4, SubsetInduction
<1> QED
    BY <1>1, <1>5 DEF Good

\* A bounded set of naturals that has a member has a greatest.
LEMMA MaxIsGreatest ==
    ASSUME NEW n \in Nat, NEW S \in SUBSET Nat, S # {}, \A x \in S : x <= n
    PROVE  Max(S) \in S /\ \A x \in S : x <= Max(S)
<1>1. \E m \in S : \A x \in S : m >= x
  <2> DEFINE U == {k \in Nat : \A x \in S : x <= k}
  <2>1. U \in SUBSET Nat /\ n \in U
      OBVIOUS
  <2>2. PICK k \in U : \A j \in U : k <= j
      BY <2>1, LeastNatural
  <2>3. k \in S
    <3> SUFFICES ASSUME k \notin S PROVE FALSE
        OBVIOUS
    <3>1. PICK z : z \in S
        OBVIOUS
    <3>2. \A x \in S : x \in Nat /\ x <= k /\ x # k
        BY <2>2
    <3>3. k \in Nat /\ k > 0 /\ k - 1 \in Nat
        BY <2>2, <3>1, <3>2
    <3>4. k - 1 \in U
        BY <3>2, <3>3
    <3>5. k <= k - 1
        BY <2>2, <3>4
    <3> QED
        BY <3>3, <3>5
  <2>4. \A x \in S : k >= x
      BY <2>2
  <2> QED
      BY <2>3, <2>4
<1>2. Max(S) \in S /\ \A x \in S : Max(S) >= x
    BY <1>1, Zenon DEF Max
<1> QED
    BY <1>2

LEMMA MaxIsMember ==
    ASSUME NEW n \in Nat, NEW s \in SUBSET (1..n), s # {}
    PROVE  Max(s) \in s
<1>1. s \in SUBSET Nat /\ \A x \in s : x <= n
    OBVIOUS
<1> QED
    BY <1>1, MaxIsGreatest

-----------------------------------------------------------------------------
(* Orders, and what is listed in one.                                      *)

\* before is a strict total order of S.
TotalOrder(S, before) ==
    /\ \A x \in S : <<x, x>> \notin before
    /\ \A x, y, z \in S : <<x, y>> \in before /\ <<y, z>> \in before => <<x, z>> \in before
    /\ \A x, y \in S : x = y \/ <<x, y>> \in before \/ <<y, x>> \in before

\* The list of a finite set in a total order has each member once, and every
\* member is preceded by as many as are before it.
LEMMA RankedLists ==
    ASSUME NEW S, IsFiniteSet(S), NEW before, TotalOrder(S, before)
    PROVE  /\ Cardinality(S) \in Nat
           /\ Ranked(S, before) \in [1..Cardinality(S) -> S]
           /\ \A x \in S : \E n \in 1..Cardinality(S) : Ranked(S, before)[n] = x
           /\ \A n \in 1..Cardinality(S) :
                Cardinality({y \in S : <<y, Ranked(S, before)[n]>> \in before}) = n - 1
           /\ \A m, n \in 1..Cardinality(S) : m # n => Ranked(S, before)[m] # Ranked(S, before)[n]
<1> DEFINE N == Cardinality(S)
           Earlier(x) == {y \in S : <<y, x>> \in before}
           place == [x \in S |-> Cardinality(Earlier(x)) + 1]
           list == Ranked(S, before)
<1>1. N \in Nat
    BY FS_CardinalityType
<1>2. ASSUME NEW x \in S
      PROVE  /\ IsFiniteSet(Earlier(x)) /\ Cardinality(Earlier(x)) \in Nat
             /\ Cardinality(Earlier(x)) + 1 \in 1..N
  <2>1. IsFiniteSet(S \ {x}) /\ Cardinality(S \ {x}) = N - 1
      BY FS_RemoveElement
  <2>2. Earlier(x) \in SUBSET (S \ {x})
      BY DEF TotalOrder
  <2> HIDE DEF Earlier
  <2>3. IsFiniteSet(Earlier(x)) /\ Cardinality(Earlier(x)) <= N - 1
      BY <2>1, <2>2, FS_Subset
  <2>4. Cardinality(Earlier(x)) \in Nat
      BY <2>3, FS_CardinalityType
  <2> QED
      BY <1>1, <2>3, <2>4
<1>3. ASSUME NEW x \in S, NEW y \in S, <<x, y>> \in before
      PROVE  Cardinality(Earlier(x)) # Cardinality(Earlier(y))
  <2>1. Earlier(x) \in SUBSET Earlier(y)
      BY <1>3 DEF TotalOrder
  <2>2. x \in Earlier(y) /\ x \notin Earlier(x)
      BY <1>3 DEF TotalOrder
  <2> HIDE DEF Earlier
  <2> QED
      BY <1>2, <2>1, <2>2, FS_Subset
<1>4. \A x, y \in S : Cardinality(Earlier(x)) = Cardinality(Earlier(y)) => x = y
  <2> SUFFICES ASSUME NEW x \in S, NEW y \in S, x # y
               PROVE  Cardinality(Earlier(x)) # Cardinality(Earlier(y))
      OBVIOUS
  <2>1. <<x, y>> \in before \/ <<y, x>> \in before
      BY DEF TotalOrder
  <2> HIDE DEF Earlier
  <2> QED
      BY <1>3, <2>1
<1> HIDE DEF Earlier
<1>5. place \in Injection(S, 1..N)
  <2>1. place \in [S -> 1..N]
      BY <1>2
  <2>2. \A x, y \in S : place[x] = place[y] => x = y
      BY <1>2, <1>4
  <2> QED
      BY <2>1, <2>2 DEF Injection, IsInjective
<1>6. IsFiniteSet(1..N) /\ Cardinality(1..N) = N
    BY <1>1, FS_Interval
<1>7. place \in Surjection(S, 1..N)
    BY <1>5, <1>6, FS_Injection
<1>8. ASSUME NEW n \in 1..N
      PROVE  \E x \in S : Cardinality(Earlier(x)) = n - 1
  <2>1. PICK x \in S : place[x] = n
      BY <1>7 DEF Surjection
  <2> QED
      BY <1>1, <1>2, <2>1
<1>9. list = [n \in 1..N |-> CHOOSE x \in S : Cardinality(Earlier(x)) = n - 1]
    BY DEF Ranked, Earlier
<1>10. ASSUME NEW n \in 1..N
       PROVE  list[n] \in S /\ Cardinality(Earlier(list[n])) = n - 1
  <2>1. list[n] = CHOOSE x \in S : Cardinality(Earlier(x)) = n - 1
      BY <1>9
  <2> HIDE DEF list
  <2> QED
      BY <1>8, <2>1
<1>11. list \in [1..N -> S]
    BY <1>9, <1>10
<1> HIDE DEF list
<1>12. ASSUME NEW x \in S PROVE \E n \in 1..N : list[n] = x
  <2>1. Cardinality(Earlier(x)) + 1 \in 1..N /\ Cardinality(Earlier(x)) \in Nat
      BY <1>2
  <2>2. Cardinality(Earlier(list[Cardinality(Earlier(x)) + 1])) = Cardinality(Earlier(x))
      BY <1>10, <2>1
  <2> QED
      BY <1>4, <1>10, <2>1, <2>2
<1>13. \A m, n \in 1..N : m # n => list[m] # list[n]
    BY <1>1, <1>10
<1> QED
    BY <1>1, <1>10, <1>11, <1>12, <1>13 DEF list, Earlier

\* Naturals in ascending order, and the lists of numbers in that of cmp.Compare.
LEMMA AscendingIsTotal ==
    ASSUME NEW S \in SUBSET Nat
    PROVE  TotalOrder(S, Ascending(S))
  BY DEF TotalOrder, Ascending

LEMMA LexIsTotal ==
    ASSUME NEW s \in Seq(Nat), NEW t \in Seq(Nat), s # t
    PROVE  LexBefore(s, t) \/ LexBefore(t, s)
<1> DEFINE Differs == {i \in Nat : i \in DOMAIN s \cap DOMAIN t /\ s[i] # t[i]}
<1>1. /\ Len(s) \in Nat /\ DOMAIN s = 1..Len(s) /\ \A i \in 1..Len(s) : s[i] \in Nat
      /\ Len(t) \in Nat /\ DOMAIN t = 1..Len(t) /\ \A i \in 1..Len(t) : t[i] \in Nat
    OBVIOUS
<1>2. CASE Differs # {}
  <2>1. PICK m \in Differs : \A k \in Differs : m <= k
      BY <1>2, LeastNatural
  <2>2. \A j \in 1..(m - 1) : s[j] = t[j]
      BY <1>1, <2>1
  <2>3. s[m] < t[m] \/ t[m] < s[m]
      BY <1>1
  <2> QED
      BY <1>1, <2>2, <2>3 DEF LexBefore
<1>3. CASE Differs = {}
  <2>1. \A i \in DOMAIN s \cap DOMAIN t : s[i] = t[i]
      BY <1>1, <1>3
  <2>2. Len(s) # Len(t)
    <3> SUFFICES ASSUME Len(s) = Len(t) PROVE FALSE
        OBVIOUS
    <3>1. \A i \in 1..Len(s) : s[i] = t[i]
        BY <1>1, <2>1
    <3>2. s = [i \in 1..Len(s) |-> s[i]] /\ t = [i \in 1..Len(t) |-> t[i]]
        OBVIOUS
    <3> QED
        BY <3>1, <3>2
  <2>3. Len(s) < Len(t) \/ Len(t) < Len(s)
    <3> DEFINE m == Len(s)
               n == Len(t)
    <3>1. m \in Nat /\ n \in Nat /\ m # n
        BY <2>2
    <3> HIDE DEF m, n
    <3>2. m < n \/ n < m
        BY <3>1
    <3> QED
        BY <3>2 DEF m, n
  <2> QED
      BY <1>1, <2>1, <2>3 DEF LexBefore
<1> QED
    BY <1>2, <1>3

LEMMA LexIsStrict ==
    ASSUME NEW s \in Seq(Nat)
    PROVE  ~LexBefore(s, s)
  BY DEF LexBefore

LEMMA LexIsTransitive ==
    ASSUME NEW s \in Seq(Nat), NEW t \in Seq(Nat), NEW u \in Seq(Nat),
           LexBefore(s, t), LexBefore(t, u)
    PROVE  LexBefore(s, u)
<1> DEFINE m == Len(s)
           n == Len(t)
           l == Len(u)
           At(a, b, k, i) == /\ i \in 1..k
                             /\ a[i] < b[i] /\ \A j \in 1..(i - 1) : a[j] = b[j]
           Prefix(a, b, k) == \A i \in 1..k : a[i] = b[i]
<1>1. /\ Len(s) \in Nat /\ DOMAIN s = 1..Len(s) /\ \A i \in 1..Len(s) : s[i] \in Nat
      /\ Len(t) \in Nat /\ DOMAIN t = 1..Len(t) /\ \A i \in 1..Len(t) : t[i] \in Nat
      /\ Len(u) \in Nat /\ DOMAIN u = 1..Len(u) /\ \A i \in 1..Len(u) : u[i] \in Nat
    OBVIOUS
<1>2. \/ m < n /\ Prefix(s, t, m)
      \/ \E i \in 1..n : At(s, t, m, i)
    BY <1>1 DEF LexBefore
<1>3. \/ n < l /\ Prefix(t, u, n)
      \/ \E i \in 1..l : At(t, u, n, i)
    BY <1>1 DEF LexBefore
<1>4. m < l /\ Prefix(s, u, m) => LexBefore(s, u)
    BY <1>1 DEF LexBefore
<1>5. \A i \in 1..l : At(s, u, m, i) => LexBefore(s, u)
    BY <1>1 DEF LexBefore
<1>6. /\ m \in Nat /\ \A i \in 1..m : s[i] \in Nat
      /\ n \in Nat /\ \A i \in 1..n : t[i] \in Nat
      /\ l \in Nat /\ \A i \in 1..l : u[i] \in Nat
    BY <1>1
<1> HIDE DEF m, n, l
<1>7. CASE m < n /\ Prefix(s, t, m)
  <2>1. CASE n < l /\ Prefix(t, u, n)
    <3>1. m < l /\ Prefix(s, u, m)
        BY <1>6, <1>7, <2>1
    <3> QED
        BY <1>4, <3>1
  <2>2. ASSUME NEW i \in 1..l, At(t, u, n, i) PROVE LexBefore(s, u)
    <3>1. CASE i <= m
      <4>1. At(s, u, m, i)
          BY <1>6, <1>7, <2>2, <3>1
      <4> QED
          BY <1>5, <4>1
    <3>2. CASE m < i
      <4>1. m < l /\ Prefix(s, u, m)
          BY <1>6, <1>7, <2>2, <3>2
      <4> QED
          BY <1>4, <4>1
    <3> QED
        BY <1>6, <3>1, <3>2
  <2> QED
      BY <1>3, <2>1, <2>2
<1>8. ASSUME NEW i \in 1..n, At(s, t, m, i) PROVE LexBefore(s, u)
  <2>1. CASE n < l /\ Prefix(t, u, n)
    <3>1. i \in 1..l /\ At(s, u, m, i)
        BY <1>6, <1>8, <2>1
    <3> QED
        BY <1>5, <3>1
  <2>2. ASSUME NEW j \in 1..l, At(t, u, n, j) PROVE LexBefore(s, u)
    <3>1. CASE i <= j
      <4>2. i \in Nat /\ j \in Nat /\ i \in 1..l /\ i \in 1..n /\ i \in 1..m
          BY <1>6, <1>8, <3>1
      <4>3. ASSUME NEW k \in 1..(i - 1) PROVE s[k] = u[k]
        <5>1. k \in 1..(j - 1)
            BY <3>1, <4>2
        <5>2. s[k] = t[k]
            BY <1>8
        <5>3. t[k] = u[k]
            BY <2>2, <5>1
        <5> QED
            BY <5>2, <5>3
      <4>4. s[i] < t[i] /\ t[i] <= u[i]
        <5>1. s[i] < t[i] /\ t[j] < u[j]
            BY <1>8, <2>2
        <5>2. t[i] = u[i] \/ i = j
          <6>1. CASE i < j
            <7>1. i \in 1..(j - 1)
                BY <4>2, <6>1
            <7> QED
                BY <2>2, <7>1
          <6> QED
              BY <3>1, <4>2, <6>1
        <5>3. t[i] \in Nat /\ u[i] \in Nat
            BY <1>6, <4>2
        <5> QED
            BY <5>1, <5>2, <5>3
      <4>5. s[i] < u[i]
        <5> DEFINE a == s[i]
                   b == t[i]
                   c == u[i]
        <5>1. a \in Nat /\ b \in Nat /\ c \in Nat
            BY <1>6, <4>2
        <5>2. a < b /\ b <= c
            BY <4>4
        <5> HIDE DEF a, b, c
        <5>3. a < c
            BY <5>1, <5>2
        <5> QED
            BY <5>3 DEF a, c
      <4>1. i \in 1..l /\ At(s, u, m, i)
          BY <4>2, <4>3, <4>5
      <4> QED
          BY <1>5, <4>1
    <3>2. CASE j < i
      <4>1. At(s, u, m, j)
          BY <1>6, <1>8, <2>2, <3>2
      <4> QED
          BY <1>5, <4>1
    <3> QED
        BY <1>6, <3>1, <3>2
  <2> QED
      BY <1>3, <2>1, <2>2
<1> QED
    BY <1>2, <1>7, <1>8

LEMMA ByFieldsIsTotal ==
    ASSUME NEW S \in SUBSET Seq(Nat)
    PROVE  TotalOrder(S, ByFields(S))
<1>1. \A x \in S : <<x, x>> \notin ByFields(S)
    BY LexIsStrict DEF ByFields
<1>2. \A x, y \in S : <<x, y>> \in ByFields(S) <=> LexBefore(x, y)
    BY DEF ByFields
<1>3. \A x, y, z \in S : LexBefore(x, y) /\ LexBefore(y, z) => LexBefore(x, z)
    BY LexIsTransitive
<1>4. \A x, y \in S : x = y \/ LexBefore(x, y) \/ LexBefore(y, x)
    BY LexIsTotal
<1> QED
    BY <1>1, <1>2, <1>3, <1>4 DEF TotalOrder

-----------------------------------------------------------------------------
(* Selections.                                                             *)

\* The positions at which s holds a member of X. Two sequences are alike when
\* each of them holds as many members of any set as the other: one is a
\* rearrangement of the other.
Standing(s, X) == {i \in 1..Len(s) : s[i] \in X}
Alike(s, t) == \A X : Cardinality(Standing(s, X)) = Cardinality(Standing(t, X))

LEMMA StandingIsFinite ==
    ASSUME NEW A, NEW s \in Seq(A), NEW X
    PROVE  /\ Standing(s, X) \in SUBSET Nat /\ IsFiniteSet(Standing(s, X))
           /\ Cardinality(Standing(s, X)) \in Nat
<1>1. Len(s) \in Nat
    OBVIOUS
<1>2. IsFiniteSet(1..Len(s))
    BY <1>1, FS_Interval
<1>3. Standing(s, X) \in SUBSET (1..Len(s)) /\ Standing(s, X) \in SUBSET Nat
    BY <1>1 DEF Standing
<1>4. IsFiniteSet(Standing(s, X))
    BY <1>2, <1>3, FS_Subset
<1> QED
    BY <1>3, <1>4, FS_CardinalityType

\* The finitely many values an operator takes on the elements of a sequence.
LEMMA KeysAreFinite ==
    ASSUME NEW A, NEW s \in Seq(A), NEW value
    PROVE  IsFiniteSet({value[s[i]] : i \in DOMAIN s})
<1> DEFINE D == 1..Len(s)
           T == {value[s[i]] : i \in D}
           f == [i \in D |-> value[s[i]]]
<1>1. Len(s) \in Nat /\ DOMAIN s = D
    OBVIOUS
<1>2. IsFiniteSet(D)
    BY <1>1, FS_Interval
<1>3. f \in Surjection(D, T)
    BY DEF Surjection
<1> HIDE DEF f, D, T
<1>4. IsFiniteSet(T)
    BY <1>2, <1>3, FS_Surjection
<1> QED
    BY <1>1, <1>4 DEF T

\* What stands at the positions I, and nothing else, is selected.
LEMMA WhereSelects ==
    ASSUME NEW A, NEW s \in Seq(A), NEW I \in SUBSET (1..Len(s))
    PROVE  /\ Where(s, I) \in Seq(A)
           /\ Len(Where(s, I)) = Cardinality(I) /\ Cardinality(I) \in Nat
           /\ ToSet(Where(s, I)) = {s[i] : i \in I}
           /\ \E order \in [1..Cardinality(I) -> I] :
                /\ \A i \in I : \E n \in 1..Cardinality(I) : order[n] = i
                /\ \A m, n \in 1..Cardinality(I) : m # n => order[m] # order[n]
                /\ Where(s, I) = [n \in 1..Cardinality(I) |-> s[order[n]]]
<1> DEFINE order == Ranked(I, Ascending(I))
           C == Cardinality(I)
           w == Where(s, I)
<1>1. Len(s) \in Nat /\ \A i \in 1..Len(s) : s[i] \in A
    OBVIOUS
<1>2. I \in SUBSET Nat /\ IsFiniteSet(I)
  <2>1. IsFiniteSet(1..Len(s))
      BY <1>1, FS_Interval
  <2>2. IsFiniteSet(I)
      BY <2>1, FS_Subset
  <2> QED
      BY <1>1, <2>2
<1>3. TotalOrder(I, Ascending(I))
    BY <1>2, AscendingIsTotal
<1>4. /\ C \in Nat /\ order \in [1..C -> I]
      /\ \A i \in I : \E n \in 1..C : order[n] = i
      /\ \A m, n \in 1..C : m # n => order[m] # order[n]
    BY <1>2, <1>3, RankedLists
<1>5. w = [n \in 1..C |-> s[order[n]]]
    BY DEF Where
<1> HIDE DEF order, w, C
<1>6. w \in Seq(A) /\ Len(w) = C /\ DOMAIN w = 1..C
  <2>1. \A n \in 1..C : s[order[n]] \in A
      BY <1>1, <1>4
  <2>2. w \in [1..C -> A]
      BY <1>5, <2>1
  <2> QED
      BY <1>4, <2>2
<1>7. ToSet(w) = {s[i] : i \in I}
  <2>1. \A x \in ToSet(w) : x \in {s[i] : i \in I}
      BY <1>4, <1>5, <1>6 DEF ToSet
  <2>2. ASSUME NEW i \in I PROVE s[i] \in ToSet(w)
    <3>1. PICK n \in 1..C : order[n] = i
        BY <1>4
    <3>2. w[n] = s[i]
        BY <1>5, <3>1
    <3> QED
        BY <1>6, <3>1, <3>2 DEF ToSet
  <2> QED
      BY <2>1, <2>2
<1> QED
    BY <1>4, <1>5, <1>6, <1>7 DEF w, C

\* Two finite sets between which order is a bijection have as many members.
LEMMA SameCount ==
    ASSUME NEW S, NEW T, IsFiniteSet(S), NEW f,
           \A x \in S : f[x] \in T,
           \A x, y \in S : f[x] = f[y] => x = y,
           \A y \in T : \E x \in S : f[x] = y
    PROVE  Cardinality(S) = Cardinality(T)
<1> DEFINE g == [x \in S |-> f[x]]
<1>1. g \in [S -> T]
    OBVIOUS
<1>2. g \in Bijection(S, T)
  <2>1. \A x, y \in S : g[x] = g[y] => x = y
      OBVIOUS
  <2>2. \A y \in T : \E x \in S : g[x] = y
      OBVIOUS
  <2> HIDE DEF g
  <2> QED
      BY <1>1, <2>1, <2>2 DEF Bijection, Injection, IsInjective, Surjection
<1> HIDE DEF g
<1>3. ExistsBijection(S, T)
    BY <1>2 DEF ExistsBijection
<1> QED
    BY <1>3, FS_Bijection

\* Of what is selected for being in Y, as many are in X as there were in both.
LEMMA WhereCounts ==
    ASSUME NEW A, NEW s \in Seq(A), NEW Y, NEW X
    PROVE  Cardinality(Standing(Where(s, Standing(s, Y)), X)) =
             Cardinality(Standing(s, X \cap Y))
<1> DEFINE I == Standing(s, Y)
           C == Cardinality(I)
           w == Where(s, I)
           S == Standing(w, X)
           T == Standing(s, X \cap Y)
<1>1. I \in SUBSET (1..Len(s))
    BY DEF Standing
<1>2. /\ w \in Seq(A) /\ Len(w) = C
      /\ \E order \in [1..C -> I] :
           /\ \A i \in I : \E n \in 1..C : order[n] = i
           /\ \A m, n \in 1..C : m # n => order[m] # order[n]
           /\ w = [n \in 1..C |-> s[order[n]]]
  <2> HIDE DEF I
  <2>1. /\ Where(s, I) \in Seq(A)
        /\ Len(Where(s, I)) = Cardinality(I)
      BY <1>1, WhereSelects
  <2>2. \E order \in [1..Cardinality(I) -> I] :
                /\ \A i \in I : \E n \in 1..Cardinality(I) : order[n] = i
                /\ \A m, n \in 1..Cardinality(I) : m # n => order[m] # order[n]
                /\ Where(s, I) = [n \in 1..Cardinality(I) |-> s[order[n]]]
      BY <1>1, WhereSelects
  <2> QED
      BY <2>1, <2>2
<1>3. PICK order \in [1..C -> I] :
         /\ \A i \in I : \E n \in 1..C : order[n] = i
         /\ \A m, n \in 1..C : m # n => order[m] # order[n]
         /\ w = [n \in 1..C |-> s[order[n]]]
    BY <1>2
<1>4. IsFiniteSet(S)
  <2> HIDE DEF w
  <2> QED
      BY <1>2, StandingIsFinite
<1>5. /\ \A n \in S : n \in 1..C /\ w[n] \in X
      /\ \A n \in 1..C : w[n] \in X => n \in S
    BY <1>2 DEF Standing
<1>6. /\ \A i \in T : i \in I /\ s[i] \in X
      /\ \A i \in I : s[i] \in X => i \in T
    BY DEF Standing
<1> HIDE DEF I, C, w, S, T
<1>7. \A n \in S : order[n] \in T
    BY <1>3, <1>5, <1>6
<1>8. \A m, n \in S : order[m] = order[n] => m = n
    BY <1>3, <1>5
<1>9. \A i \in T : \E n \in S : order[n] = i
    BY <1>3, <1>5, <1>6
<1>10. Cardinality(S) = Cardinality(T)
    BY <1>4, <1>7, <1>8, <1>9, SameCount
<1> QED
    BY <1>10 DEF S, T, w, I

LEMMA WhereAlike ==
    ASSUME NEW A, NEW s \in Seq(A), NEW t \in Seq(A), Alike(s, t), NEW Y
    PROVE  Alike(Where(s, Standing(s, Y)), Where(t, Standing(t, Y)))
<1> SUFFICES ASSUME NEW X
             PROVE  Cardinality(Standing(Where(s, Standing(s, Y)), X)) =
                      Cardinality(Standing(Where(t, Standing(t, Y)), X))
    BY DEF Alike
<1>1. Cardinality(Standing(s, X \cap Y)) = Cardinality(Standing(t, X \cap Y))
    BY DEF Alike
<1>2. Cardinality(Standing(Where(s, Standing(s, Y)), X)) = Cardinality(Standing(s, X \cap Y))
    BY WhereCounts
<1>3. Cardinality(Standing(Where(t, Standing(t, Y)), X)) = Cardinality(Standing(t, X \cap Y))
    BY WhereCounts
<1> QED
    BY <1>1, <1>2, <1>3

\* Sequences that are alike have the same members, and as many.
LEMMA AlikeHoldsTheSame ==
    ASSUME NEW A, NEW s \in Seq(A), NEW t \in Seq(A), Alike(s, t)
    PROVE  ToSet(s) = ToSet(t) /\ Len(s) = Len(t)
<1>1. ASSUME NEW u \in Seq(A), NEW x
      PROVE  x \in ToSet(u) <=> Cardinality(Standing(u, {x})) # 0
  <2>1. x \in ToSet(u) <=> Standing(u, {x}) # {}
      BY DEF ToSet, Standing
  <2> QED
      BY <2>1, StandingIsFinite, FS_EmptySet
<1>2. ASSUME NEW u \in Seq(A) PROVE Len(u) = Cardinality(Standing(u, A))
  <2>1. Len(u) \in Nat /\ Standing(u, A) = 1..Len(u)
      BY DEF Standing
  <2>2. Cardinality(1..Len(u)) = Len(u)
    <3> DEFINE l == Len(u)
    <3>1. l \in Nat
        BY <2>1
    <3> HIDE DEF l
    <3>2. Cardinality(1..l) = l
        BY <3>1, FS_Interval
    <3> QED
        BY <3>2 DEF l
  <2> QED
      BY <2>1, <2>2
<1>3. \A x : x \in ToSet(s) <=> x \in ToSet(t)
    BY <1>1 DEF Alike
<1>4. Len(s) = Len(t)
    BY <1>2 DEF Alike
<1> QED
    BY <1>3, <1>4

\* A permutation of the positions makes a sequence that is alike.
LEMMA PermutedIsAlike ==
    ASSUME NEW A, NEW s \in Seq(A), NEW p \in [1..Len(s) -> 1..Len(s)],
           \A i, j \in 1..Len(s) : i # j => p[i] # p[j]
    PROVE  /\ [i \in 1..Len(s) |-> s[p[i]]] \in Seq(A)
           /\ Alike([i \in 1..Len(s) |-> s[p[i]]], s)
<1> DEFINE D == 1..Len(s)
           t == [i \in D |-> s[p[i]]]
<1>1. Len(s) \in Nat /\ IsFiniteSet(D) /\ \A i \in D : s[i] \in A
    BY FS_Interval
<1>2. t \in Seq(A) /\ Len(t) = Len(s)
  <2>1. t \in [1..Len(s) -> A]
      BY <1>1
  <2> QED
      BY <1>1, <2>1
<1>3. \A j \in D : \E i \in D : p[i] = j
  <2> HIDE DEF D
  <2>1. p \in Injection(D, D)
      BY DEF D, Injection, IsInjective
  <2>2. p \in Surjection(D, D)
      BY <1>1, <2>1, FS_Injection
  <2> QED
      BY <2>2 DEF Surjection
<1>4. ASSUME NEW X
      PROVE  Cardinality(Standing(t, X)) = Cardinality(Standing(s, X))
  <2>1. IsFiniteSet(Standing(t, X))
    <3> HIDE DEF t
    <3> QED
      BY <1>2, StandingIsFinite
  <2>2. \A i : i \in Standing(t, X) <=> i \in D /\ s[p[i]] \in X
      BY <1>2 DEF Standing
  <2>3. \A i : i \in Standing(s, X) <=> i \in D /\ s[i] \in X
      BY DEF Standing
  <2> HIDE DEF t, D
  <2>4. \A i \in Standing(t, X) : p[i] \in Standing(s, X)
      BY <2>2, <2>3 DEF D
  <2>5. \A i, j \in Standing(t, X) : p[i] = p[j] => i = j
      BY <2>2 DEF D
  <2>6. \A j \in Standing(s, X) : \E i \in Standing(t, X) : p[i] = j
      BY <1>3, <2>2, <2>3
  <2> QED
      BY <2>1, <2>4, <2>5, <2>6, SameCount
<1> HIDE DEF t
<1>5. Alike(t, s)
    BY <1>4 DEF Alike
<1> QED
    BY <1>2, <1>5 DEF t

\* A concatenation holds what its parts hold, as often.
LEMMA ConcatCounts ==
    ASSUME NEW A, NEW s \in Seq(A), NEW t \in Seq(A), NEW X
    PROVE  Cardinality(Standing(s \o t, X)) =
             Cardinality(Standing(s, X)) + Cardinality(Standing(t, X))
<1> DEFINE m == Len(s)
           n == Len(t)
           S == Standing(s, X)
           T == Standing(t, X)
           U == {m + i : i \in T}
           W == Standing(s \o t, X)
<1>1. /\ m \in Nat /\ n \in Nat /\ s \o t \in Seq(A) /\ Len(s \o t) = m + n
      /\ \A i \in 1..m : (s \o t)[i] = s[i]
      /\ \A i \in 1..n : (s \o t)[m + i] = t[i]
    OBVIOUS
<1>2. W = S \cup U
  <2>1. ASSUME NEW i \in W PROVE i \in S \cup U
    <3>1. i \in 1..(m + n) /\ (s \o t)[i] \in X
        BY <1>1 DEF Standing
    <3>2. CASE i <= m
        BY <1>1, <3>1, <3>2 DEF Standing
    <3>3. CASE i > m
      <4>1. i - m \in 1..n /\ m + (i - m) = i
          BY <1>1, <3>1, <3>3
      <4>2. i - m \in T
          BY <1>1, <3>1, <4>1 DEF Standing
      <4> QED
          BY <4>1, <4>2
    <3> QED
        BY <1>1, <3>1, <3>2, <3>3
  <2>2. ASSUME NEW i \in S PROVE i \in W
      BY <1>1 DEF Standing
  <2>3. ASSUME NEW i \in T PROVE m + i \in W
      BY <1>1 DEF Standing
  <2> QED
      BY <2>1, <2>2, <2>3
<1>3. /\ S \in SUBSET (1..m) /\ T \in SUBSET (1..n)
      /\ IsFiniteSet(S) /\ IsFiniteSet(T)
      /\ Cardinality(S) \in Nat /\ Cardinality(T) \in Nat
  <2>1. S \in SUBSET (1..m) /\ T \in SUBSET (1..n)
      BY DEF Standing
  <2> QED
      BY <2>1, StandingIsFinite
<1> HIDE DEF S, T, W, m, n
<1>4. S \cap U = {}
    BY <1>1, <1>3
<1>5. Cardinality(T) = Cardinality(U) /\ IsFiniteSet(U)
  <2> DEFINE f == [i \in T |-> m + i]
  <2>1. \A i \in T : f[i] \in U
      OBVIOUS
  <2>2. \A i, j \in T : f[i] = f[j] => i = j
      BY <1>1, <1>3
  <2>3. \A j \in U : \E i \in T : f[i] = j
      OBVIOUS
  <2>4. f \in Surjection(T, U)
      BY <2>1, <2>3 DEF Surjection
  <2>5. IsFiniteSet(U)
    <3> HIDE DEF f, U
    <3> QED
      BY <1>3, <2>4, FS_Surjection
  <2> HIDE DEF f, U
  <2> QED
      BY <1>3, <2>1, <2>2, <2>3, <2>5, SameCount
<1> HIDE DEF U
<1>6. Cardinality(S \cup U) = Cardinality(S) + Cardinality(U) - Cardinality(S \cap U)
    BY <1>3, <1>5, FS_Union
<1>7. Cardinality(S \cap U) = 0
    BY <1>4, FS_EmptySet
<1>8. Cardinality(W) = Cardinality(S) + Cardinality(T)
    BY <1>2, <1>3, <1>5, <1>6, <1>7
<1> QED
    BY <1>8 DEF W, S, T

LEMMA ConcatAlike ==
    ASSUME NEW A, NEW s \in Seq(A), NEW t \in Seq(A), NEW u \in Seq(A), NEW v \in Seq(A),
           Alike(s, u), Alike(t, v)
    PROVE  Alike(s \o t, u \o v)
  BY ConcatCounts DEF Alike

-----------------------------------------------------------------------------
(* Sorting.                                                                *)

\* The order SortedBy lists the positions in: by key, and by position within one.
ByKeyThenPlace(D, keys) ==
    {p \in D \X D :
        \/ LexBefore(keys[p[1]], keys[p[2]])
        \/ keys[p[1]] = keys[p[2]] /\ p[1] < p[2]}

Preceding(D, keys, i) ==
    {j \in D : LexBefore(keys[j], keys[i]) \/ (keys[j] = keys[i] /\ j < i)}

\* Of the elements in A: those with a smaller key than z, and with at most its key.
KeyBelow(A, key, z) == {y \in A : LexBefore(key[y], key[z])}
KeyUpTo(A, key, z) == {y \in A : LexBefore(key[y], key[z]) \/ key[y] = key[z]}

LEMMA ByKeyThenPlaceIsTotal ==
    ASSUME NEW D \in SUBSET Nat, NEW keys, \A i \in D : keys[i] \in Seq(Nat)
    PROVE  TotalOrder(D, ByKeyThenPlace(D, keys))
<1> DEFINE Before(i, j) == LexBefore(keys[i], keys[j]) \/ (keys[i] = keys[j] /\ i < j)
<1>1. \A i, j \in D : <<i, j>> \in ByKeyThenPlace(D, keys) <=> Before(i, j)
    BY DEF ByKeyThenPlace
<1>2. \A i \in D : ~LexBefore(keys[i], keys[i])
    BY LexIsStrict
<1>3. \A i, j, k \in D : LexBefore(keys[i], keys[j]) /\ LexBefore(keys[j], keys[k])
                            => LexBefore(keys[i], keys[k])
    BY LexIsTransitive
<1>4. \A i, j \in D : \/ keys[i] = keys[j]
                      \/ LexBefore(keys[i], keys[j])
                      \/ LexBefore(keys[j], keys[i])
    BY LexIsTotal
<1>5. \A i \in D : ~Before(i, i)
    BY <1>2
<1>6. ASSUME NEW i \in D, NEW j \in D, NEW k \in D, Before(i, j), Before(j, k)
      PROVE  Before(i, k)
  <2>1. CASE keys[i] = keys[j]
      BY <1>2, <1>6, <2>1
  <2>2. CASE keys[j] = keys[k]
      BY <1>2, <1>6, <2>2
  <2>3. CASE keys[i] # keys[j] /\ keys[j] # keys[k]
      BY <1>3, <1>6, <2>3
  <2> QED
      BY <2>1, <2>2, <2>3
<1>7. \A i, j \in D : i = j \/ Before(i, j) \/ Before(j, i)
    BY <1>4
<1> HIDE DEF Before
<1> QED
    BY <1>1, <1>5, <1>6, <1>7 DEF TotalOrder

PlacedByRank(s, keys, n) ==
    \E i \in 1..Len(s) : /\ SortedBy(s, keys)[n] = s[i]
                         /\ Cardinality(Preceding(1..Len(s), keys, i)) = n - 1

\* A sorted list has what the list had, and each element has before it those
\* with a smaller key, and those with its own key that stood before it.
LEMMA SortedByLists ==
    ASSUME NEW A, NEW s \in Seq(A), NEW keys, \A i \in 1..Len(s) : keys[i] \in Seq(Nat)
    PROVE  /\ SortedBy(s, keys) \in Seq(A)
           /\ Len(SortedBy(s, keys)) = Len(s)
           /\ ToSet(SortedBy(s, keys)) = ToSet(s)
           /\ \A n \in 1..Len(s) : PlacedByRank(s, keys, n)
<1> DEFINE D == 1..Len(s)
           before == ByKeyThenPlace(D, keys)
           order == Ranked(D, before)
           w == SortedBy(s, keys)
<1>1. Len(s) \in Nat /\ D \in SUBSET Nat /\ (\A i \in D : s[i] \in A) /\ DOMAIN s = D
    OBVIOUS
<1>2. IsFiniteSet(D) /\ Cardinality(D) = Len(s)
  <2> DEFINE l == Len(s)
  <2>1. l \in Nat
      BY <1>1
  <2> HIDE DEF l
  <2>2. IsFiniteSet(1..l) /\ Cardinality(1..l) = l
      BY <2>1, FS_Interval
  <2> QED
      BY <2>2 DEF l
<1>3. TotalOrder(D, before)
    BY <1>1, ByKeyThenPlaceIsTotal
<1>4. /\ Ranked(D, before) \in [1..Cardinality(D) -> D]
      /\ \A x \in D : \E n \in 1..Cardinality(D) : Ranked(D, before)[n] = x
      /\ \A n \in 1..Cardinality(D) :
            Cardinality({y \in D : <<y, Ranked(D, before)[n]>> \in before}) = n - 1
  <2> HIDE DEF D, before
  <2> QED
      BY <1>2, <1>3, RankedLists
<1>5. /\ order \in [D -> D]
      /\ \A x \in D : \E n \in D : order[n] = x
      /\ \A n \in D : Cardinality({y \in D : <<y, order[n]>> \in before}) = n - 1
    BY <1>2, <1>4
<1>6. w = [n \in D |-> s[order[n]]]
    BY <1>2 DEF SortedBy, ByKeyThenPlace
<1> HIDE DEF w, order
<1>7. w \in Seq(A) /\ Len(w) = Len(s) /\ DOMAIN w = D
  <2>1. w \in [1..Len(s) -> A]
      BY <1>1, <1>5, <1>6
  <2> QED
      BY <1>1, <2>1
<1>8. ToSet(w) = ToSet(s)
  <2> HIDE DEF D
  <2>1. \A n \in D : w[n] \in ToSet(s)
      BY <1>1, <1>5, <1>6 DEF ToSet
  <2>2. ASSUME NEW i \in D PROVE s[i] \in ToSet(w)
    <3>1. PICK n \in D : order[n] = i
        BY <1>5
    <3> QED
        BY <1>6, <1>7, <3>1 DEF ToSet
  <2> QED
      BY <1>1, <1>7, <2>1, <2>2 DEF ToSet
<1>9. ASSUME NEW n \in D
      PROVE  PlacedByRank(s, keys, n)
  <2>1. order[n] \in D /\ w[n] = s[order[n]]
      BY <1>5, <1>6
  <2>2. {y \in D : <<y, order[n]>> \in before} = Preceding(D, keys, order[n])
      BY <2>1 DEF ByKeyThenPlace, Preceding
  <2>3. Cardinality(Preceding(D, keys, order[n])) = n - 1
      BY <1>5, <2>2
  <2> QED
      BY <2>1, <2>3 DEF PlacedByRank, w
<1> QED
    BY <1>7, <1>8, <1>9 DEF w

\* Where the key is a function of the element: at a place n of the sorted list
\* fewer than n have a smaller key, and at least n have at most that key.
LEMMA SortedByBounds ==
    ASSUME NEW A, NEW s \in Seq(A), NEW key, \A x \in A : key[x] \in Seq(Nat),
           NEW keys, \A i \in 1..Len(s) : keys[i] = key[s[i]],
           NEW n \in 1..Len(s)
    PROVE  LET x == SortedBy(s, keys)[n]
           IN  /\ x \in ToSet(s) /\ x \in A
               /\ Cardinality(Standing(s, KeyBelow(A, key, x))) < n
               /\ n <= Cardinality(Standing(s, KeyUpTo(A, key, x)))
<1> DEFINE D == 1..Len(s)
<1>1. Len(s) \in Nat /\ (\A i \in D : s[i] \in A) /\ DOMAIN s = D
    OBVIOUS
<1>2. \A i \in D : keys[i] \in Seq(Nat)
    BY <1>1
<1>3. PICK i \in D :
         /\ SortedBy(s, keys)[n] = s[i]
         /\ Cardinality(Preceding(1..Len(s), keys, i)) = n - 1
  <2>1. \A k \in 1..Len(s) : keys[k] \in Seq(Nat)
      BY <1>2
  <2>2. PlacedByRank(s, keys, n)
      BY <2>1, SortedByLists
  <2> QED
      BY <2>2 DEF PlacedByRank
<1> DEFINE x == s[i]
           Below == Standing(s, KeyBelow(A, key, x))
           AtMost == Standing(s, KeyUpTo(A, key, x))
           Earlier == Preceding(D, keys, i)
<1>4. x \in A /\ x \in ToSet(s)
    BY <1>1 DEF ToSet
<1>5. Below \in SUBSET Earlier
    BY <1>1 DEF Standing, KeyBelow, Preceding
<1>6. Earlier \cup {i} \in SUBSET AtMost
    BY <1>1 DEF Standing, KeyUpTo, Preceding
<1>7. i \notin Earlier
    BY <1>2, LexIsStrict DEF Preceding
<1>8. /\ IsFiniteSet(Below) /\ Cardinality(Below) \in Nat
      /\ IsFiniteSet(AtMost) /\ Cardinality(AtMost) \in Nat
    BY StandingIsFinite
<1> HIDE DEF Below, AtMost, Earlier
<1>9. IsFiniteSet(Earlier) /\ Cardinality(Earlier) = n - 1
  <2>1. Earlier \in SUBSET AtMost
      BY <1>6
  <2>2. Cardinality(Earlier) = n - 1
      BY <1>3 DEF Earlier
  <2> QED
      BY <1>8, <2>1, <2>2, FS_Subset
<1>10. Cardinality(Below) <= n - 1
    BY <1>5, <1>9, FS_Subset
<1>11. Cardinality(Earlier \cup {i}) = n
  <2>1. Cardinality(Earlier \cup {i}) = Cardinality(Earlier) + 1
      BY <1>7, <1>9, FS_AddElement
  <2> QED
      BY <1>1, <1>9, <2>1
<1>12. n <= Cardinality(AtMost)
  <2>1. Cardinality(Earlier \cup {i}) <= Cardinality(AtMost)
      BY <1>6, <1>8, FS_Subset
  <2> QED
      BY <1>11, <2>1
<1>13. Cardinality(Below) < n
    BY <1>1, <1>8, <1>10
<1> QED
    BY <1>3, <1>4, <1>12, <1>13 DEF Below, AtMost

\* keys gives each place of s the key of what stands there, and no two elements
\* of s share one.
KeyedBy(s, keys, key) == \A i \in 1..Len(s) : keys[i] = key[s[i]]
TellsApart(key, s) == \A x, y \in ToSet(s) : key[x] = key[y] => x = y

\* Sequences that are alike are sorted into the same list, by a key that no two
\* of their elements share.
LEMMA AlikeSortTheSame ==
    ASSUME NEW A, NEW s \in Seq(A), NEW t \in Seq(A), Alike(s, t),
           NEW key \in [A -> Seq(Nat)], TellsApart(key, s),
           NEW ks, KeyedBy(s, ks, key), NEW kt, KeyedBy(t, kt, key)
    PROVE  SortedBy(s, ks) = SortedBy(t, kt)
<1>0. /\ \A x \in A : key[x] \in Seq(Nat)
      /\ \A x, y \in ToSet(s) : key[x] = key[y] => x = y
      /\ \A i \in 1..Len(s) : ks[i] = key[s[i]]
      /\ \A i \in 1..Len(t) : kt[i] = key[t[i]]
    BY DEF TellsApart, KeyedBy
<1> DEFINE Below(z) == KeyBelow(A, key, z)
           AtMost(z) == KeyUpTo(A, key, z)
           a == SortedBy(s, ks)
           b == SortedBy(t, kt)
<1>1. ToSet(s) = ToSet(t) /\ Len(s) = Len(t) /\ Len(s) \in Nat
    BY AlikeHoldsTheSame
<1>2. ASSUME NEW n \in 1..Len(s)
      PROVE  /\ a[n] \in ToSet(s) /\ a[n] \in A
             /\ Cardinality(Standing(s, Below(a[n]))) < n
             /\ n <= Cardinality(Standing(s, AtMost(a[n])))
    BY <1>0, SortedByBounds
<1>3. ASSUME NEW n \in 1..Len(s)
      PROVE  /\ b[n] \in ToSet(s) /\ b[n] \in A
             /\ Cardinality(Standing(t, Below(b[n]))) < n
             /\ n <= Cardinality(Standing(t, AtMost(b[n])))
  <2>1. n \in 1..Len(t)
      BY <1>1
  <2>2. /\ b[n] \in ToSet(t) /\ b[n] \in A
        /\ Cardinality(Standing(t, Below(b[n]))) < n
        /\ n <= Cardinality(Standing(t, AtMost(b[n])))
      BY <1>0, <2>1, SortedByBounds
  <2> QED
      BY <1>1, <2>2
<1>4. ASSUME NEW x \in A, NEW y \in A, LexBefore(key[x], key[y])
      PROVE  AtMost(x) \in SUBSET Below(y)
    BY <1>0, <1>4, LexIsTransitive DEF KeyBelow, KeyUpTo
<1>5. ASSUME NEW u \in Seq(A), NEW x \in A, NEW y \in A, LexBefore(key[x], key[y])
      PROVE  /\ Cardinality(Standing(u, AtMost(x))) <= Cardinality(Standing(u, Below(y)))
             /\ Cardinality(Standing(u, AtMost(x))) \in Nat
             /\ Cardinality(Standing(u, Below(y))) \in Nat
  <2>1. AtMost(x) \in SUBSET Below(y)
      BY <1>4, <1>5
  <2> HIDE DEF AtMost, Below
  <2>2. Standing(u, AtMost(x)) \in SUBSET Standing(u, Below(y))
      BY <2>1 DEF Standing
  <2> QED
      BY <2>2, StandingIsFinite, FS_Subset
<1> HIDE DEF AtMost, Below, a, b
<1>6. ASSUME NEW n \in 1..Len(s) PROVE a[n] = b[n]
  <2>1. ~LexBefore(key[a[n]], key[b[n]])
    <3> SUFFICES ASSUME LexBefore(key[a[n]], key[b[n]]) PROVE FALSE
        OBVIOUS
    <3>1. Cardinality(Standing(s, AtMost(a[n]))) = Cardinality(Standing(t, AtMost(a[n])))
        BY DEF Alike
    <3>2. /\ Cardinality(Standing(t, AtMost(a[n]))) <= Cardinality(Standing(t, Below(b[n])))
          /\ Cardinality(Standing(t, AtMost(a[n]))) \in Nat
          /\ Cardinality(Standing(t, Below(b[n]))) \in Nat
        BY <1>2, <1>3, <1>5
    <3> QED
        BY <1>1, <1>2, <1>3, <3>1, <3>2
  <2>2. ~LexBefore(key[b[n]], key[a[n]])
    <3> SUFFICES ASSUME LexBefore(key[b[n]], key[a[n]]) PROVE FALSE
        OBVIOUS
    <3>1. Cardinality(Standing(t, AtMost(b[n]))) = Cardinality(Standing(s, AtMost(b[n])))
        BY DEF Alike
    <3>2. /\ Cardinality(Standing(s, AtMost(b[n]))) <= Cardinality(Standing(s, Below(a[n])))
          /\ Cardinality(Standing(s, AtMost(b[n]))) \in Nat
          /\ Cardinality(Standing(s, Below(a[n]))) \in Nat
        BY <1>2, <1>3, <1>5
    <3> QED
        BY <1>1, <1>2, <1>3, <3>1, <3>2
  <2>3. key[a[n]] = key[b[n]]
      BY <1>0, <1>2, <1>3, <2>1, <2>2, LexIsTotal
  <2> QED
      BY <1>0, <1>2, <1>3, <2>3
<1>7. /\ a \in Seq(A) /\ Len(a) = Len(s) /\ b \in Seq(A) /\ Len(b) = Len(s)
  <2>1. ASSUME NEW i \in 1..Len(s) PROVE ks[i] \in Seq(Nat)
    <3>1. s[i] \in A
        OBVIOUS
    <3> QED
        BY <1>0, <3>1
  <2>2. ASSUME NEW i \in 1..Len(t) PROVE kt[i] \in Seq(Nat)
    <3>1. t[i] \in A
        OBVIOUS
    <3> QED
        BY <1>0, <3>1
  <2> QED
      BY <1>1, <2>1, <2>2, SortedByLists DEF a, b
<1>8. a = [n \in 1..Len(s) |-> a[n]] /\ b = [n \in 1..Len(s) |-> b[n]]
    BY <1>7
<1>9. a = b
    BY <1>6, <1>8
<1> QED
    BY <1>9 DEF a, b

-----------------------------------------------------------------------------
(* Concatenations.                                                         *)

\* s takes the first places of w, and t the others.
OneAfterTheOther(w, s, t) ==
    /\ Len(w) = Len(s) + Len(t)
    /\ \A i \in 1..Len(s) : w[i] = s[i]
    /\ \A i \in 1..Len(t) : w[Len(s) + i] = t[i]

LEMMA ConcatPlaces ==
    ASSUME NEW A, NEW s \in Seq(A), NEW t \in Seq(A)
    PROVE  s \o t \in Seq(A) /\ OneAfterTheOther(s \o t, s, t)
  BY DEF OneAfterTheOther

LEMMA SameElements ==
    ASSUME NEW A, NEW s \in Seq(A), NEW t \in Seq(A),
           Len(s) = Len(t), \A i \in 1..Len(s) : s[i] = t[i]
    PROVE  s = t
<1>1. s = [i \in 1..Len(s) |-> s[i]] /\ t = [i \in 1..Len(s) |-> t[i]]
    OBVIOUS
<1> QED
    BY <1>1

LEMMA SplitConcat ==
    ASSUME NEW A, NEW s \in Seq(A), NEW t \in Seq(A), NEW u \in Seq(A), NEW v \in Seq(A),
           Len(s) = Len(u), s \o t = u \o v
    PROVE  s = u /\ t = v
<1> DEFINE m == Len(s)
           n == Len(t)
           k == Len(v)
           w == s \o t
<1>1. m \in Nat /\ n \in Nat /\ k \in Nat
    OBVIOUS
<1>2. OneAfterTheOther(w, s, t) /\ OneAfterTheOther(w, u, v)
    BY ConcatPlaces
<1> HIDE DEF w
<1>3. /\ Len(w) = m + n /\ Len(w) = m + k
      /\ \A i \in 1..m : w[i] = s[i] /\ w[i] = u[i]
      /\ \A i \in 1..n : w[m + i] = t[i]
      /\ \A i \in 1..k : w[m + i] = v[i]
    BY <1>2 DEF OneAfterTheOther
<1> HIDE DEF m, n, k
<1>4. n = k
    BY <1>1, <1>3
<1>5. (\A i \in 1..m : s[i] = u[i]) /\ (\A i \in 1..n : t[i] = v[i])
    BY <1>3, <1>4
<1> QED
    BY <1>4, <1>5, SameElements DEF m, n, k

LEMMA UpwardInduction ==
    ASSUME NEW n \in Nat, NEW M, 1 \in M, \A i \in 1..(n - 1) : i \in M => i + 1 \in M
    PROVE  1..n \subseteq M
<1> DEFINE K == {i \in Nat : i + 1 <= n => i + 1 \in M}
<1>1. 0 \in K
    OBVIOUS
<1>2. \A i \in Nat : i \in K => i + 1 \in K
    OBVIOUS
<1>3. Nat \subseteq K
  <2> HIDE DEF K
  <2> QED
      BY <1>1, <1>2, SetInduction
<1>4. ASSUME NEW i \in 1..n PROVE i \in M
  <2>1. i - 1 \in Nat /\ (i - 1) + 1 = i /\ i <= n
      OBVIOUS
  <2> QED
      BY <1>3, <2>1
<1> QED
    BY <1>4

\* What SequencesExt's FlattenSeq iterates: the sequences up to i, one after the other.
Flattening(flat, seqs) ==
    flat = [i \in 1..Len(seqs) |-> IF i = 1 THEN seqs[i] ELSE flat[i - 1] \o seqs[i]]

LEMMA FlatteningExists ==
    ASSUME NEW seqs, Len(seqs) \in Nat
    PROVE  \E flat : Flattening(flat, seqs)
<1> DEFINE n == Len(seqs)
           Value(g, i) == IF i = 1 THEN seqs[i] ELSE g[i - 1] \o seqs[i]
           Stands(g, m) == g = [i \in 1..m |-> Value(g, i)]
           Found == {m \in Nat : \E g : Stands(g, m)}
<1>1. 0 \in Found
  <2> DEFINE g == [i \in 1..0 |-> seqs]
  <2>1. Stands(g, 0)
      OBVIOUS
  <2> QED
      BY <2>1
<1>2. ASSUME NEW m \in Nat, NEW g, Stands(g, m)
      PROVE  \E h : Stands(h, m + 1)
  <2> DEFINE h == [i \in 1..(m + 1) |-> Value(g, i)]
             k == [i \in 1..(m + 1) |-> Value(h, i)]
  <2>1. \A i \in 1..m : g[i] = Value(g, i)
      BY <1>2
  <2>2. \A i \in 1..m : h[i] = g[i]
      BY <2>1
  <2>3. ASSUME NEW i \in 1..(m + 1) PROVE Value(g, i) = Value(h, i)
    <3>1. CASE i = 1
        BY <3>1
    <3>2. CASE i # 1
      <4>1. i - 1 \in 1..m
          BY <3>2
      <4>2. h[i - 1] = g[i - 1]
          BY <2>2, <4>1
      <4> QED
          BY <3>2, <4>2
    <3> QED
        BY <3>1, <3>2
  <2>4. h = k
    <3> HIDE DEF Value
    <3>1. \A i \in 1..(m + 1) : h[i] = k[i]
        BY <2>3
    <3> QED
        BY <3>1
  <2>5. Stands(h, m + 1)
      BY <2>4
  <2> HIDE DEF h, k, Stands
  <2> QED
      BY <2>5
<1>3. \A m \in Nat : m \in Found => m + 1 \in Found
  <2> HIDE DEF Stands
  <2> QED
      BY <1>2
<1>4. n \in Found
  <2> HIDE DEF Found
  <2>1. Nat \subseteq Found
      BY <1>1, <1>3, SetInduction
  <2> QED
      BY <2>1
<1>5. PICK g : Stands(g, n)
    BY <1>4
<1> QED
    BY <1>5, Zenon DEF Flattening

LEMMA FlattenUnfolds ==
    ASSUME NEW A, NEW seqs \in Seq(Seq(A)), Len(seqs) # 0
    PROVE  \E flat :
             /\ FlattenSeq(seqs) = flat[Len(seqs)]
             /\ flat[1] = seqs[1]
             /\ \A i \in 1..(Len(seqs) - 1) : flat[i + 1] = flat[i] \o seqs[i + 1]
             /\ \A i \in 1..Len(seqs) : flat[i] \in Seq(A)
<1> DEFINE n == Len(seqs)
           flat == CHOOSE g : Flattening(g, seqs)
<1>1. n \in Nat /\ n # 0 /\ \A i \in 1..n : seqs[i] \in Seq(A)
    OBVIOUS
<1>2. Flattening(flat, seqs)
    BY <1>1, FlatteningExists
<1>3. FlattenSeq(seqs) = flat[n]
    BY Zenon DEF FlattenSeq, Flattening
<1> HIDE DEF flat
<1>4. \A i \in 1..n : flat[i] = IF i = 1 THEN seqs[i] ELSE flat[i - 1] \o seqs[i]
  <2>1. flat = [i \in 1..Len(seqs) |-> IF i = 1 THEN seqs[i] ELSE flat[i - 1] \o seqs[i]]
      BY <1>2, Zenon DEF Flattening
  <2> QED
      BY <2>1, Zenon
<1> HIDE DEF n
<1>5. flat[1] = seqs[1]
    BY <1>1, <1>4
<1>6. ASSUME NEW i \in 1..(n - 1) PROVE flat[i + 1] = flat[i] \o seqs[i + 1]
  <2>1. i + 1 \in 1..n /\ i + 1 # 1 /\ (i + 1) - 1 = i
      BY <1>1
  <2> QED
      BY <1>4, <2>1
<1> DEFINE M == {i \in 1..n : flat[i] \in Seq(A)}
<1>7. 1 \in M
    BY <1>1, <1>5
<1>8. ASSUME NEW i \in 1..(n - 1), i \in M PROVE i + 1 \in M
  <2>1. i + 1 \in 1..n
      BY <1>1
  <2>2. flat[i] \in Seq(A) /\ seqs[i + 1] \in Seq(A)
      BY <1>1, <1>8, <2>1
  <2>3. flat[i] \o seqs[i + 1] \in Seq(A)
      BY <2>2
  <2> QED
      BY <1>6, <2>1, <2>3
<1>9. 1..n \subseteq M
  <2> HIDE DEF M
  <2> QED
      BY <1>1, <1>7, <1>8, UpwardInduction
<1> QED
    BY <1>3, <1>5, <1>6, <1>9 DEF n

LEMMA ConcatHolds ==
    ASSUME NEW A, NEW s \in Seq(A), NEW t \in Seq(A)
    PROVE  /\ s \o t \in Seq(A) /\ Len(s \o t) = Len(s) + Len(t)
           /\ ToSet(s \o t) = ToSet(s) \cup ToSet(t)
<1> DEFINE m == Len(s)
           n == Len(t)
           u == s \o t
<1>1. /\ m \in Nat /\ n \in Nat /\ u \in Seq(A) /\ Len(u) = m + n
      /\ \A i \in 1..m : u[i] = s[i]
      /\ \A i \in 1..n : u[m + i] = t[i]
      /\ DOMAIN u = 1..(m + n) /\ DOMAIN s = 1..m /\ DOMAIN t = 1..n
    OBVIOUS
<1> HIDE DEF m, n, u
<1>2. ASSUME NEW i \in 1..(m + n) PROVE u[i] \in ToSet(s) \cup ToSet(t)
  <2>1. CASE i <= m
    <3>1. i \in 1..m
        BY <1>1, <2>1
    <3>2. u[i] = s[i]
        BY <1>1, <3>1
    <3> QED
        BY <1>1, <3>1, <3>2 DEF ToSet
  <2>2. CASE i > m
    <3>1. i - m \in 1..n /\ m + (i - m) = i
        BY <1>1, <2>2
    <3>2. u[i] = t[i - m]
        BY <1>1, <3>1
    <3> QED
        BY <1>1, <3>1, <3>2 DEF ToSet
  <2> QED
      BY <1>1, <2>1, <2>2
<1>3. ASSUME NEW i \in 1..m PROVE s[i] \in ToSet(u)
    BY <1>1 DEF ToSet
<1>4. ASSUME NEW i \in 1..n PROVE t[i] \in ToSet(u)
  <2>1. m + i \in DOMAIN u /\ u[m + i] = t[i]
      BY <1>1
  <2> QED
      BY <2>1 DEF ToSet
<1>5. ToSet(u) = ToSet(s) \cup ToSet(t)
  <2>1. \A x \in ToSet(u) : x \in ToSet(s) \cup ToSet(t)
      BY <1>1, <1>2 DEF ToSet
  <2>2. \A x \in ToSet(s) : x \in ToSet(u)
      BY <1>1, <1>3 DEF ToSet
  <2>3. \A x \in ToSet(t) : x \in ToSet(u)
      BY <1>1, <1>4 DEF ToSet
  <2> QED
      BY <2>1, <2>2, <2>3
<1> QED
    BY <1>1, <1>5 DEF u, m, n

\* A flattened sequence has what its parts have.
LEMMA FlattenHolds ==
    ASSUME NEW A, NEW seqs \in Seq(Seq(A))
    PROVE  /\ FlattenSeq(seqs) \in Seq(A)
           /\ \A x : x \in ToSet(FlattenSeq(seqs)) <=>
                       \E i \in 1..Len(seqs) : x \in ToSet(seqs[i])
<1> DEFINE n == Len(seqs)
<1>1. n \in Nat /\ \A i \in 1..n : seqs[i] \in Seq(A)
    OBVIOUS
<1>2. CASE n = 0
  <2>1. FlattenSeq(seqs) = seqs
      BY <1>2, Zenon DEF FlattenSeq
  <2>2. seqs = <<>>
      BY <1>2
  <2> QED
      BY <1>2, <2>1, <2>2 DEF ToSet
<1>3. CASE n # 0
  <2>1. PICK flat :
             /\ FlattenSeq(seqs) = flat[n]
             /\ flat[1] = seqs[1]
             /\ \A i \in 1..(n - 1) : flat[i + 1] = flat[i] \o seqs[i + 1]
             /\ \A i \in 1..n : flat[i] \in Seq(A)
      BY <1>3, FlattenUnfolds
  <2> HIDE DEF n
  <2> DEFINE Upto(i, x) == \E j \in 1..i : x \in ToSet(seqs[j])
             M == {i \in 1..n : \A x : x \in ToSet(flat[i]) <=> Upto(i, x)}
  <2>2. 1 \in M
    <3>1. \A x : x \in ToSet(flat[1]) <=> Upto(1, x)
        BY <2>1
    <3> HIDE DEF Upto
    <3> QED
        BY <1>1, <1>3, <3>1
  <2>3. ASSUME NEW i \in 1..(n - 1), i \in M PROVE i + 1 \in M
    <3>1. i \in 1..n /\ i + 1 \in 1..n
        BY <1>1
    <3>2. ToSet(flat[i + 1]) = ToSet(flat[i]) \cup ToSet(seqs[i + 1])
      <4>1. flat[i] \in Seq(A) /\ seqs[i + 1] \in Seq(A) /\ flat[i + 1] = flat[i] \o seqs[i + 1]
          BY <1>1, <2>1, <3>1
      <4>2. ToSet(flat[i] \o seqs[i + 1]) = ToSet(flat[i]) \cup ToSet(seqs[i + 1])
          BY <4>1, ConcatHolds
      <4> QED
          BY <4>1, <4>2
    <3>3. \A x : Upto(i + 1, x) <=> Upto(i, x) \/ x \in ToSet(seqs[i + 1])
      <4>1. \A j : j \in 1..(i + 1) <=> j \in 1..i \/ j = i + 1
          BY <3>1
      <4> QED
          BY <4>1
    <3> HIDE DEF Upto
    <3> QED
        BY <2>3, <3>1, <3>2, <3>3
  <2>4. 1..n \subseteq M
    <3> HIDE DEF M
    <3> QED
        BY <1>1, <2>2, <2>3, UpwardInduction
  <2>5. n \in 1..n
      BY <1>1, <1>3
  <2>6. FlattenSeq(seqs) \in Seq(A)
      BY <2>1, <2>5
  <2>7. \A x : x \in ToSet(FlattenSeq(seqs)) <=> Upto(n, x)
      BY <2>1, <2>4, <2>5
  <2> QED
      BY <2>6, <2>7 DEF n
<1> QED
    BY <1>2, <1>3

\* Two sequences of sequences that agree place by place, flattened, do too.
LEMMA FlattenPairs ==
    ASSUME NEW A, NEW a \in Seq(Seq(A)), NEW b \in Seq(Seq(A)), NEW R,
           Len(a) = Len(b),
           \A i \in 1..Len(a) : /\ Len(a[i]) = Len(b[i])
                                /\ \A j \in 1..Len(a[i]) : <<a[i][j], b[i][j]>> \in R
    PROVE  /\ Len(FlattenSeq(a)) = Len(FlattenSeq(b))
           /\ \A j \in 1..Len(FlattenSeq(a)) : <<FlattenSeq(a)[j], FlattenSeq(b)[j]>> \in R
<1> DEFINE n == Len(a)
           Agree(s, t) == Len(s) = Len(t) /\ \A j \in 1..Len(s) : <<s[j], t[j]>> \in R
<1>1. /\ n \in Nat /\ Len(b) = n
      /\ \A i \in 1..n : a[i] \in Seq(A) /\ b[i] \in Seq(A) /\ Agree(a[i], b[i])
    OBVIOUS
<1>2. CASE n = 0
  <2>1. FlattenSeq(a) = a /\ FlattenSeq(b) = b
      BY <1>1, <1>2, Zenon DEF FlattenSeq
  <2>2. Len(FlattenSeq(a)) = 0 /\ Len(FlattenSeq(b)) = 0
      BY <1>1, <1>2, <2>1
  <2>3. \A j \in 1..Len(FlattenSeq(a)) : FALSE
      BY <2>2
  <2> QED
      BY <2>2, <2>3
<1>3. CASE n # 0
  <2>1. PICK f :
             /\ FlattenSeq(a) = f[n]
             /\ f[1] = a[1]
             /\ \A i \in 1..(n - 1) : f[i + 1] = f[i] \o a[i + 1]
             /\ \A i \in 1..n : f[i] \in Seq(A)
      BY <1>3, FlattenUnfolds
  <2>2. PICK g :
             /\ FlattenSeq(b) = g[n]
             /\ g[1] = b[1]
             /\ \A i \in 1..(n - 1) : g[i + 1] = g[i] \o b[i + 1]
             /\ \A i \in 1..n : g[i] \in Seq(A)
    <3>1. Len(b) # 0
        BY <1>1, <1>3
    <3>2. \E g :
             /\ FlattenSeq(b) = g[Len(b)]
             /\ g[1] = b[1]
             /\ \A i \in 1..(Len(b) - 1) : g[i + 1] = g[i] \o b[i + 1]
             /\ \A i \in 1..Len(b) : g[i] \in Seq(A)
        BY <3>1, FlattenUnfolds
    <3> QED
        BY <1>1, <3>2
  <2>3. ASSUME NEW s \in Seq(A), NEW t \in Seq(A), NEW u \in Seq(A), NEW v \in Seq(A),
               Agree(s, t), Agree(u, v)
        PROVE  Agree(s \o u, t \o v)
    <3> DEFINE k == Len(s)
               l == Len(u)
    <3>1. /\ k \in Nat /\ l \in Nat
          /\ Len(s \o u) = k + l /\ Len(t \o v) = k + l
          /\ \A j \in 1..k : (s \o u)[j] = s[j] /\ (t \o v)[j] = t[j]
          /\ \A j \in 1..l : (s \o u)[k + j] = u[j] /\ (t \o v)[k + j] = v[j]
      <4>1. /\ k \in Nat /\ l \in Nat
            /\ Len(s \o u) = k + l
            /\ \A j \in 1..k : (s \o u)[j] = s[j]
            /\ \A j \in 1..l : (s \o u)[k + j] = u[j]
          OBVIOUS
      <4>2. /\ Len(t \o v) = Len(t) + Len(v)
            /\ \A j \in 1..Len(t) : (t \o v)[j] = t[j]
            /\ \A j \in 1..Len(v) : (t \o v)[Len(t) + j] = v[j]
          OBVIOUS
      <4>3. Len(t) = k /\ Len(v) = l
          BY <2>3
      <4> HIDE DEF Agree
      <4> QED
          BY <4>1, <4>2, <4>3
    <3>3. /\ \A j \in 1..k : <<s[j], t[j]>> \in R
          /\ \A j \in 1..l : <<u[j], v[j]>> \in R
        BY <2>3
    <3> HIDE DEF k, l
    <3>2. ASSUME NEW j \in 1..(k + l) PROVE <<(s \o u)[j], (t \o v)[j]>> \in R
      <4>1. CASE j <= k
        <5>1. j \in 1..k
            BY <3>1, <4>1
        <5>2. (s \o u)[j] = s[j] /\ (t \o v)[j] = t[j]
            BY <3>1, <5>1
        <5> QED
            BY <3>3, <5>1, <5>2
      <4>2. CASE j > k
        <5>1. j - k \in 1..l /\ k + (j - k) = j
            BY <3>1, <4>2
        <5>2. (s \o u)[j] = u[j - k] /\ (t \o v)[j] = v[j - k]
            BY <3>1, <5>1
        <5> QED
            BY <3>3, <5>1, <5>2
      <4>3. j <= k \/ j > k
        <5>1. k \in Nat /\ l \in Nat
            BY <3>1
        <5> QED
            BY <5>1
      <4> QED
          BY <4>1, <4>2, <4>3
    <3> QED
        BY <3>1, <3>2 DEF k, l
  <2> HIDE DEF n, Agree
  <2> DEFINE M == {i \in 1..n : Agree(f[i], g[i])}
  <2>4. 1 \in M
      BY <1>1, <1>3, <2>1, <2>2
  <2>5. ASSUME NEW i \in 1..(n - 1), i \in M PROVE i + 1 \in M
    <3>1. i \in 1..n /\ i + 1 \in 1..n
        BY <1>1
    <3>2. Agree(f[i] \o a[i + 1], g[i] \o b[i + 1])
        BY <1>1, <2>1, <2>2, <2>3, <2>5, <3>1
    <3> QED
        BY <2>1, <2>2, <3>1, <3>2
  <2>6. 1..n \subseteq M
    <3> HIDE DEF M
    <3> QED
        BY <1>1, <2>4, <2>5, UpwardInduction
  <2>7. n \in 1..n
      BY <1>1, <1>3
  <2>8. Agree(FlattenSeq(a), FlattenSeq(b))
      BY <2>1, <2>2, <2>6, <2>7
  <2> QED
      BY <2>8 DEF Agree
<1> QED
    BY <1>2, <1>3
=============================================================================
