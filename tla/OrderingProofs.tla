---------------------------- MODULE OrderingProofs ----------------------------
(***************************************************************************)
(* What the operators of Ordering return, for sequences of any length.     *)
(* Stated for sets and relations, so that a lemma can be cited with any    *)
(* key, order or filter.                                                   *)
(***************************************************************************)
EXTENDS Ordering, FiniteSetTheorems, SequenceTheorems, WellFoundedInduction, TLAPS

(* R orders I strictly and totally.                                        *)
Orders(R, I) ==
    /\ \A i \in I : <<i, i>> \notin R
    /\ \A i, j \in I : i # j => <<i, j>> \in R \/ <<j, i>> \in R
    /\ \A i, j, k \in I : <<i, j>> \in R /\ <<j, k>> \in R => <<i, k>> \in R

(* f lists the members of I, each once, in the order R.                    *)
Lists(f, I, R) ==
    /\ Cardinality(I) \in Nat
    /\ f \in [1..Cardinality(I) -> I]
    /\ \A i \in I : \E k \in 1..Cardinality(I) : f[k] = i
    /\ \A k, l \in 1..Cardinality(I) : f[k] = f[l] => k = l
    /\ \A k, l \in 1..Cardinality(I) : k < l => <<f[k], f[l]>> \in R

(* Of a finite set under a total order, the number of predecessors is a    *)
(* bijection onto 0 .. n - 1; so InOrder is a permutation in that order.   *)
LEMMA InOrderLists ==
    ASSUME NEW I, IsFiniteSet(I), NEW R, Orders(R, I)
    PROVE  Lists(InOrder(I, R), I, R)
<1> DEFINE n == Cardinality(I)
           below(i) == {j \in I : <<j, i>> \in R}
           rank == [i \in I |-> Cardinality(below(i))]
           f == InOrder(I, R)
<1>1. n \in Nat
  BY FS_CardinalityType
<1>2. ASSUME NEW i \in I PROVE IsFiniteSet(below(i)) /\ rank[i] \in 0..(n - 1)
  <2>1. below(i) \in SUBSET I /\ i \notin below(i)
    BY DEF Orders
  <2>2. /\ IsFiniteSet(below(i)) /\ Cardinality(below(i)) <= n
        /\ n = Cardinality(below(i)) => I = below(i)
    BY <2>1, FS_Subset
  <2>3. Cardinality(below(i)) \in Nat
    BY <2>2, FS_CardinalityType
  <2> HIDE DEF below
  <2>4. Cardinality(below(i)) # n
    BY <2>1, <2>2
  <2> QED
    BY <1>1, <2>2, <2>3, <2>4
<1>3. ASSUME NEW i \in I, NEW j \in I, <<i, j>> \in R PROVE rank[i] < rank[j]
  <2>1. below(i) \in SUBSET below(j) /\ i \in below(j) /\ i \notin below(i)
    BY <1>3 DEF Orders
  <2>2. IsFiniteSet(below(j)) /\ rank[i] \in 0..(n - 1) /\ rank[j] \in 0..(n - 1)
    BY <1>2
  <2>3. /\ Cardinality(below(i)) <= Cardinality(below(j))
        /\ Cardinality(below(j)) = Cardinality(below(i)) => below(j) = below(i)
    BY <2>1, <2>2, FS_Subset
  <2>4. rank[i] = Cardinality(below(i)) /\ rank[j] = Cardinality(below(j))
    OBVIOUS
  <2> HIDE DEF below, rank
  <2>5. rank[i] # rank[j]
    BY <2>1, <2>3, <2>4
  <2> QED
    BY <1>1, <2>2, <2>3, <2>4, <2>5
<1>4. rank \in Injection(I, 0..(n - 1))
  <2>1. rank \in [I -> 0..(n - 1)]
    BY <1>2
  <2>2. ASSUME NEW i \in I, NEW j \in I, i # j PROVE rank[i] # rank[j]
    <3>1. rank[i] < rank[j] \/ rank[j] < rank[i]
      BY <1>3, <2>2 DEF Orders
    <3>2. rank[i] \in Int /\ rank[j] \in Int
      BY <1>1, <1>2
    <3> HIDE DEF rank
    <3> QED
      BY <3>1, <3>2
  <2> HIDE DEF rank
  <2> QED
    BY <2>1, <2>2 DEF Injection, IsInjective
<1>5. IsFiniteSet(0..(n - 1)) /\ Cardinality(0..(n - 1)) = n
  BY <1>1, FS_Interval
<1>6. rank \in Surjection(I, 0..(n - 1))
  BY <1>4, <1>5, FS_Injection
<1>7. ASSUME NEW k \in 1..n PROVE f[k] \in I /\ rank[f[k]] = k - 1
  <2>1. k - 1 \in 0..(n - 1)
    BY <1>1
  <2>2. \E i \in I : rank[i] = k - 1
    BY <1>6, <2>1 DEF Surjection
  <2>3. \E i \in I : Cardinality({j \in I : <<j, i>> \in R}) = k - 1
    BY <2>2
  <2>4. f[k] = CHOOSE i \in I : Cardinality({j \in I : <<j, i>> \in R}) = k - 1
    BY DEF InOrder
  <2> QED
    BY <2>3, <2>4
<1>8. f \in [1..n -> I]
  <2>1. \A k \in 1..n : (CHOOSE i \in I : Cardinality({j \in I : <<j, i>> \in R}) = k - 1) \in I
    BY <1>7 DEF InOrder
  <2> QED
    BY <2>1 DEF InOrder
<1> HIDE DEF rank, f
<1>9. ASSUME NEW i \in I PROVE \E k \in 1..n : f[k] = i
  <2>1. PICK m \in 0..(n - 1) : m = rank[i]
    BY <1>2
  <2>2. m + 1 \in 1..n /\ (m + 1) - 1 = m
    BY <1>1
  <2>3. rank[f[m + 1]] = m /\ f[m + 1] \in I
    BY <1>7, <2>2
  <2> QED
    BY <1>4, <2>1, <2>2, <2>3 DEF Injection, IsInjective
<1>10. ASSUME NEW k \in 1..n, NEW l \in 1..n, f[k] = f[l] PROVE k = l
  BY <1>1, <1>7, <1>10
<1>11. ASSUME NEW k \in 1..n, NEW l \in 1..n, k < l PROVE <<f[k], f[l]>> \in R
  <2>1. f[k] \in I /\ f[l] \in I /\ f[k] # f[l]
    BY <1>7, <1>10, <1>11
  <2>2. <<f[l], f[k]>> \in R => rank[f[l]] < rank[f[k]]
    BY <1>3, <2>1
  <2> QED
    BY <1>1, <1>7, <1>11, <2>1, <2>2 DEF Orders
<1> QED
  BY <1>1, <1>8, <1>9, <1>10, <1>11 DEF Lists, f

-----------------------------------------------------------------------------
(* The places of a sequence of length n are finitely many, n of them.      *)
LEMMA UpTo == ASSUME NEW n \in Nat PROVE IsFiniteSet(1..n) /\ Cardinality(1..n) = n
BY FS_Interval

(* s lists the members of S, each once.                                    *)
Enumerates(s, S) == s \in Seq(S) /\ IsInjective(s) /\ ToSet(s) = S

(* An enumeration has every element at exactly one place.                  *)
LEMMA EnumFacts ==
    ASSUME NEW S, NEW s, Enumerates(s, S)
    PROVE  /\ s \in Seq(S) /\ Len(s) \in Nat /\ DOMAIN s = 1..Len(s)
           /\ \A i \in 1..Len(s) : s[i] \in S
           /\ \A x \in S : \E i \in 1..Len(s) : s[i] = x
           /\ \A i, j \in 1..Len(s) : s[i] = s[j] => i = j
BY DEF Enumerates, IsInjective, ToSet

(* A function on 1..n is a sequence of length n.                           *)
LEMMA SeqIntro ==
    ASSUME NEW S, NEW n \in Nat, NEW s \in [1..n -> S]
    PROVE  s \in Seq(S) /\ Len(s) = n
<1>1. s \in Seq(S)
  BY SeqDef
<1> QED
  BY <1>1

(* The converse: a bijection from 1..n is an enumeration.                  *)
LEMMA EnumIntro ==
    ASSUME NEW S, NEW s, NEW n \in Nat, s \in [1..n -> S],
           \A x \in S : \E i \in 1..n : s[i] = x,
           \A i, j \in 1..n : s[i] = s[j] => i = j
    PROVE  Enumerates(s, S) /\ Len(s) = n
<1>1. s \in Seq(S)
  BY SeqDef
<1>2. Len(s) = n
  BY <1>1
<1>3. ToSet(s) = S
  BY DEF ToSet
<1> QED
  BY <1>1, <1>2, <1>3 DEF Enumerates, IsInjective

(* A sequence without repetition enumerates its own elements.              *)
LEMMA EnumSelf ==
    ASSUME NEW S, NEW s \in Seq(S), IsInjective(s)
    PROVE  Enumerates(s, ToSet(s))
<1>1. PICK n : n = Len(s)
  OBVIOUS
<1>2. n \in Nat /\ DOMAIN s = 1..n
  BY <1>1
<1>3. \A i \in 1..n : s[i] \in ToSet(s)
  BY <1>2 DEF ToSet
<1>4. s = [i \in 1..n |-> s[i]]
  BY <1>1
<1>5. s \in [1..n -> ToSet(s)]
  BY <1>3, <1>4
<1>6. \A x \in ToSet(s) : \E i \in 1..n : s[i] = x
  BY <1>2 DEF ToSet
<1>7. \A i, j \in 1..n : s[i] = s[j] => i = j
  BY <1>2 DEF IsInjective
<1> QED
  BY <1>2, <1>5, <1>6, <1>7, EnumIntro

(* The length of an enumeration is the size of the set.                    *)
LEMMA EnumLength ==
    ASSUME NEW S, NEW s, Enumerates(s, S)
    PROVE  IsFiniteSet(S) /\ Cardinality(S) = Len(s)
<1>1. /\ s \in [1..Len(s) -> S] /\ Len(s) \in Nat
      /\ \A i, j \in 1..Len(s) : s[i] = s[j] => i = j
      /\ \A x \in S : \E i \in 1..Len(s) : s[i] = x
  BY EnumFacts
<1>2. s \in Bijection(1..Len(s), S)
  BY <1>1 DEF Bijection, Injection, Surjection, IsInjective
<1>3. IsFiniteSet(1..Len(s)) /\ Cardinality(1..Len(s)) = Len(s)
  BY <1>1, FS_Interval
<1> QED
  BY <1>2, <1>3, FS_Bijection DEF ExistsBijection

(* InOrder lists every place once.                                         *)
LEMMA EnumInOrder ==
    ASSUME NEW I, IsFiniteSet(I), NEW R, Orders(R, I)
    PROVE  Enumerates(InOrder(I, R), I)
<1>1. Lists(InOrder(I, R), I, R)
  BY InOrderLists
<1> QED
  BY <1>1, EnumIntro DEF Lists

(* Picking by distinct indices from distinct elements.                     *)
LEMMA EnumAt ==
    ASSUME NEW S, NEW s, Enumerates(s, S), NEW I \in SUBSET (DOMAIN s), NEW is, Enumerates(is, I),
           NEW T, T = {s[i] : i \in I}
    PROVE  /\ Enumerates(At(s, is), T)
           /\ Len(At(s, is)) = Len(is)
           /\ \A k \in 1..Len(is) : is[k] \in I /\ At(s, is)[k] = s[is[k]]
<1>1. /\ Len(is) \in Nat /\ DOMAIN is = 1..Len(is)
      /\ \A k \in 1..Len(is) : is[k] \in I
      /\ \A i \in I : \E k \in 1..Len(is) : is[k] = i
      /\ \A k, l \in 1..Len(is) : is[k] = is[l] => k = l
  BY EnumFacts
<1>2. \A k \in 1..Len(is) : At(s, is)[k] = s[is[k]]
  BY <1>1 DEF At
<1>3. At(s, is) \in [1..Len(is) -> T]
  BY <1>1 DEF At
<1>4. \A x \in T : \E k \in 1..Len(is) : At(s, is)[k] = x
  BY <1>1, <1>2
<1>5. \A k, l \in 1..Len(is) : At(s, is)[k] = At(s, is)[l] => k = l
  BY <1>1, <1>2 DEF Enumerates, IsInjective
<1>6. Enumerates(At(s, is), T)
  BY <1>1, <1>3, <1>4, <1>5, EnumIntro
<1>7. Len(At(s, is)) = Len(is)
  BY <1>1, <1>3, <1>4, <1>5, EnumIntro
<1> QED
  BY <1>1, <1>2, <1>6, <1>7

(* The order of the integers is a total order of any set of them.          *)
LEMMA LessOrders == ASSUME NEW I \in SUBSET Int PROVE Orders({p \in I \X I : p[1] < p[2]}, I)
<1> DEFINE R == {p \in I \X I : p[1] < p[2]}
<1>1. \A i, j \in I : <<i, j>> \in R <=> i < j
  OBVIOUS
<1> HIDE DEF R
<1>2. \A i \in I : i \in Int
  OBVIOUS
<1>3. Orders(R, I)
  BY <1>1, <1>2 DEF Orders
<1> QED
  BY <1>3 DEF R

(* Ascending lists a finite set of integers in increasing order.           *)
LEMMA AscendingFacts ==
    ASSUME NEW I \in SUBSET Int, IsFiniteSet(I)
    PROVE  /\ Enumerates(Ascending(I), I)
           /\ \A k, l \in 1..Len(Ascending(I)) : k < l => Ascending(I)[k] < Ascending(I)[l]
<1> DEFINE R == {p \in I \X I : p[1] < p[2]}
<1>1. Lists(InOrder(I, R), I, R) /\ Enumerates(InOrder(I, R), I)
  BY LessOrders, InOrderLists, EnumInOrder
<1>2. Cardinality(I) = Len(InOrder(I, R))
  BY <1>1, EnumLength
<1>3. \A i, j : <<i, j>> \in R => i < j
  OBVIOUS
<1>4. Ascending(I) = InOrder(I, R)
  BY DEF Ascending
<1> HIDE DEF R
<1> QED
  BY <1>1, <1>2, <1>3, <1>4 DEF Lists

(* A subsequence of a list of distinct elements.                           *)
LEMMA SubsequenceFacts ==
    ASSUME NEW S, NEW s, Enumerates(s, S), NEW I \in SUBSET (DOMAIN s),
           NEW T, T = {s[i] : i \in I}
    PROVE  /\ Enumerates(Subsequence(s, I), T)
           /\ Len(Subsequence(s, I)) = Len(Ascending(I))
           /\ Len(Subsequence(s, I)) = Cardinality(I)
           /\ Enumerates(Ascending(I), I)
           /\ \A k \in 1..Len(Ascending(I)) : Subsequence(s, I)[k] = s[Ascending(I)[k]]
           /\ \A k, l \in 1..Len(Ascending(I)) : k < l => Ascending(I)[k] < Ascending(I)[l]
<1>1. Len(s) \in Nat /\ DOMAIN s = 1..Len(s)
  BY EnumFacts
<1>2. IsFiniteSet(1..Len(s))
  BY <1>1, FS_Interval
<1>3. I \in SUBSET Int /\ IsFiniteSet(I)
  BY <1>1, <1>2, FS_Subset
<1>4. /\ Enumerates(Ascending(I), I)
      /\ \A k, l \in 1..Len(Ascending(I)) : k < l => Ascending(I)[k] < Ascending(I)[l]
  BY <1>3, AscendingFacts
<1>5. Len(Ascending(I)) = Cardinality(I)
  BY <1>4, EnumLength
<1>6. Enumerates(At(s, Ascending(I)), T)
  BY <1>4, EnumAt
<1>7. Len(At(s, Ascending(I))) = Len(Ascending(I))
  BY <1>4, EnumAt
<1>8. \A k \in 1..Len(Ascending(I)) : At(s, Ascending(I))[k] = s[Ascending(I)[k]]
  BY <1>4, EnumFacts DEF At
<1> QED
  BY <1>4, <1>5, <1>6, <1>7, <1>8 DEF Subsequence

(* A subsequence keeps the chosen places in their order.                   *)
LEMMA SubsequencePlaces ==
    ASSUME NEW S, NEW s, Enumerates(s, S), NEW I \in SUBSET (DOMAIN s),
           NEW t, t = Subsequence(s, I), NEW a, a = Ascending(I), NEW n, n = Len(t)
    PROVE  /\ n \in Nat /\ Len(a) = n
           /\ \A k \in 1..n : a[k] \in I /\ t[k] = s[a[k]]
           /\ \A i \in I : \E k \in 1..n : a[k] = i
           /\ \A k, l \in 1..n : k < l => a[k] < a[l]
<1>1. PICK T : T = {s[i] : i \in I}
  OBVIOUS
<1>2. Enumerates(Subsequence(s, I), T) /\ Len(Subsequence(s, I)) = Len(Ascending(I))
  BY <1>1, SubsequenceFacts
<1>3. \A k, l \in 1..Len(Ascending(I)) : k < l => Ascending(I)[k] < Ascending(I)[l]
  BY <1>1, SubsequenceFacts
<1>4. Enumerates(a, I) /\ Len(a) = n
  BY <1>1, <1>2, SubsequenceFacts
<1>5. Len(a) \in Nat /\ DOMAIN a = 1..Len(a) /\ \A k \in 1..Len(a) : a[k] \in I
  BY <1>4, EnumFacts
<1>6. \A i \in I : \E k \in 1..Len(a) : a[k] = i
  BY <1>4, <1>5 DEF Enumerates, ToSet
<1>7. \A k \in 1..Len(a) : t[k] = s[a[k]]
  BY <1>5 DEF Subsequence, At
<1> QED
  BY <1>2, <1>3, <1>4, <1>5, <1>6, <1>7

(* Filtering by a set of elements.                                         *)
LEMMA EnumFilter ==
    ASSUME NEW S, NEW s, Enumerates(s, S), NEW T \in SUBSET S, NEW I \in SUBSET (DOMAIN s),
           \A i \in DOMAIN s : i \in I <=> s[i] \in T
    PROVE  Enumerates(Subsequence(s, I), T)
<1>1. {s[i] : i \in I} = T
  BY EnumFacts
<1> QED
  BY <1>1, SubsequenceFacts

(* Enumerations of disjoint sets, one after the other.                     *)
LEMMA EnumConcat ==
    ASSUME NEW S, NEW s, Enumerates(s, S), NEW T, NEW t, Enumerates(t, T), S \cap T = {},
           NEW U, U = S \cup T
    PROVE  Enumerates(s \o t, U)
<1>1. PICK n : n = Len(s) + Len(t)
  OBVIOUS
<1>2. /\ s \in Seq(U) /\ t \in Seq(U) /\ Len(s) \in Nat /\ Len(t) \in Nat
      /\ \A i \in 1..Len(s) : s[i] \in S
      /\ \A i \in 1..Len(t) : t[i] \in T
  BY EnumFacts
<1>3. /\ s \o t \in Seq(U) /\ Len(s \o t) = n
      /\ \A i \in 1..n : (s \o t)[i] = IF i <= Len(s) THEN s[i] ELSE t[i - Len(s)]
  BY <1>1, <1>2, ConcatProperties
<1>4. s \o t \in [1..n -> U]
  BY <1>3, LenProperties
<1>5. n \in Nat
  BY <1>1, <1>2
<1>6. ASSUME NEW x \in U PROVE \E i \in 1..n : (s \o t)[i] = x
  <2>1. CASE x \in S
    <3>1. PICK i \in 1..Len(s) : s[i] = x
      BY <2>1, EnumFacts
    <3>2. i \in 1..n /\ i <= Len(s)
      BY <1>1, <1>2
    <3> QED
      BY <1>3, <3>1, <3>2
  <2>2. CASE x \in T
    <3>1. PICK i \in 1..Len(t) : t[i] = x
      BY <2>2, EnumFacts
    <3>2. Len(s) + i \in 1..n /\ ~(Len(s) + i <= Len(s)) /\ (Len(s) + i) - Len(s) = i
      BY <1>1, <1>2
    <3> QED
      BY <1>3, <3>1, <3>2
  <2> QED
    BY <2>1, <2>2
<1>7. ASSUME NEW i \in 1..n, NEW j \in 1..n, (s \o t)[i] = (s \o t)[j] PROVE i = j
  <2>1. CASE i <= Len(s) /\ j <= Len(s)
    <3>1. i \in 1..Len(s) /\ j \in 1..Len(s) /\ s[i] = s[j]
      BY <1>2, <1>3, <1>7, <2>1
    <3> QED
      BY <3>1, EnumFacts
  <2>2. CASE ~(i <= Len(s)) /\ ~(j <= Len(s))
    <3>1. i - Len(s) \in 1..Len(t) /\ j - Len(s) \in 1..Len(t)
      BY <1>1, <1>2, <2>2
    <3>2. t[i - Len(s)] = t[j - Len(s)]
      BY <1>3, <1>7, <2>2
    <3>3. i - Len(s) = j - Len(s)
      BY <3>1, <3>2, EnumFacts
    <3> QED
      BY <1>2, <3>3
  <2>3. CASE i <= Len(s) /\ ~(j <= Len(s))
    <3>1. i \in 1..Len(s) /\ j - Len(s) \in 1..Len(t)
      BY <1>1, <1>2, <2>3
    <3> QED
      BY <1>2, <1>3, <1>7, <2>3, <3>1
  <2>4. CASE ~(i <= Len(s)) /\ j <= Len(s)
    <3>1. j \in 1..Len(s) /\ i - Len(s) \in 1..Len(t)
      BY <1>1, <1>2, <2>4
    <3> QED
      BY <1>2, <1>3, <1>7, <2>4, <3>1
  <2> QED
    BY <2>1, <2>2, <2>3, <2>4
<1> QED
  BY <1>5, <1>4, <1>6, <1>7, EnumIntro

(* The first n of a list of distinct elements.                             *)
LEMMA EnumPrefix ==
    ASSUME NEW S, NEW s, Enumerates(s, S), NEW n \in 0..Len(s), NEW T, T = {s[i] : i \in 1..n}
    PROVE  /\ Enumerates(SubSeq(s, 1, n), T)
           /\ Len(SubSeq(s, 1, n)) = n
           /\ \A i \in 1..n : SubSeq(s, 1, n)[i] = s[i]
<1>1. Len(s) \in Nat /\ n \in Nat /\ \A i \in 1..n : s[i] \in T /\ i \in 1..Len(s)
  BY EnumFacts
<1>2. SubSeq(s, 1, n) \in Seq(T)
  BY <1>1, SubSeqProperties
<1>3. Len(SubSeq(s, 1, n)) = n
  BY <1>1, SubSeqProperties
<1>4. \A i \in 1..n : SubSeq(s, 1, n)[i] = s[i]
  BY <1>1, SubSeqProperties
<1>5. SubSeq(s, 1, n) \in [1..n -> T]
  BY <1>2, <1>3, LenProperties
<1>6. \A x \in T : \E i \in 1..n : SubSeq(s, 1, n)[i] = x
  BY <1>4
<1>7. \A i, j \in 1..n : SubSeq(s, 1, n)[i] = SubSeq(s, 1, n)[j] => i = j
  BY <1>1, <1>4, EnumFacts
<1>8. Enumerates(SubSeq(s, 1, n), T)
  BY <1>1, <1>5, <1>6, <1>7, EnumIntro
<1> QED
  BY <1>3, <1>4, <1>8

(* One element.                                                            *)
LEMMA EnumSingle == ASSUME NEW x PROVE Enumerates(<<x>>, {x})
<1>1. PICK s : s = <<x>>
  OBVIOUS
<1>2. s \in [1..1 -> {x}]
  BY <1>1
<1>3. \A y \in {x} : \E i \in 1..1 : s[i] = y
  BY <1>1
<1>4. \A i, j \in 1..1 : s[i] = s[j] => i = j
  OBVIOUS
<1>5. PICK S : S = {x}
  OBVIOUS
<1>6. Enumerates(s, S)
  BY <1>2, <1>3, <1>4, <1>5, EnumIntro, 1 \in Nat
<1> QED
  BY <1>1, <1>5, <1>6

(* One more element at the end.                                            *)
LEMMA EnumAppend ==
    ASSUME NEW S, NEW s, Enumerates(s, S), NEW x, x \notin S, NEW T, T = S \cup {x}
    PROVE  Enumerates(Append(s, x), T)
<1>1. Enumerates(<<x>>, {x})
  BY EnumSingle
<1>2. Enumerates(s \o <<x>>, T)
  BY <1>1, EnumConcat
<1>3. Append(s, x) = s \o <<x>>
  <2>1. s \in Seq(T)
    BY DEF Enumerates
  <2> QED
    BY <2>1, AppendIsConcat
<1> QED
  BY <1>2, <1>3

(* No element.                                                             *)
LEMMA EnumEmpty == Enumerates(<<>>, {})
BY DEF Enumerates, IsInjective, ToSet

(* Without the first element.                                              *)
LEMMA EnumTail ==
    ASSUME NEW S, NEW s, Enumerates(s, S), s # <<>>, NEW T, T = S \ {Head(s)}
    PROVE  Head(s) \in S /\ Enumerates(Tail(s), T)
<1>1. s \in Seq(S) /\ Len(s) \in Nat
  BY EnumFacts
<1>2. /\ Head(s) \in S /\ Tail(s) \in Seq(S)
      /\ Len(Tail(s)) = Len(s) - 1
      /\ \A i \in 1..Len(Tail(s)) : Tail(s)[i] = s[i + 1]
  BY <1>1, HeadTailProperties
<1>3. Head(s) = s[1] /\ Len(s) # 0
  BY <1>1
<1>4. PICK n : n = Len(s) - 1
  OBVIOUS
<1>5. n \in Nat /\ \A i \in 1..n : i \in 1..Len(s) /\ i + 1 \in 1..Len(s)
  BY <1>1, <1>3, <1>4
<1>6. \A i \in 1..n : Tail(s)[i] = s[i + 1] /\ Tail(s)[i] \in T
  <2> SUFFICES ASSUME NEW i \in 1..n PROVE Tail(s)[i] = s[i + 1] /\ Tail(s)[i] \in T
    OBVIOUS
  <2>1. Tail(s)[i] = s[i + 1]
    BY <1>2, <1>4
  <2>2. i + 1 # 1 /\ 1 \in 1..Len(s) /\ i + 1 \in 1..Len(s)
    BY <1>1, <1>3, <1>5
  <2>3. s[i + 1] \in S /\ s[i + 1] # s[1]
    BY <2>2, EnumFacts
  <2> QED
    BY <1>3, <2>1, <2>3
<1>7. Tail(s) \in [1..n -> T]
  <2>1. Tail(s) \in [1..n -> S]
    BY <1>2, <1>4, LenProperties
  <2> QED
    BY <1>6, <2>1
<1>8. ASSUME NEW x \in T PROVE \E i \in 1..n : Tail(s)[i] = x
  <2>1. PICK j \in 1..Len(s) : s[j] = x
    BY EnumFacts
  <2>2. j # 1
    BY <1>3, <2>1
  <2>3. j - 1 \in 1..n /\ (j - 1) + 1 = j
    BY <1>1, <1>4, <2>2
  <2> QED
    BY <1>6, <2>1, <2>3
<1>9. ASSUME NEW i \in 1..n, NEW j \in 1..n, Tail(s)[i] = Tail(s)[j] PROVE i = j
  <2>1. s[i + 1] = s[j + 1]
    BY <1>6, <1>9
  <2>2. i + 1 = j + 1
    BY <1>5, <2>1, EnumFacts
  <2> QED
    BY <1>5, <2>2
<1>10. Enumerates(Tail(s), T)
  BY <1>5, <1>7, <1>8, <1>9, EnumIntro
<1> QED
  BY <1>2, <1>10

(* Backwards.                                                              *)
LEMMA EnumReverse ==
    ASSUME NEW S, NEW s, Enumerates(s, S)
    PROVE  Enumerates(Reverse(s), S)
<1>1. PICK n : n = Len(s)
  OBVIOUS
<1>2. n \in Nat /\ \A i \in 1..n : (n - i) + 1 \in 1..n
  BY <1>1, EnumFacts
<1>3. Reverse(s) = [i \in 1..n |-> s[(n - i) + 1]]
  BY <1>1 DEF Reverse
<1>4. Reverse(s) \in [1..n -> S]
  BY <1>1, <1>2, <1>3, EnumFacts
<1>5. ASSUME NEW x \in S PROVE \E i \in 1..n : Reverse(s)[i] = x
  <2>1. PICK j \in 1..n : s[j] = x
    BY <1>1, EnumFacts
  <2>2. (n - j) + 1 \in 1..n /\ (n - ((n - j) + 1)) + 1 = j
    BY <1>2
  <2> QED
    BY <1>3, <2>1, <2>2
<1>6. ASSUME NEW i \in 1..n, NEW j \in 1..n, Reverse(s)[i] = Reverse(s)[j] PROVE i = j
  <2>1. s[(n - i) + 1] = s[(n - j) + 1]
    BY <1>3, <1>6
  <2>2. (n - i) + 1 = (n - j) + 1
    BY <1>1, <1>2, <2>1, EnumFacts
  <2> QED
    BY <1>2, <2>2
<1> QED
  BY <1>2, <1>4, <1>5, <1>6, EnumIntro

(* SetToSeq lists a finite set once.                                       *)
LEMMA EnumSetToSeq ==
    ASSUME NEW S, IsFiniteSet(S)
    PROVE  Enumerates(SetToSeq(S), S)
<1>1. Cardinality(S) \in Nat /\ ExistsBijection(1..Cardinality(S), S)
  BY FS_CardinalityType
<1>2. \E f \in [1..Cardinality(S) -> S] : IsInjective(f)
  BY <1>1 DEF ExistsBijection, Bijection, Injection
<1>3. SetToSeq(S) \in [1..Cardinality(S) -> S] /\ IsInjective(SetToSeq(S))
  BY <1>2 DEF SetToSeq
<1>4. SetToSeq(S) \in Injection(1..Cardinality(S), S)
  BY <1>3 DEF Injection
<1>5. IsFiniteSet(1..Cardinality(S)) /\ Cardinality(1..Cardinality(S)) = Cardinality(S)
  BY <1>1, FS_Interval
<1>6. SetToSeq(S) \in Surjection(1..Cardinality(S), S)
  BY <1>4, <1>5, FS_Injection
<1>7. \A x \in S : \E i \in 1..Cardinality(S) : SetToSeq(S)[i] = x
  BY <1>6 DEF Surjection
<1>8. \A i, j \in 1..Cardinality(S) : SetToSeq(S)[i] = SetToSeq(S)[j] => i = j
  BY <1>3 DEF IsInjective
<1> QED
  BY <1>1, <1>3, <1>7, <1>8, EnumIntro

-----------------------------------------------------------------------------
(* W is a strict weak order of the indices I: what "before" must be for a  *)
(* sort to make sense.                                                     *)
WeaklyOrders(W, I) ==
    /\ \A i, j \in I : <<i, j>> \in W => <<j, i>> \notin W
    /\ \A i, j, k \in I : <<i, k>> \in W => <<i, j>> \in W \/ <<j, k>> \in W

(* The order a stable sort leaves: by W, then by index.                    *)
StableBy(R, W, I) ==
    \A i, j \in I : <<i, j>> \in R <=> <<i, j>> \in W \/ (<<j, i>> \notin W /\ i < j)

(* A weak order with ties broken by place is a total order.                *)
LEMMA StableOrders ==
    ASSUME NEW I \in SUBSET Int, NEW W, WeaklyOrders(W, I), NEW R, StableBy(R, W, I)
    PROVE  Orders(R, I)
<1>1. \A i \in I : i \in Int
  OBVIOUS
<1>2. \A i \in I : <<i, i>> \notin R
  BY <1>1 DEF WeaklyOrders, StableBy
<1>3. \A i, j \in I : i # j => <<i, j>> \in R \/ <<j, i>> \in R
  BY <1>1 DEF StableBy
<1>4. ASSUME NEW i \in I, NEW j \in I, NEW k \in I, <<i, j>> \in R, <<j, k>> \in R
      PROVE  <<i, k>> \in R
  <2>1. <<i, j>> \in W \/ (<<j, i>> \notin W /\ i < j)
    BY <1>4 DEF StableBy
  <2>2. <<j, k>> \in W \/ (<<k, j>> \notin W /\ j < k)
    BY <1>4 DEF StableBy
  <2>3. ~(<<i, j>> \in W /\ <<j, i>> \in W) /\ ~(<<j, k>> \in W /\ <<k, j>> \in W)
    BY DEF WeaklyOrders
  <2>4. <<k, i>> \notin W
    BY <2>1, <2>2, <2>3 DEF WeaklyOrders
  <2>5. CASE <<i, j>> \in W \/ <<j, k>> \in W
    <3>1. <<i, k>> \in W
      BY <2>1, <2>2, <2>3, <2>5 DEF WeaklyOrders
    <3> QED
      BY <3>1 DEF StableBy
  <2>6. CASE <<i, j>> \notin W /\ <<j, k>> \notin W
    <3>1. i < k
      BY <1>1, <2>1, <2>2, <2>6
    <3> QED
      BY <2>4, <3>1 DEF StableBy
  <2> QED
    BY <2>5, <2>6
<1> QED
  BY <1>2, <1>3, <1>4 DEF Orders

(* A stable sort permutes, and leaves no element behind one it goes before.*)
LEMMA EnumSort ==
    ASSUME NEW S, NEW s, Enumerates(s, S), NEW W, WeaklyOrders(W, DOMAIN s),
           NEW R, StableBy(R, W, DOMAIN s), NEW is, is = InOrder(DOMAIN s, R),
           NEW t, t = At(s, is), NEW n, n = Len(s)
    PROVE  /\ Enumerates(t, S) /\ Len(t) = n
           /\ Enumerates(is, DOMAIN s) /\ Len(is) = n
           /\ \A k \in 1..n : t[k] = s[is[k]]
           /\ \A k, l \in 1..n : k < l => <<is[k], is[l]>> \in R
<1>1. Len(s) \in Nat /\ DOMAIN s = 1..Len(s)
  BY EnumFacts
<1>2. IsFiniteSet(1..Len(s)) /\ Cardinality(1..Len(s)) = Len(s)
  BY <1>1, UpTo
<1>3. Orders(R, DOMAIN s)
  BY <1>1, StableOrders
<1>4. Lists(is, DOMAIN s, R)
  BY <1>1, <1>2, <1>3, InOrderLists
<1>5. Enumerates(is, DOMAIN s)
  BY <1>1, <1>2, <1>3, EnumInOrder
<1>6. Len(is) = Len(s)
  BY <1>1, <1>2, <1>5, EnumLength
<1>7. PICK I : I = DOMAIN s
  OBVIOUS
<1>8. I \in SUBSET (DOMAIN s) /\ S = {s[i] : i \in I} /\ Enumerates(is, I)
  BY <1>5, <1>7 DEF Enumerates, ToSet
<1>9. Enumerates(t, S) /\ Len(t) = Len(is)
  BY <1>8, EnumAt
<1>10. \A k \in 1..Len(is) : t[k] = s[is[k]]
  BY <1>5, EnumFacts DEF At
<1>11. \A k, l \in 1..Len(s) : k < l => <<is[k], is[l]>> \in R
  BY <1>1, <1>2, <1>4 DEF Lists
<1> QED
  BY <1>5, <1>6, <1>9, <1>10, <1>11

-----------------------------------------------------------------------------
(* A finite set of integers has a greatest and a least member.             *)
LEMMA MaxMinFacts ==
    ASSUME NEW I \in SUBSET Int, IsFiniteSet(I), I # {}
    PROVE  /\ Max(I) \in I /\ \A i \in I : i <= Max(I)
           /\ Min(I) \in I /\ \A i \in I : Min(I) <= i
<1>1. PICK s : s = Ascending(I)
  OBVIOUS
<1>2. Enumerates(s, I) /\ \A k, l \in 1..Len(s) : k < l => s[k] < s[l]
  BY <1>1, AscendingFacts
<1>3. PICK n : n = Len(s)
  OBVIOUS
<1>4. /\ n \in Nat /\ \A k \in 1..n : s[k] \in I /\ s[k] \in Int
      /\ \A i \in I : \E k \in 1..n : s[k] = i
  BY <1>2, <1>3, EnumFacts
<1>5. 1 \in 1..n /\ n \in 1..n
  <2>1. PICK i : i \in I
    OBVIOUS
  <2>2. PICK k \in 1..n : s[k] = i
    BY <1>4, <2>1
  <2> QED
    BY <1>4
<1>6. \A i \in I : s[1] <= i /\ i <= s[n]
  <2> SUFFICES ASSUME NEW i \in I PROVE s[1] <= i /\ i <= s[n]
    OBVIOUS
  <2>1. PICK k \in 1..n : s[k] = i
    BY <1>4
  <2>2. (k = 1 \/ 1 < k) /\ (k = n \/ k < n)
    BY <1>4
  <2> QED
    BY <1>2, <1>3, <1>4, <1>5, <2>1, <2>2
<1>7. \E m \in I : \A i \in I : m >= i
  BY <1>4, <1>5, <1>6
<1>8. \E m \in I : \A i \in I : m <= i
  BY <1>4, <1>5, <1>6
<1>9. Max(I) \in I /\ \A i \in I : Max(I) >= i
  BY <1>7 DEF Max
<1>10. Min(I) \in I /\ \A i \in I : Min(I) <= i
  BY <1>8 DEF Min
<1>11. \A i \in I : i <= Max(I)
  BY <1>9
<1> QED
  BY <1>9, <1>10, <1>11

(* The smaller of two integers.                                            *)
LEMMA MinOfTwo ==
    ASSUME NEW a \in Int, NEW b \in Int
    PROVE  Min({a, b}) = IF a <= b THEN a ELSE b
<1>1. PICK m : m = IF a <= b THEN a ELSE b
  OBVIOUS
<1>2. m \in {a, b} /\ \A y \in {a, b} : m <= y
  BY <1>1
<1>3. \A x \in {a, b} : (\A y \in {a, b} : x <= y) => x = m
  BY <1>1
<1>4. Min({a, b}) = m
  BY <1>2, <1>3 DEF Min
<1> QED
  BY <1>1, <1>4

(* The larger of two integers.                                             *)
LEMMA MaxOfTwo ==
    ASSUME NEW a \in Int, NEW b \in Int
    PROVE  Max({a, b}) = IF a >= b THEN a ELSE b
<1>1. PICK m : m = IF a >= b THEN a ELSE b
  OBVIOUS
<1>2. m \in {a, b} /\ \A y \in {a, b} : m >= y
  BY <1>1
<1>3. \A x \in {a, b} : (\A y \in {a, b} : x >= y) => x = m
  BY <1>1
<1>4. Max({a, b}) = m
  BY <1>2, <1>3 DEF Max
<1> QED
  BY <1>1, <1>4

(* Finitely many lists hold finitely many elements.                        *)
LEMMA PlacesFinite ==
    ASSUME NEW lists, IsFiniteSet(DOMAIN lists),
           \A i \in DOMAIN lists : IsFiniteSet(DOMAIN lists[i])
    PROVE  IsFiniteSet(Places(lists))
<1>1. \A i \in DOMAIN lists : IsFiniteSet({i} \X DOMAIN lists[i])
  BY FS_Product, FS_Singleton
<1>2. PICK U : U = {{i} \X DOMAIN lists[i] : i \in DOMAIN lists}
  OBVIOUS
<1>3. IsFiniteSet(U) /\ \A u \in U : IsFiniteSet(u)
  <2> DEFINE f == [i \in DOMAIN lists |-> {i} \X DOMAIN lists[i]]
  <2>1. f \in Surjection(DOMAIN lists, U)
    BY <1>2 DEF Surjection
  <2>2. IsFiniteSet(U)
    BY <2>1, FS_Surjection
  <2> QED
    BY <1>1, <1>2, <2>2
<1>4. IsFiniteSet(UNION U)
  BY <1>3, FS_UNION
<1> QED
  BY <1>2, <1>4 DEF Places

-----------------------------------------------------------------------------
(* Induction, as the least counterexample.                                 *)
LEMMA LeastNat ==
    ASSUME NEW B \in SUBSET Nat, B # {}
    PROVE  \E m \in B : \A k \in B : m <= k
<1>1. PICK m \in B : ~\E k \in B : <<k, m>> \in OpToRel(<, Nat)
  BY NatLessThanWellFounded, WFMin
<1>2. \A k \in B : ~(k < m)
  BY <1>1 DEF OpToRel
<1>3. \A k \in B : m <= k
  BY <1>2
<1> QED
  BY <1>3

(* The lists hold the members of S, each in one place.                     *)
Splits(lists, S) ==
    /\ lists \in Seq(Seq(S))
    /\ \A i \in DOMAIN lists : IsInjective(lists[i])
    /\ \A i, j \in DOMAIN lists : i # j => ToSet(lists[i]) \cap ToSet(lists[j]) = {}
    /\ \A x \in S : \E i \in DOMAIN lists : x \in ToSet(lists[i])

(* The recursion of FlattenSeq defines a function.                         *)
LEMMA FlattenDefined ==
    ASSUME NEW lists, NEW n \in Nat
    PROVE  \E f : f = [i \in 1..n |-> IF i = 1 THEN lists[i] ELSE f[i - 1] \o lists[i]]
<1> DEFINE Good(m) == \E f : f = [i \in 1..m |-> IF i = 1 THEN lists[i] ELSE f[i - 1] \o lists[i]]
           B == {m \in Nat : ~Good(m)}
<1> SUFFICES ASSUME B # {} PROVE FALSE
  OBVIOUS
<1>1. PICK m \in B : \A k \in B : m <= k
  BY LeastNat
<1>2. m \in Nat /\ ~Good(m)
  OBVIOUS
<1>3. m # 0
  <2>1. SUFFICES Good(0)
    BY <1>2
  <2>2. PICK f : f = [i \in 1..0 |-> lists[i]]
    OBVIOUS
  <2>3. f = [i \in 1..0 |-> IF i = 1 THEN lists[i] ELSE f[i - 1] \o lists[i]]
    BY <2>2
  <2> QED
    BY <2>3
<1>4. m - 1 \in Nat /\ m - 1 \notin B
  <2>1. m - 1 \in Nat /\ ~(m <= m - 1)
    BY <1>2, <1>3
  <2> HIDE DEF B
  <2> QED
    BY <1>1, <2>1
<1>5. Good(m - 1)
  BY <1>4
<1>6. PICK f : f = [i \in 1..(m - 1) |-> IF i = 1 THEN lists[i] ELSE f[i - 1] \o lists[i]]
  BY <1>5
<1>7. PICK g : g = [i \in 1..m |-> IF i < m THEN f[i]
                                  ELSE IF i = 1 THEN lists[i] ELSE f[i - 1] \o lists[i]]
  OBVIOUS
<1>8. \A i \in 1..m : g[i] = IF i = 1 THEN lists[i] ELSE g[i - 1] \o lists[i]
  <2> SUFFICES ASSUME NEW i \in 1..m
               PROVE g[i] = IF i = 1 THEN lists[i] ELSE g[i - 1] \o lists[i]
    OBVIOUS
  <2>1. i # 1 => i - 1 \in 1..m /\ i - 1 < m
    BY <1>2
  <2>2. i # 1 => g[i - 1] = f[i - 1]
    BY <1>7, <2>1
  <2>3. CASE i < m
    <3>1. i \in 1..(m - 1)
      BY <1>2, <2>3
    <3>2. g[i] = f[i] /\ f[i] = IF i = 1 THEN lists[i] ELSE f[i - 1] \o lists[i]
      BY <1>6, <1>7, <2>3, <3>1
    <3> QED
      BY <2>2, <3>2
  <2>4. CASE ~(i < m)
    BY <1>7, <2>2, <2>4
  <2> QED
    BY <2>3, <2>4
<1>9. g = [i \in 1..m |-> IF i = 1 THEN lists[i] ELSE g[i - 1] \o lists[i]]
  BY <1>7, <1>8
<1> QED
  BY <1>2, <1>9

(* Concatenating lists that split S lists S.                               *)
LEMMA EnumFlatten ==
    ASSUME NEW S, NEW lists, Splits(lists, S)
    PROVE  Enumerates(FlattenSeq(lists), S)
<1>1. PICK n : n = Len(lists)
  OBVIOUS
<1>2. n \in Nat /\ DOMAIN lists = 1..n /\ \A i \in 1..n : lists[i] \in Seq(S)
  BY <1>1 DEF Splits
<1>3. CASE n = 0
  <2>1. S = {}
    BY <1>2, <1>3 DEF Splits
  <2>2. lists = <<>>
    BY <1>1, <1>3, EmptySeq DEF Splits
  <2> QED
    BY <1>1, <1>3, <2>1, <2>2, EnumEmpty DEF FlattenSeq
<1>4. CASE n # 0
  <2>1. PICK f : f = CHOOSE g : g = [i \in 1..n |-> IF i = 1 THEN lists[i] ELSE g[i - 1] \o lists[i]]
    OBVIOUS
  <2>2. f = [i \in 1..n |-> IF i = 1 THEN lists[i] ELSE f[i - 1] \o lists[i]]
    BY <1>2, <2>1, FlattenDefined
  <2>3. FlattenSeq(lists) = f[n]
    BY <1>1, <1>4, <2>1 DEF FlattenSeq
  <2>4. \A i \in 1..n : f[i] = IF i = 1 THEN lists[i] ELSE f[i - 1] \o lists[i]
    BY <2>2
  <2>5. PICK C : C = [m \in 0..n |-> UNION {ToSet(lists[i]) : i \in 1..m}]
    OBVIOUS
  <2>6. PICK B : B = {m \in 1..n : ~Enumerates(f[m], C[m])}
    OBVIOUS
  <2>7. ASSUME B # {} PROVE FALSE
    <3>1. B \in SUBSET Nat
      BY <1>2, <2>6
    <3>2. PICK m \in B : \A k \in B : m <= k
      BY <2>7, <3>1, LeastNat
    <3>3. m \in 1..n /\ ~Enumerates(f[m], C[m])
      BY <2>6
    <3>4. Enumerates(lists[m], ToSet(lists[m]))
      BY <1>2, <3>3, EnumSelf DEF Splits
    <3>5. CASE m = 1
      <4>1. C[1] = ToSet(lists[1]) /\ f[1] = lists[1]
        BY <1>2, <2>4, <2>5, <3>3, <3>5
      <4> QED
        BY <3>3, <3>4, <3>5, <4>1
    <3>6. CASE m # 1
      <4>1. m - 1 \in 1..n /\ ~(m <= m - 1)
        BY <1>2, <3>3, <3>6
      <4>2. Enumerates(f[m - 1], C[m - 1])
        BY <2>6, <3>2, <4>1
      <4>3. f[m] = f[m - 1] \o lists[m]
        BY <2>4, <3>3, <3>6
      <4>4. C[m] = C[m - 1] \cup ToSet(lists[m])
        <5>1. m \in 0..n /\ m - 1 \in 0..n /\ 1..m = (1..(m - 1)) \cup {m}
          BY <1>2, <3>3, <4>1
        <5> QED
          BY <2>5, <5>1
      <4>5. C[m - 1] \cap ToSet(lists[m]) = {}
        <5>1. m - 1 \in 0..n /\ \A i \in 1..(m - 1) : i \in 1..n /\ i # m
          BY <1>2, <3>3, <4>1
        <5>2. C[m - 1] = UNION {ToSet(lists[i]) : i \in 1..(m - 1)}
          BY <2>5, <5>1
        <5>3. \A i \in 1..(m - 1) : ToSet(lists[i]) \cap ToSet(lists[m]) = {}
          BY <1>2, <3>3, <5>1 DEF Splits
        <5> QED
          BY <5>2, <5>3
      <4>6. PICK D : D = C[m]
        OBVIOUS
      <4>7. Enumerates(f[m], D)
        BY <3>4, <4>2, <4>3, <4>4, <4>5, <4>6, EnumConcat
      <4> QED
        BY <3>3, <4>6, <4>7
    <3> QED
      BY <3>5, <3>6
  <2>8. n \in 1..n /\ n \in 0..n
    BY <1>2, <1>4
  <2>9. Enumerates(f[n], C[n])
    BY <2>6, <2>7, <2>8
  <2>10. C[n] = S
    <3>1. C[n] = UNION {ToSet(lists[i]) : i \in 1..n}
      BY <2>5, <2>8
    <3>2. \A i \in 1..n : ToSet(lists[i]) \in SUBSET S
      BY <1>2 DEF ToSet
    <3> QED
      BY <1>2, <3>1, <3>2 DEF Splits
  <2> QED
    BY <2>3, <2>9, <2>10
<1> QED
  BY <1>3, <1>4

(* The groups of the indices of s by their key, F being where a key is     *)
(* first met.                                                              *)
AreGroups(groups, F, s, key) ==
    /\ F = {i \in DOMAIN s : \A j \in 1..(i - 1) : key[j] # key[i]}
    /\ groups = [g \in DOMAIN Ascending(F) |->
                   Subsequence(s, {i \in DOMAIN s : key[i] = key[Ascending(F)[g]]})]
NoneEmpty(lists) == \A g \in DOMAIN lists : lists[g] # <<>>

(* Grouping by the key of an index: the groups split what is grouped, and  *)
(* none is empty.                                                          *)
LEMMA GroupsSplit ==
    ASSUME NEW S, NEW s, Enumerates(s, S), NEW key, NEW F, NEW groups, AreGroups(groups, F, s, key)
    PROVE  Splits(groups, S) /\ NoneEmpty(groups)
<1>1. /\ F = {i \in DOMAIN s : \A j \in 1..(i - 1) : key[j] # key[i]}
      /\ groups = [g \in DOMAIN Ascending(F) |->
                     Subsequence(s, {i \in DOMAIN s : key[i] = key[Ascending(F)[g]]})]
  BY DEF AreGroups
<1> USE <1>1
<1>2. PICK first : first = Ascending(F)
  OBVIOUS
<1>3. Len(s) \in Nat /\ DOMAIN s = 1..Len(s) /\ \A i \in DOMAIN s : s[i] \in S
  BY EnumFacts
<1>4. F \in SUBSET Int /\ F \in SUBSET (DOMAIN s) /\ IsFiniteSet(F)
  <2>1. F \in SUBSET (1..Len(s)) /\ F \in SUBSET (DOMAIN s)
    BY <1>3
  <2>2. IsFiniteSet(1..Len(s))
    BY <1>3, FS_Interval
  <2>3. IsFiniteSet(F)
    BY <2>1, <2>2, FS_Subset
  <2>4. F \in SUBSET Int
    BY <1>3, <2>1
  <2> QED
    BY <2>1, <2>3, <2>4
<1>5. Enumerates(first, F)
  BY <1>2, <1>4, AscendingFacts
<1>6. PICK m : m = Len(first)
  OBVIOUS
<1>7. /\ m \in Nat /\ DOMAIN first = 1..m
      /\ \A g \in 1..m : first[g] \in F
      /\ \A i \in F : \E g \in 1..m : first[g] = i
      /\ \A g, h \in 1..m : first[g] = first[h] => g = h
  <2>1. PICK E : E = F
    OBVIOUS
  <2>2. Enumerates(first, E)
    BY <1>5, <2>1
  <2>3. /\ m \in Nat /\ DOMAIN first = 1..m
        /\ \A g \in 1..m : first[g] \in E
    BY <1>6, <2>2, EnumFacts
  <2>4. \A i \in E : \E g \in 1..m : first[g] = i
    BY <1>6, <2>2, EnumFacts
  <2>5. \A g, h \in 1..m : first[g] = first[h] => g = h
    BY <1>6, <2>2, EnumFacts
  <2> QED
    BY <2>1, <2>3, <2>4, <2>5
<1>8. PICK I : I = [g \in 1..m |-> {i \in DOMAIN s : key[i] = key[first[g]]}]
  OBVIOUS
<1>9. /\ DOMAIN groups = 1..m
      /\ \A g \in 1..m : groups[g] = Subsequence(s, I[g]) /\ I[g] \in SUBSET (DOMAIN s)
  BY <1>2, <1>7, <1>8
<1>10. ASSUME NEW g \in 1..m
      PROVE  /\ Enumerates(groups[g], {s[i] : i \in I[g]})
             /\ groups[g] \in Seq(S) /\ IsInjective(groups[g])
             /\ ToSet(groups[g]) = {s[i] : i \in I[g]}
  <2>1. PICK T : T = {s[i] : i \in I[g]}
    OBVIOUS
  <2>2. Enumerates(groups[g], T)
    BY <1>9, <2>1, SubsequenceFacts
  <2>3. T \in SUBSET S
    BY <1>3, <1>9, <2>1
  <2>4. groups[g] \in Seq(T) /\ IsInjective(groups[g]) /\ ToSet(groups[g]) = T
    BY <2>2 DEF Enumerates
  <2>5. groups[g] \in Seq(S)
    BY <2>3, <2>4
  <2> QED
    BY <2>1, <2>2, <2>4, <2>5
<1>11. ASSUME NEW g \in 1..m PROVE first[g] \in I[g] /\ groups[g] # <<>>
  <2>1. first[g] \in I[g]
    BY <1>4, <1>7, <1>8
  <2>2. s[first[g]] \in ToSet(groups[g])
    BY <1>10, <2>1
  <2>3. PICK k : k \in DOMAIN (groups[g])
    BY <2>2 DEF ToSet
  <2>4. groups[g] # <<>>
    BY <2>3
  <2> QED
    BY <2>1, <2>4
<1>12. ASSUME NEW g \in 1..m, NEW h \in 1..m, key[first[g]] = key[first[h]] PROVE g = h
  <2>1. first[g] \in F /\ first[h] \in F /\ first[g] \in Int /\ first[h] \in Int
    BY <1>4, <1>7
  <2>2. first[g] \in 1..Len(s) /\ first[h] \in 1..Len(s)
    BY <1>3, <1>4, <2>1
  <2>3. ~(first[g] < first[h])
    <3>1. first[g] < first[h] => first[g] \in 1..(first[h] - 1)
      BY <1>3, <2>2
    <3> QED
      BY <1>12, <2>1, <3>1
  <2>4. ~(first[h] < first[g])
    <3>1. first[h] < first[g] => first[h] \in 1..(first[g] - 1)
      BY <1>3, <2>2
    <3> QED
      BY <1>12, <2>1, <3>1
  <2>5. first[g] = first[h]
    BY <2>1, <2>3, <2>4
  <2> QED
    BY <1>7, <2>5
<1>13. ASSUME NEW x \in S PROVE \E g \in 1..m : x \in ToSet(groups[g])
  <2>1. PICK i \in DOMAIN s : s[i] = x
    BY <1>3, EnumFacts
  <2>2. PICK B : B = {j \in DOMAIN s : key[j] = key[i]}
    OBVIOUS
  <2>3. B \in SUBSET Nat /\ i \in B
    BY <1>3, <2>2
  <2>4. PICK j \in B : \A k \in B : j <= k
    BY <2>3, LeastNat
  <2>5. j \in F
    <3>1. j \in 1..Len(s) /\ key[j] = key[i]
      BY <1>3, <2>2
    <3>2. \A k \in 1..(j - 1) : k \in 1..Len(s) /\ ~(j <= k)
      BY <1>3, <3>1
    <3>3. \A k \in 1..(j - 1) : key[k] # key[j]
      BY <1>3, <2>2, <2>4, <3>1, <3>2
    <3> QED
      BY <1>3, <3>1, <3>3
  <2>6. PICK g \in 1..m : first[g] = j
    BY <1>7, <2>5
  <2>7. i \in I[g]
    BY <1>8, <2>2, <2>6
  <2> QED
    BY <1>10, <2>1, <2>7
<1>14. \A g, h \in 1..m : g # h => ToSet(groups[g]) \cap ToSet(groups[h]) = {}
  <2> SUFFICES ASSUME NEW g \in 1..m, NEW h \in 1..m, NEW x \in ToSet(groups[g]), x \in ToSet(groups[h])
               PROVE  g = h
    OBVIOUS
  <2>1. PICK i \in I[g] : x = s[i]
    BY <1>10
  <2>2. PICK j \in I[h] : x = s[j]
    BY <1>10
  <2>3. i \in DOMAIN s /\ j \in DOMAIN s /\ key[i] = key[first[g]] /\ key[j] = key[first[h]]
    BY <1>8, <2>1, <2>2
  <2>4. i = j
    BY <2>1, <2>2, <2>3 DEF Enumerates, IsInjective
  <2> QED
    BY <1>12, <2>3, <2>4
<1>15. groups \in Seq(Seq(S))
  <2>1. groups \in [1..m -> Seq(S)]
    <3>1. groups = [g \in 1..m |-> groups[g]]
      BY <1>2, <1>7
    <3> QED
      BY <1>10, <3>1
  <2>2. PICK U : U = Seq(S)
    OBVIOUS
  <2>3. groups \in [1..m -> U]
    BY <2>1, <2>2
  <2>4. groups \in Seq(U)
    BY <1>7, <2>3, SeqIntro
  <2> QED
    BY <2>2, <2>4
<1>16. Splits(groups, S)
  BY <1>9, <1>10, <1>13, <1>14, <1>15 DEF Splits
<1> QED
  BY <1>9, <1>11, <1>16 DEF NoneEmpty

-----------------------------------------------------------------------------
(* The elements at the places I; and the place i goes before j, being      *)
(* lighter, or earlier of two that weigh the same.                         *)
ElementsAt(s, I) == {s[i] : i \in I}
Before(wt, s, i, j) == wt[s[i]] < wt[s[j]] \/ (wt[s[i]] = wt[s[j]] /\ i < j)

(* The first m of a subsequence are those of its places that come first.   *)
LEMMA FirstPlaces ==
    ASSUME NEW S, NEW s, Enumerates(s, S), NEW P \in SUBSET (DOMAIN s), NEW t, t = Subsequence(s, P),
           NEW m \in 0..Len(t)
    PROVE  \E K \in SUBSET P : /\ Enumerates(SubSeq(t, 1, m), ElementsAt(s, K))
                              /\ \A i \in K, j \in P \ K : i < j
<1>1. PICK T : T = {s[i] : i \in P}
  OBVIOUS
<1>2. PICK a : a = Ascending(P)
  OBVIOUS
<1>3. PICK n : n = Len(t)
  OBVIOUS
<1>4. Enumerates(t, T)
  BY <1>1, SubsequenceFacts
<1>5. n \in Nat /\ \A k \in 1..n : a[k] \in P /\ t[k] = s[a[k]]
  BY <1>2, <1>3, SubsequencePlaces
<1>6. \A i \in P : \E k \in 1..n : a[k] = i
  BY <1>2, <1>3, SubsequencePlaces
<1>7. \A k, l \in 1..n : k < l => a[k] < a[l]
  BY <1>2, <1>3, SubsequencePlaces
<1>8. m \in 0..n /\ m \in Nat /\ \A k \in 1..m : k \in 1..n
  BY <1>3, <1>5
<1>9. PICK K : K = {a[k] : k \in 1..m}
  OBVIOUS
<1>10. K \in SUBSET P
  BY <1>5, <1>8, <1>9
<1>11. PICK U : U = {t[k] : k \in 1..m}
  OBVIOUS
<1>12. U = {s[i] : i \in K}
  BY <1>5, <1>8, <1>9, <1>11
<1>13. Enumerates(SubSeq(t, 1, m), U)
  BY <1>4, <1>11, EnumPrefix
<1>14. ASSUME NEW i \in K, NEW j \in P \ K PROVE i < j
  <2>1. PICK k \in 1..m : i = a[k]
    BY <1>9
  <2>2. PICK l \in 1..n : j = a[l]
    BY <1>6
  <2>3. ~(l \in 1..m)
    BY <1>9, <2>2
  <2>4. k \in 1..n /\ k < l
    BY <1>5, <1>8, <2>3
  <2> QED
    BY <1>7, <2>1, <2>2, <2>4
<1> QED
  BY <1>10, <1>12, <1>13, <1>14 DEF ElementsAt

(* R sorts t by weight.                                                    *)
ByWeight(R, t, wt) ==
    \A i, j \in DOMAIN t : <<i, j>> \in R <=>
        wt[t[i]] < wt[t[j]] \/ (~(wt[t[j]] < wt[t[i]]) /\ i < j)

(* Sorting by weight is a stable sort.                                     *)
LEMMA ByWeightStable ==
    ASSUME NEW S, NEW t, Enumerates(t, S), NEW wt, \A x \in S : wt[x] \in Nat, NEW R, ByWeight(R, t, wt)
    PROVE  \E W : WeaklyOrders(W, DOMAIN t) /\ StableBy(R, W, DOMAIN t)
<1>1. \A k \in DOMAIN t : wt[t[k]] \in Nat
  BY EnumFacts
<1>2. PICK W : W = {p \in (DOMAIN t) \X (DOMAIN t) : wt[t[p[1]]] < wt[t[p[2]]]}
  OBVIOUS
<1>3. \A i, j \in DOMAIN t : <<i, j>> \in W <=> wt[t[i]] < wt[t[j]]
  BY <1>2
<1>4. \A i, j \in DOMAIN t : <<i, j>> \in W => <<j, i>> \notin W
  BY <1>1, <1>3
<1>5. \A i, j, k \in DOMAIN t : <<i, k>> \in W => <<i, j>> \in W \/ <<j, k>> \in W
  BY <1>1, <1>3
<1>6. WeaklyOrders(W, DOMAIN t)
  BY <1>4, <1>5 DEF WeaklyOrders
<1>7. StableBy(R, W, DOMAIN t)
  BY <1>3 DEF StableBy, ByWeight
<1> QED
  BY <1>6, <1>7

(* The first m of u are the lightest of the places P.                      *)
Lightest(u, m, s, P, wt) ==
    \E K \in SUBSET P : /\ Enumerates(SubSeq(u, 1, m), ElementsAt(s, K))
                       /\ \A i \in K, j \in P \ K : Before(wt, s, i, j)

(* The first m of the chosen places, sorted by weight, are the lightest of *)
(* them.                                                                   *)
LEMMA LightestPlaces ==
    ASSUME NEW S, NEW s, Enumerates(s, S), NEW P \in SUBSET (DOMAIN s), NEW t, t = Subsequence(s, P),
           NEW wt, \A x \in S : wt[x] \in Nat, NEW R, ByWeight(R, t, wt),
           NEW u, u = At(t, InOrder(DOMAIN t, R)), NEW m \in 0..Len(t)
    PROVE  /\ Enumerates(u, ElementsAt(s, P)) /\ Len(u) = Len(t)
           /\ Lightest(u, m, s, P, wt)
<1>1. PICK T : T = {s[i] : i \in P}
  OBVIOUS
<1>2. PICK a : a = Ascending(P)
  OBVIOUS
<1>3. PICK n : n = Len(t)
  OBVIOUS
<1>4. Enumerates(t, T)
  BY <1>1, SubsequenceFacts
<1>5. n \in Nat /\ \A k \in 1..n : a[k] \in P /\ t[k] = s[a[k]]
  BY <1>2, <1>3, SubsequencePlaces
<1>6. \A i \in P : \E k \in 1..n : a[k] = i
  BY <1>2, <1>3, SubsequencePlaces
<1>7. \A k, l \in 1..n : k < l => a[k] < a[l]
  BY <1>2, <1>3, SubsequencePlaces
<1>8. DOMAIN t = 1..n /\ \A k \in 1..n : t[k] \in T
  BY <1>3, <1>4, EnumFacts
<1>9. T \in SUBSET S
  BY <1>1, EnumFacts
<1>10. \A x \in T : wt[x] \in Nat
  BY <1>9
<1>11. PICK W : WeaklyOrders(W, DOMAIN t) /\ StableBy(R, W, DOMAIN t)
  BY <1>4, <1>10, ByWeightStable
<1>12. PICK is : is = InOrder(DOMAIN t, R)
  OBVIOUS
<1>13. u = At(t, is)
  BY <1>12
<1>14. Enumerates(u, T) /\ Len(u) = n
  BY <1>3, <1>4, <1>11, <1>12, <1>13, EnumSort
<1>15. Enumerates(is, DOMAIN t) /\ Len(is) = n
  BY <1>3, <1>4, <1>11, <1>12, <1>13, EnumSort
<1>16. \A k \in 1..n : u[k] = t[is[k]]
  BY <1>3, <1>4, <1>11, <1>12, <1>13, EnumSort
<1>17. \A k, l \in 1..n : k < l => <<is[k], is[l]>> \in R
  BY <1>3, <1>4, <1>11, <1>12, <1>13, EnumSort
<1>18. \A k \in 1..n : is[k] \in 1..n
  BY <1>8, <1>15, EnumFacts
<1>19. \A i \in 1..n : \E k \in 1..n : is[k] = i
  <2>1. PICK D : D = 1..n
    OBVIOUS
  <2>2. Enumerates(is, D)
    BY <1>8, <1>15, <2>1
  <2>3. \A i \in D : \E k \in 1..n : is[k] = i
    BY <1>15, <2>2, EnumFacts
  <2> QED
    BY <2>1, <2>3
<1>20. m \in 0..n /\ m \in Nat /\ \A k \in 1..m : k \in 1..n
  BY <1>3, <1>5
<1>21. PICK K : K = {a[is[k]] : k \in 1..m}
  OBVIOUS
<1>22. K \in SUBSET P
  BY <1>5, <1>18, <1>20, <1>21
<1>23. \A k \in 1..n : u[k] = s[a[is[k]]]
  BY <1>5, <1>16, <1>18
<1>24. PICK U : U = {u[k] : k \in 1..m}
  OBVIOUS
<1>25. U = {s[i] : i \in K}
  BY <1>20, <1>21, <1>23, <1>24
<1>26. Enumerates(SubSeq(u, 1, m), U)
  BY <1>14, <1>20, <1>24, EnumPrefix
<1>27. ASSUME NEW i \in K, NEW j \in P \ K
       PROVE  Before(wt, s, i, j)
  <2>1. PICK k \in 1..m : i = a[is[k]]
    BY <1>21
  <2>2. PICK x \in 1..n : j = a[x]
    BY <1>6
  <2>3. PICK l \in 1..n : x = is[l]
    BY <1>19
  <2>4. ~(l \in 1..m)
    BY <1>21, <2>2, <2>3
  <2>5. k \in 1..n /\ k < l
    BY <1>5, <1>20, <2>4
  <2>6. PICK y \in 1..n : y = is[k]
    BY <1>18, <2>5
  <2>7. <<y, x>> \in R
    BY <1>17, <2>3, <2>5, <2>6
  <2>8. wt[t[y]] < wt[t[x]] \/ (~(wt[t[x]] < wt[t[y]]) /\ y < x)
    BY <1>8, <2>7 DEF ByWeight
  <2>9. wt[t[y]] = wt[s[i]] /\ wt[t[x]] = wt[s[j]]
    BY <1>5, <2>1, <2>2, <2>6
  <2>10. y < x => i < j
    BY <1>7, <2>1, <2>2, <2>6
  <2>11. wt[t[y]] \in Nat /\ wt[t[x]] \in Nat
    BY <1>8, <1>10
  <2> QED
    BY <2>8, <2>9, <2>10, <2>11 DEF Before
<1>28. Enumerates(u, ElementsAt(s, P)) /\ Len(u) = Len(t)
  BY <1>1, <1>3, <1>14 DEF ElementsAt
<1>29. Lightest(u, m, s, P, wt)
  BY <1>22, <1>25, <1>26, <1>27 DEF Lightest, ElementsAt
<1> QED
  BY <1>28, <1>29

(* A prefix of a concatenation.                                            *)
LEMMA PrefixOfConcat ==
    ASSUME NEW S, NEW s \in Seq(S), NEW t \in Seq(S), NEW n \in 0..(Len(s) + Len(t))
    PROVE  /\ n <= Len(s) => SubSeq(s \o t, 1, n) = SubSeq(s, 1, n)
           /\ n >= Len(s) => SubSeq(s \o t, 1, n) = s \o SubSeq(t, 1, n - Len(s))
<1>1. Len(s) \in Nat /\ Len(t) \in Nat /\ n \in Nat
  OBVIOUS
<1>2. PICK c : c = s \o t
  OBVIOUS
<1>3. c \in Seq(S) /\ Len(c) = Len(s) + Len(t)
  BY <1>2, ConcatProperties
<1>4. \A i \in 1..(Len(s) + Len(t)) : c[i] = IF i <= Len(s) THEN s[i] ELSE t[i - Len(s)]
  BY <1>2, ConcatProperties
<1>5. /\ SubSeq(c, 1, n) \in Seq(S) /\ Len(SubSeq(c, 1, n)) = n
      /\ \A i \in 1..n : SubSeq(c, 1, n)[i] = c[i]
  BY <1>1, <1>3
<1>6. ASSUME n <= Len(s) PROVE SubSeq(c, 1, n) = SubSeq(s, 1, n)
  <2>1. /\ SubSeq(s, 1, n) \in Seq(S) /\ Len(SubSeq(s, 1, n)) = n
        /\ \A i \in 1..n : SubSeq(s, 1, n)[i] = s[i]
    BY <1>1, <1>6
  <2>2. \A i \in 1..n : c[i] = s[i]
    BY <1>1, <1>4, <1>6
  <2> QED
    BY <1>5, <2>1, <2>2, SeqEqual
<1>7. ASSUME n >= Len(s) PROVE SubSeq(c, 1, n) = s \o SubSeq(t, 1, n - Len(s))
  <2>1. PICK k : k = n - Len(s)
    OBVIOUS
  <2>2. k \in 0..Len(t) /\ k \in Nat /\ Len(s) + k = n
    BY <1>1, <1>7, <2>1
  <2>3. PICK u : u = SubSeq(t, 1, k)
    OBVIOUS
  <2>4. u \in Seq(S) /\ Len(u) = k /\ \A i \in 1..k : u[i] = t[i]
    BY <1>1, <2>2, <2>3
  <2>5. PICK d : d = s \o u
    OBVIOUS
  <2>6. d \in Seq(S) /\ Len(d) = n
    BY <2>2, <2>4, <2>5, ConcatProperties
  <2>7. \A i \in 1..(Len(s) + Len(u)) : d[i] = IF i <= Len(s) THEN s[i] ELSE u[i - Len(s)]
    BY <2>4, <2>5, ConcatProperties
  <2>8. ASSUME NEW i \in 1..n PROVE c[i] = d[i]
    <3>1. i \in 1..(Len(s) + Len(t)) /\ i \in 1..(Len(s) + Len(u))
      BY <1>1, <2>2, <2>4
    <3>2. CASE i <= Len(s)
      BY <1>4, <2>7, <3>1, <3>2
    <3>3. CASE ~(i <= Len(s))
      <4>1. i - Len(s) \in 1..k
        BY <1>1, <2>2, <3>3
      <4> QED
        BY <1>4, <2>4, <2>7, <3>1, <3>3, <4>1
    <3> QED
      BY <3>2, <3>3
  <2>9. SubSeq(c, 1, n) = d
    BY <1>5, <2>6, <2>8, SeqEqual
  <2> QED
    BY <2>1, <2>3, <2>5, <2>9
<1> QED
  BY <1>2, <1>6, <1>7

(* A reordering of an enumeration is one.                                  *)
LEMMA EnumReordering ==
    ASSUME NEW S, NEW s, Enumerates(s, S), NEW t \in Reorderings(s)
    PROVE  Enumerates(t, S)
<1>1. PICK n : n = Len(s)
  OBVIOUS
<1>2. n \in Nat /\ DOMAIN s = 1..n /\ \A i \in 1..n : s[i] \in S
  BY <1>1, EnumFacts
<1>3. PICK p \in [1..n -> 1..n] : IsInjective(p) /\ t = [i \in 1..n |-> s[p[i]]]
  BY <1>2 DEF Reorderings
<1>4. IsFiniteSet(1..n) /\ Cardinality(1..n) = n
  BY <1>2, UpTo
<1>5. p \in Injection(1..n, 1..n)
  BY <1>3 DEF Injection
<1>6. p \in Surjection(1..n, 1..n)
  BY <1>4, <1>5, FS_Injection
<1>7. \A i \in 1..n : \E k \in 1..n : p[k] = i
  BY <1>6 DEF Surjection
<1>8. t \in [1..n -> S] /\ \A i \in 1..n : t[i] = s[p[i]]
  BY <1>2, <1>3
<1>9. \A x \in S : \E i \in 1..n : t[i] = x
  <2> SUFFICES ASSUME NEW x \in S PROVE \E i \in 1..n : t[i] = x
    OBVIOUS
  <2>1. PICK j \in 1..n : s[j] = x
    BY <1>1, EnumFacts
  <2>2. PICK k \in 1..n : p[k] = j
    BY <1>7
  <2> QED
    BY <1>8, <2>1, <2>2
<1>10. \A i, j \in 1..n : t[i] = t[j] => i = j
  <2> SUFFICES ASSUME NEW i \in 1..n, NEW j \in 1..n, t[i] = t[j] PROVE i = j
    OBVIOUS
  <2>1. p[i] = p[j]
    BY <1>2, <1>3, <1>8 DEF Enumerates, IsInjective
  <2> QED
    BY <1>3, <2>1 DEF IsInjective
<1> QED
  BY <1>2, <1>8, <1>9, <1>10, EnumIntro

(* Induction up to a bound.                                                *)
LEMMA UpFromZero ==
    ASSUME NEW n \in Nat, NEW S, 0 \in S, \A i \in 1..n : i - 1 \in S => i \in S
    PROVE  \A i \in 0..n : i \in S
<1> DEFINE B == {i \in 0..n : i \notin S}
<1> SUFFICES ASSUME B # {} PROVE FALSE
  OBVIOUS
<1>1. PICK i \in B : \A k \in B : i <= k
  <2>1. B \in SUBSET Nat
    OBVIOUS
  <2> QED
    BY <2>1, LeastNat
<1>2. i \in 1..n /\ i - 1 \in 0..n /\ ~(i <= i - 1)
  OBVIOUS
<1> QED
  BY <1>1, <1>2

-----------------------------------------------------------------------------
(* Sums over finite sets.                                                  *)

(* Induction over the subsets of a finite set, from the smaller ones.      *)
LEMMA FromSmaller ==
    ASSUME NEW S, IsFiniteSet(S), NEW G,
           \A T \in SUBSET S : (\A U \in SUBSET T : U # T => U \in G) => T \in G
    PROVE  \A T \in SUBSET S : T \in G
<1>1. PICK B : B = {k \in Nat : \E T \in SUBSET S : T \notin G /\ k = Cardinality(T)}
  BY Zenon
<1>2. ASSUME NEW T \in SUBSET S PROVE IsFiniteSet(T) /\ Cardinality(T) \in Nat
  BY FS_Subset, FS_CardinalityType
<1> SUFFICES ASSUME NEW X \in SUBSET S, X \notin G PROVE FALSE
  OBVIOUS
<1>3. Cardinality(X) \in B
  BY <1>1, <1>2
<1>4. PICK k \in B : \A l \in B : k <= l
  <2>1. B \in SUBSET Nat /\ B # {}
    BY <1>1, <1>3
  <2> QED
    BY <2>1, LeastNat
<1>5. PICK T \in SUBSET S : T \notin G /\ k = Cardinality(T)
  BY <1>1, <1>4
<1>6. PICK U \in SUBSET T : U # T /\ U \notin G
  BY <1>5
<1>7. U \in SUBSET S
  BY <1>6
<1>8. Cardinality(U) \in B
  BY <1>1, <1>2, <1>6, <1>7
<1>9. PICK m : m = Cardinality(U)
  BY Zenon
<1>10. m \in Nat /\ k \in Nat /\ m < k
  <2>1. Cardinality(U) <= Cardinality(T) /\ Cardinality(U) # Cardinality(T)
    BY <1>2, <1>5, <1>6, FS_Subset
  <2> QED
    BY <1>2, <1>5, <1>7, <1>9, <2>1
<1> QED
  BY <1>4, <1>8, <1>9, <1>10

(* The recursion behind a sum over a set: an element is taken out at a     *)
(* time.                                                                   *)
Some(s) == CHOOSE x \in s : TRUE

SumTurn(f, g, s) == IF s = {} THEN 0 ELSE f[Some(s)] + g[s \ {Some(s)}]

IsSums(f, S, g) == g = [s \in SUBSET S |-> SumTurn(f, g, s)]

(* It defines a function.                                                  *)
LEMMA SumsDefined ==
    ASSUME NEW S, IsFiniteSet(S), NEW f
    PROVE  \E g : IsSums(f, S, g)
<1> DEFINE Small(k) == {s \in SUBSET S : Cardinality(s) <= k}
           Good == {k \in Nat : \E g : g = [s \in Small(k) |-> SumTurn(f, g, s)]}
<1>1. PICK n : n = Cardinality(S)
  BY Zenon
<1>2. n \in Nat /\ \A s \in SUBSET S : IsFiniteSet(s) /\ Cardinality(s) \in Nat /\ Cardinality(s) <= n
  BY <1>1, FS_Subset, FS_CardinalityType
<1>3. 0 \in Good
  <2>1. PICK g : g = [s \in Small(0) |-> 0]
    BY Zenon
  <2>2. ASSUME NEW s \in Small(0) PROVE s = {}
    <3>1. IsFiniteSet(s) /\ Cardinality(s) = 0
      BY <1>2
    <3> QED
      BY <3>1, FS_EmptySet
  <2>3. \A s \in Small(0) : g[s] = SumTurn(f, g, s)
    BY <2>1, <2>2 DEF SumTurn
  <2>4. g = [s \in Small(0) |-> g[s]]
    BY <2>1
  <2>5. g = [s \in Small(0) |-> SumTurn(f, g, s)]
    BY <2>3, <2>4
  <2> QED
    BY <2>5
<1>4. ASSUME NEW k \in 1..n, k - 1 \in Good PROVE k \in Good
  <2>1. PICK g : g = [s \in Small(k - 1) |-> SumTurn(f, g, s)]
    BY <1>4
  <2>2. PICK h : h = [s \in Small(k) |-> IF s \in Small(k - 1) THEN g[s] ELSE SumTurn(f, g, s)]
    BY Zenon
  <2>3. ASSUME NEW s \in Small(k) PROVE h[s] = SumTurn(f, h, s)
    <3>1. h[s] = SumTurn(f, g, s)
      BY <2>1, <2>2
    <3>2. CASE s = {}
      BY <3>1, <3>2 DEF SumTurn
    <3>3. CASE s # {}
      <4>1. PICK x, t : x = Some(s) /\ t = s \ {Some(s)}
        BY Zenon
      <4>2. x \in s
        BY <3>3, <4>1 DEF Some
      <4>3. t \in SUBSET S /\ IsFiniteSet(s) /\ Cardinality(t) = Cardinality(s) - 1
        <5>1. s \in SUBSET S /\ t = s \ {x}
          BY <4>1
        <5>2. IsFiniteSet(s)
          BY <1>2, <5>1
        <5> QED
          BY <4>2, <5>1, <5>2, FS_RemoveElement
      <4>4. t \in Small(k - 1) /\ t \in Small(k)
        <5>1. PICK c, d : c = Cardinality(s) /\ d = Cardinality(t)
          BY Zenon
        <5>2. c \in Nat /\ d = c - 1 /\ c <= k
          BY <1>2, <4>3, <5>1
        <5>3. d <= k - 1 /\ d <= k
          BY <5>2
        <5> QED
          BY <4>3, <5>1, <5>3
      <4>5. h[t] = g[t]
        BY <2>2, <4>4
      <4>6. SumTurn(f, g, s) = f[x] + g[t] /\ SumTurn(f, h, s) = f[x] + h[t]
        BY <3>3, <4>1 DEF SumTurn
      <4> QED
        BY <3>1, <4>5, <4>6
    <3> QED
      BY <3>2, <3>3
  <2>4. h = [s \in Small(k) |-> h[s]]
    BY <2>2
  <2>5. h = [s \in Small(k) |-> SumTurn(f, h, s)]
    BY <2>3, <2>4
  <2>6. k \in Nat
    OBVIOUS
  <2> QED
    BY <2>5, <2>6
<1>5. n \in Good
  <2> HIDE DEF Good
  <2>1. \A k \in 0..n : k \in Good
    BY <1>2, <1>3, <1>4, UpFromZero
  <2> QED
    BY <1>2, <2>1
<1>6. Small(n) = SUBSET S
  BY <1>2
<1> QED
  BY <1>5, <1>6 DEF IsSums

(* Two such recursions agree where their summands do.                      *)
LEMMA SumsAgree ==
    ASSUME NEW S, IsFiniteSet(S), NEW f, NEW g, IsSums(f, S, g),
           NEW R, NEW e, NEW h, IsSums(e, R, h), S \subseteq R, \A x \in S : f[x] = e[x]
    PROVE  g[S] = h[S]
<1> DEFINE G == {T \in SUBSET S : g[T] = h[T]}
<1>1. ASSUME NEW T \in SUBSET S, \A U \in SUBSET T : U # T => U \in G PROVE T \in G
  <2>1. g[T] = SumTurn(f, g, T) /\ h[T] = SumTurn(e, h, T)
    BY DEF IsSums
  <2>2. CASE T = {}
    BY <2>1, <2>2 DEF SumTurn
  <2>3. CASE T # {}
    <3>1. PICK x, U : x = Some(T) /\ U = T \ {Some(T)}
      BY Zenon
    <3>2. x \in T
      BY <2>3, <3>1 DEF Some
    <3>3. U \in SUBSET T /\ U # T
      BY <3>1, <3>2
    <3>4. g[U] = h[U] /\ f[x] = e[x]
      BY <1>1, <3>2, <3>3
    <3>5. SumTurn(f, g, T) = f[x] + g[U] /\ SumTurn(e, h, T) = e[x] + h[U]
      BY <2>3, <3>1 DEF SumTurn
    <3> QED
      BY <2>1, <3>4, <3>5
  <2> QED
    BY <2>2, <2>3
<1> HIDE DEF G
<1>2. \A T \in SUBSET S : T \in G
  BY <1>1, FromSmaller
<1>3. S \in SUBSET S
  OBVIOUS
<1> QED
  BY <1>2, <1>3 DEF G

(* A sum depends on its summands only.                                     *)
LEMMA SumSame ==
    ASSUME NEW S, IsFiniteSet(S), NEW f, NEW e, \A x \in S : f[x] = e[x]
    PROVE  SumFunctionOnSet(f, S) = SumFunctionOnSet(e, S)
<1>1. PICK g, h : g = (CHOOSE u : IsSums(f, S, u)) /\ h = (CHOOSE u : IsSums(e, S, u))
  BY Zenon
<1>2. IsSums(f, S, g) /\ IsSums(e, S, h)
  BY <1>1, SumsDefined, Zenon
<1>3. g[S] = h[S]
  BY <1>2, SumsAgree
<1>4. SumFunctionOnSet(f, S) = g[S] /\ SumFunctionOnSet(e, S) = h[S]
  BY <1>1, Zenon DEF SumFunctionOnSet, FoldFunctionOnSet, MapThenFoldSet, IsSums, SumTurn, Some
<1> QED
  BY <1>3, <1>4

(* A sum, an element taken out.                                            *)
LEMMA SumSome ==
    ASSUME NEW S, IsFiniteSet(S), NEW f
    PROVE  SumFunctionOnSet(f, S) =
             IF S = {} THEN 0 ELSE f[Some(S)] + SumFunctionOnSet(f, S \ {Some(S)})
<1>1. PICK R : R = S \ {Some(S)}
  BY Zenon
<1>2. R \subseteq S /\ IsFiniteSet(R)
  BY <1>1, FS_Subset
<1>3. PICK g, h : g = (CHOOSE u : IsSums(f, S, u)) /\ h = (CHOOSE u : IsSums(f, R, u))
  BY Zenon
<1>4. IsSums(f, S, g) /\ IsSums(f, R, h)
  BY <1>2, <1>3, SumsDefined, Zenon
<1>5. h[R] = g[R]
  BY <1>2, <1>4, SumsAgree
<1>6. SumFunctionOnSet(f, S) = g[S] /\ SumFunctionOnSet(f, R) = h[R]
  BY <1>3, Zenon DEF SumFunctionOnSet, FoldFunctionOnSet, MapThenFoldSet, IsSums, SumTurn, Some
<1>7. g[S] = SumTurn(f, g, S)
  BY <1>4 DEF IsSums
<1> QED
  BY <1>1, <1>5, <1>6, <1>7 DEF SumTurn

(* A sum of natural numbers is one, and any element can be taken out.      *)
LEMMA SumOut ==
    ASSUME NEW S, IsFiniteSet(S), NEW f, \A x \in S : f[x] \in Nat
    PROVE  /\ SumFunctionOnSet(f, S) \in Nat /\ SumFunctionOnSet(f, {}) = 0
           /\ \A x \in S : SumFunctionOnSet(f, S) = f[x] + SumFunctionOnSet(f, S \ {x})
<1> DEFINE Sum(T) == SumFunctionOnSet(f, T)
           G == {T \in SUBSET S : Sum(T) \in Nat /\ \A x \in T : Sum(T) = f[x] + Sum(T \ {x})}
<1>1. ASSUME NEW T \in SUBSET S
      PROVE  Sum(T) = IF T = {} THEN 0 ELSE f[Some(T)] + Sum(T \ {Some(T)})
  <2>1. IsFiniteSet(T)
    BY FS_Subset
  <2> QED
    BY <2>1, SumSome
<1> HIDE DEF Sum
<1>2. ASSUME NEW T \in SUBSET S, \A U \in SUBSET T : U # T => U \in G PROVE T \in G
  <2>1. CASE T = {}
    <3>1. Sum(T) = 0
      BY <1>1, <2>1
    <3> QED
      BY <2>1, <3>1
  <2>2. CASE T # {}
    <3>1. PICK c : c = Some(T)
      BY Zenon
    <3>2. c \in T
      BY <2>2, <3>1 DEF Some
    <3>3. PICK t, u : t = Sum(T) /\ u = Sum(T \ {c})
      BY Zenon
    <3>4. t = f[c] + u
      BY <1>1, <2>2, <3>1, <3>3
    <3>5. T \ {c} \in G
      BY <1>2, <3>2
    <3>6. u \in Nat /\ f[c] \in Nat
      BY <3>2, <3>3, <3>5
    <3>7. ASSUME NEW x \in T, x # c PROVE t = f[x] + Sum(T \ {x})
      <4>1. PICK A, w, y : A = (T \ {c}) \ {x} /\ w = Sum(A) /\ y = Sum(T \ {x})
        BY Zenon
      <4>2. u = f[x] + w
        BY <3>3, <3>5, <3>7, <4>1
      <4>3. T \ {x} \in G /\ c \in T \ {x} /\ (T \ {x}) \ {c} = A /\ A \in G
        BY <1>2, <3>2, <3>7, <4>1
      <4>4. y = f[c] + w
        BY <4>1, <4>3
      <4>5. w \in Nat /\ f[x] \in Nat
        BY <4>1, <4>3
      <4> QED
        BY <3>4, <3>6, <4>1, <4>2, <4>4, <4>5
    <3>8. \A x \in T : t = f[x] + Sum(T \ {x})
      BY <3>3, <3>4, <3>7
    <3>9. t \in Nat
      BY <3>4, <3>6
    <3> QED
      BY <3>3, <3>8, <3>9
  <2> QED
    BY <2>1, <2>2
<1> HIDE DEF G
<1>3. \A T \in SUBSET S : T \in G
  BY <1>2, FromSmaller
<1>4. S \in SUBSET S /\ {} \in SUBSET S
  OBVIOUS
<1>5. Sum({}) = 0
  BY <1>1, <1>4
<1>6. Sum(S) \in Nat /\ \A x \in S : Sum(S) = f[x] + Sum(S \ {x})
  BY <1>3, <1>4 DEF G
<1> QED
  BY <1>5, <1>6 DEF Sum

(* Summands that are zero do not count.                                    *)
LEMMA SumZeros ==
    ASSUME NEW S, IsFiniteSet(S), NEW f, \A x \in S : f[x] \in Nat, NEW U \in SUBSET S,
           \A x \in S \ U : f[x] = 0
    PROVE  SumFunctionOnSet(f, S) = SumFunctionOnSet(f, U)
<1> DEFINE Sum(T) == SumFunctionOnSet(f, T)
           G == {T \in SUBSET S : Sum(T) = Sum(T \cap U)}
<1>1. ASSUME NEW T \in SUBSET S
      PROVE  Sum(T) \in Nat /\ Sum({}) = 0 /\ \A x \in T : Sum(T) = f[x] + Sum(T \ {x})
  <2>1. IsFiniteSet(T) /\ \A x \in T : f[x] \in Nat
    BY FS_Subset
  <2> QED
    BY <2>1, SumOut
<1> HIDE DEF Sum
<1>2. ASSUME NEW T \in SUBSET S, \A V \in SUBSET T : V # T => V \in G PROVE T \in G
  <2>1. CASE T = {}
    <3>1. T \cap U = T
      BY <2>1
    <3> QED
      BY <3>1
  <2>2. CASE T # {}
    <3>1. PICK x \in T : TRUE
      BY <2>2
    <3>2. T \ {x} \in G
      BY <1>2
    <3>3. PICK a, b, c, d : /\ a = Sum(T) /\ b = Sum(T \ {x})
                            /\ c = Sum(T \cap U) /\ d = Sum((T \ {x}) \cap U)
      BY Zenon
    <3>4. b = d
      BY <3>2, <3>3
    <3>5. a = f[x] + b /\ b \in Nat
      <4>1. T \ {x} \in SUBSET S
        OBVIOUS
      <4> QED
        BY <1>1, <3>3, <4>1
    <3>6. c = f[x] + d
      <4>1. CASE x \in U
        <5>1. PICK W : W = T \cap U
          BY Zenon
        <5>2. x \in W /\ W \ {x} = (T \ {x}) \cap U /\ W \in SUBSET S
          BY <4>1, <5>1
        <5>3. Sum(W) = f[x] + Sum(W \ {x})
          BY <1>1, <5>2
        <5> QED
          BY <3>3, <5>1, <5>2, <5>3, Zenon
      <4>2. CASE x \notin U
        <5>1. (T \ {x}) \cap U = T \cap U /\ f[x] = 0
          BY <4>2
        <5>2. c = d /\ d \in Nat
          BY <3>3, <3>4, <3>5, <5>1
        <5> QED
          BY <5>1, <5>2
      <4> QED
        BY <4>1, <4>2
    <3>7. a = c
      BY <3>4, <3>5, <3>6
    <3> QED
      BY <3>3, <3>7
  <2> QED
    BY <2>1, <2>2
<1> HIDE DEF G
<1>3. \A T \in SUBSET S : T \in G
  BY <1>2, FromSmaller
<1>4. S \in SUBSET S /\ S \cap U = U
  OBVIOUS
<1>5. Sum(S) = Sum(U)
  BY <1>3, <1>4 DEF G
<1> QED
  BY <1>5 DEF Sum

(* A sum whose summands are all greater by k.                              *)
LEMMA SumShift ==
    ASSUME NEW S, IsFiniteSet(S), NEW k \in Nat, NEW f, NEW e,
           \A x \in S : e[x] \in Nat /\ f[x] = e[x] + k
    PROVE  SumFunctionOnSet(f, S) = SumFunctionOnSet(e, S) + Cardinality(S) * k
<1> DEFINE Sum(g, T) == SumFunctionOnSet(g, T)
           G == {T \in SUBSET S : Sum(f, T) = Sum(e, T) + Cardinality(T) * k}
<1>1. ASSUME NEW T \in SUBSET S
      PROVE  /\ Sum(f, T) \in Nat /\ Sum(f, {}) = 0 /\ \A x \in T : Sum(f, T) = f[x] + Sum(f, T \ {x})
             /\ Sum(e, T) \in Nat /\ Sum(e, {}) = 0 /\ \A x \in T : Sum(e, T) = e[x] + Sum(e, T \ {x})
  <2>1. IsFiniteSet(T) /\ \A x \in T : e[x] \in Nat /\ f[x] \in Nat
    BY FS_Subset
  <2> QED
    BY <2>1, SumOut
<1> HIDE DEF Sum
<1>2. ASSUME NEW T \in SUBSET S, \A V \in SUBSET T : V # T => V \in G PROVE T \in G
  <2>1. CASE T = {}
    <3>1. Sum(f, T) = 0 /\ Sum(e, T) = 0 /\ Cardinality(T) = 0
      BY <1>1, <2>1, FS_EmptySet
    <3>2. 0 = 0 + 0 * k
      OBVIOUS
    <3> QED
      BY <3>1, <3>2
  <2>2. CASE T # {}
    <3>1. PICK x \in T : TRUE
      BY <2>2
    <3>2. T \ {x} \in G
      BY <1>2
    <3>3. PICK a, b, c, d, m, n : /\ a = Sum(f, T) /\ b = Sum(f, T \ {x})
                                  /\ c = Sum(e, T) /\ d = Sum(e, T \ {x})
                                  /\ m = Cardinality(T) /\ n = Cardinality(T \ {x})
      BY Zenon
    <3>4. b = d + n * k
      BY <3>2, <3>3
    <3>5. a = f[x] + b /\ c = e[x] + d /\ d \in Nat
      <4>1. T \ {x} \in SUBSET S
        OBVIOUS
      <4> QED
        BY <1>1, <3>3, <4>1
    <3>6. n \in Nat /\ m = n + 1
      <4>1. IsFiniteSet(T)
        BY FS_Subset
      <4>2. IsFiniteSet(T \ {x}) /\ n = m - 1
        BY <3>1, <3>3, <4>1, FS_RemoveElement
      <4>3. n \in Nat /\ m \in Nat
        BY <3>3, <4>1, <4>2, FS_CardinalityType
      <4> QED
        BY <4>2, <4>3
    <3>7. e[x] \in Nat /\ f[x] = e[x] + k
      OBVIOUS
    <3>8. m * k = n * k + k
      BY <3>6
    <3>9. n * k \in Nat
      BY <3>6
    <3>10. a = c + m * k
      BY <3>4, <3>5, <3>7, <3>8, <3>9
    <3> QED
      BY <3>3, <3>10
  <2> QED
    BY <2>1, <2>2
<1> HIDE DEF G
<1>3. \A T \in SUBSET S : T \in G
  BY <1>2, FromSmaller
<1>4. S \in SUBSET S
  OBVIOUS
<1>5. Sum(f, S) = Sum(e, S) + Cardinality(S) * k
  BY <1>3, <1>4 DEF G
<1> QED
  BY <1>5 DEF Sum

(* The sizes of sets that lie apart add up.                                *)
LEMMA SumSizes ==
    ASSUME NEW K, IsFiniteSet(K), NEW A, \A k \in K : IsFiniteSet(A[k]),
           \A j, k \in K : j # k => A[j] \cap A[k] = {},
           NEW f, \A k \in K : f[k] = Cardinality(A[k])
    PROVE  /\ IsFiniteSet(UNION {A[k] : k \in K})
           /\ Cardinality(UNION {A[k] : k \in K}) = SumFunctionOnSet(f, K)
<1> DEFINE Sum(T) == SumFunctionOnSet(f, T)
           All(T) == UNION {A[k] : k \in T}
           G == {T \in SUBSET K : IsFiniteSet(All(T)) /\ Cardinality(All(T)) = Sum(T)}
<1>1. \A k \in K : f[k] \in Nat
  BY FS_CardinalityType
<1>2. ASSUME NEW T \in SUBSET K
      PROVE  Sum(T) \in Nat /\ Sum({}) = 0 /\ \A x \in T : Sum(T) = f[x] + Sum(T \ {x})
  <2>1. IsFiniteSet(T) /\ \A x \in T : f[x] \in Nat
    BY <1>1, FS_Subset
  <2> QED
    BY <2>1, SumOut
<1> HIDE DEF Sum
<1>3. ASSUME NEW T \in SUBSET K, \A V \in SUBSET T : V # T => V \in G PROVE T \in G
  <2>1. CASE T = {}
    <3>1. All(T) = {}
      BY <2>1
    <3>2. Sum(T) = 0
      BY <1>2, <2>1
    <3> QED
      BY <3>1, <3>2, FS_EmptySet
  <2>2. CASE T # {}
    <3>1. PICK x \in T : TRUE
      BY <2>2
    <3>2. T \ {x} \in G
      BY <1>3
    <3>3. PICK B, C : B = All(T) /\ C = All(T \ {x})
      BY Zenon
    <3>4. IsFiniteSet(C) /\ Cardinality(C) = Sum(T \ {x})
      BY <3>2, <3>3
    <3>5. B = C \cup A[x] /\ C \cap A[x] = {}
      BY <3>1, <3>3
    <3>6. IsFiniteSet(A[x]) /\ f[x] = Cardinality(A[x])
      BY <3>1
    <3>7. IsFiniteSet(B) /\ Cardinality(B) = Cardinality(C) + Cardinality(A[x])
      <4>1. IsFiniteSet(B)
        BY <3>4, <3>5, <3>6, FS_Union
      <4>2. Cardinality(C \cup A[x]) = Cardinality(C) + Cardinality(A[x]) - Cardinality(C \cap A[x])
        BY <3>4, <3>6, FS_Union
      <4>3. Cardinality(C \cap A[x]) = 0
        BY <3>5, FS_EmptySet
      <4>4. Cardinality(C) \in Nat /\ Cardinality(A[x]) \in Nat
        BY <3>4, <3>6, FS_CardinalityType
      <4> QED
        BY <3>5, <4>1, <4>2, <4>3, <4>4
    <3>8. PICK a, b, c : a = Sum(T) /\ b = Sum(T \ {x}) /\ c = Cardinality(B)
      BY Zenon
    <3>9. a = f[x] + b /\ b \in Nat /\ f[x] \in Nat /\ c = b + f[x]
      <4>1. T \ {x} \in SUBSET K
        OBVIOUS
      <4> QED
        BY <1>1, <1>2, <3>1, <3>4, <3>6, <3>7, <3>8, <4>1
    <3>10. c = a
      BY <3>9
    <3> QED
      BY <3>3, <3>7, <3>8, <3>10
  <2> QED
    BY <2>1, <2>2
<1> HIDE DEF G
<1>4. \A T \in SUBSET K : T \in G
  BY <1>3, FromSmaller
<1>5. K \in SUBSET K
  OBVIOUS
<1>6. IsFiniteSet(All(K)) /\ Cardinality(All(K)) = Sum(K)
  BY <1>4, <1>5 DEF G
<1> QED
  BY <1>6 DEF Sum
=============================================================================
