-------------------------- MODULE WaitingQueueProofs --------------------------
(***************************************************************************)
(* The orders of the waiting queue (WaitingQueue, ClusterLpm), for queues  *)
(* of any length, any prompts, hits, shares and thresholds: what           *)
(* cluster-LPM promises about pioneers, lanes and groups, and that peek's  *)
(* LPM is the stock one.                                                   *)
(*                                                                         *)
(* The invariant that induction needs is small (nobody waits twice,        *)
(* everybody who waits has a stamp): all the rest is about one sort of one *)
(* queue.  Sorting by tuples is InOrder of a total order (OrderingProofs); *)
(* the stride scheduler is a recursion over the picks, and what it keeps   *)
(* is shown by looking at the first pick that would break it.              *)
(***************************************************************************)
EXTENDS WaitingQueue, OrderingProofs

-----------------------------------------------------------------------------
(* Sorting by tuples of m numbers.                                         *)
Tuples(m) == {s \in Seq(Int) : Len(s) = m}

Differs(s, t, k) == s[k] < t[k] /\ \A j \in 1..(k - 1) : s[j] = t[j]

(* The order on tuples of m numbers, by the place where they first differ. *)
LEMMA LexDef ==
    ASSUME NEW m \in Nat, NEW s \in Tuples(m), NEW t \in Tuples(m)
    PROVE  /\ LexLess(s, t) <=> \E k \in 1..m : Differs(s, t, k)
           /\ \A k \in 1..m : s[k] \in Int /\ t[k] \in Int
<1>1. s \in Seq(Int) /\ t \in Seq(Int) /\ Len(s) = m /\ Len(t) = m /\ DOMAIN s = 1..m /\ DOMAIN t = 1..m
  BY DEF Tuples
<1>2. \A k \in 1..m : s[k] \in Int /\ t[k] \in Int
  BY <1>1
<1> QED
  BY <1>1, <1>2, Zenon DEF Differs, LexLess

(* Two tuples are equal or one is less; none is less both ways.            *)
LEMMA LexTotal ==
    ASSUME NEW m \in Nat, NEW s \in Tuples(m), NEW t \in Tuples(m)
    PROVE  /\ s = t \/ LexLess(s, t) \/ LexLess(t, s)
           /\ ~(LexLess(s, t) /\ LexLess(t, s))
           /\ s = t => ~LexLess(s, t)
<1> DEFINE B == {k \in 1..m : s[k] # t[k]}
<1>1. s \in Seq(Int) /\ t \in Seq(Int) /\ Len(s) = m /\ Len(t) = m
  BY DEF Tuples
<1>2. \A k \in 1..m : s[k] \in Int /\ t[k] \in Int
  BY LexDef
<1>3. s = t \/ LexLess(s, t) \/ LexLess(t, s)
  <2>1. CASE B = {}
    <3>1. \A k \in 1..m : s[k] = t[k]
      BY <2>1
    <3> QED
      BY <3>1, <1>1, SeqEqual
  <2>2. CASE B # {}
    <3>1. B \in SUBSET Nat
      OBVIOUS
    <3>2. PICK k \in B : \A j \in B : k <= j
      BY <3>1, <2>2, LeastNat
    <3>3. k \in 1..m /\ s[k] # t[k] /\ \A j \in 1..(k - 1) : s[j] = t[j]
      BY <3>2
    <3>4. Differs(s, t, k) \/ Differs(t, s, k)
      BY <3>3, <1>2 DEF Differs
    <3> QED
      BY <3>3, <3>4, LexDef
  <2> QED
    BY <2>1, <2>2
<1>4. ASSUME NEW k \in 1..m, NEW l \in 1..m, Differs(s, t, k), Differs(t, s, l) PROVE FALSE
  BY <1>4, <1>2 DEF Differs
<1>5. ASSUME NEW k \in 1..m, Differs(s, s, k) PROVE FALSE
  BY <1>5, <1>2 DEF Differs
<1> QED
  BY <1>3, <1>4, <1>5, LexDef, Zenon

(* The order is a weak order: what lies above s lies above t, or t lies    *)
(* above s.                                                                *)
LEMMA LexWeak ==
    ASSUME NEW m \in Nat, NEW s \in Tuples(m), NEW t \in Tuples(m), NEW u \in Tuples(m), LexLess(s, u)
    PROVE  LexLess(s, t) \/ LexLess(t, u)
<1>1. \A k \in 1..m : s[k] \in Int /\ t[k] \in Int /\ u[k] \in Int
  BY LexDef
<1>2. PICK i \in 1..m : Differs(s, u, i)
  BY LexDef
<1>3. CASE s = t
  BY <1>3
<1>4. CASE LexLess(t, s)
  <2>1. PICK d \in 1..m : Differs(t, s, d)
    BY <1>4, LexDef
  <2>2. CASE d <= i
    <3>1. Differs(t, u, d)
      BY <2>1, <2>2, <1>1, <1>2 DEF Differs
    <3> QED
      BY <3>1, LexDef
  <2>3. CASE i < d
    <3>1. Differs(t, u, i)
      BY <2>1, <2>3, <1>1, <1>2 DEF Differs
    <3> QED
      BY <3>1, LexDef
  <2> QED
    BY <2>2, <2>3
<1> QED
  BY <1>3, <1>4, LexTotal

-----------------------------------------------------------------------------
(* key gives every place of q a tuple of m numbers.                        *)
Keys(key, q, m) == key \in [1..Len(q) -> Tuples(m)]

(* t is q in the order `is` of its places, sorted stably by key.           *)
IsSort(t, is, q, key) ==
    /\ Enumerates(is, DOMAIN q) /\ Len(is) = Len(q)
    /\ \A k \in 1..Len(q) : t[k] = q[is[k]]
    /\ \A k, l \in 1..Len(q) : k < l =>
          LexLess(key[is[k]], key[is[l]]) \/ (key[is[k]] = key[is[l]] /\ is[k] < is[l])

(* SortedBy is Python's list.sort by a tuple key: it permutes the queue,   *)
(* and where the keys tie it keeps the queue's order.                      *)
LEMMA SortFacts ==
    ASSUME NEW S, NEW q, Enumerates(q, S), NEW m \in Nat, NEW key, Keys(key, q, m)
    PROVE  /\ Enumerates(SortedBy(q, key), S) /\ Len(SortedBy(q, key)) = Len(q)
           /\ \E is : IsSort(SortedBy(q, key), is, q, key)
<1> DEFINE D == DOMAIN q
           W == {p \in D \X D : LexLess(key[p[1]], key[p[2]])}
           R == {p \in D \X D : LexLess(key[p[1]], key[p[2]]) \/ (key[p[1]] = key[p[2]] /\ p[1] < p[2])}
<1>1. q \in Seq(S) /\ Len(q) \in Nat /\ D = 1..Len(q)
  BY EnumFacts
<1>2. \A i \in D : key[i] \in Tuples(m)
  BY <1>1 DEF Keys
<1>3. Evaluated(key) = key
  <2>1. key \in [1..Len(q) -> Tuples(m)]
    BY DEF Keys
  <2> QED
    BY <1>1, <2>1, SeqIntro DEF Evaluated
<1>4. WeaklyOrders(W, D)
  <2>1. ASSUME NEW i \in D, NEW j \in D, <<i, j>> \in W PROVE <<j, i>> \notin W
    BY <2>1, <1>2, LexTotal
  <2>2. ASSUME NEW i \in D, NEW j \in D, NEW k \in D, <<i, k>> \in W PROVE <<i, j>> \in W \/ <<j, k>> \in W
    <3>1. LexLess(key[i], key[j]) \/ LexLess(key[j], key[k])
      BY <2>2, <1>2, LexWeak
    <3> QED
      BY <3>1
  <2> QED
    BY <2>1, <2>2, Zenon DEF WeaklyOrders
<1>5. StableBy(R, W, D)
  <2>1. ASSUME NEW i \in D, NEW j \in D
        PROVE  <<i, j>> \in R <=> <<i, j>> \in W \/ (<<j, i>> \notin W /\ i < j)
    <3>1. /\ key[i] = key[j] \/ LexLess(key[i], key[j]) \/ LexLess(key[j], key[i])
          /\ ~(LexLess(key[i], key[j]) /\ LexLess(key[j], key[i]))
          /\ key[i] = key[j] => ~LexLess(key[j], key[i])
      BY <1>2, LexTotal
    <3> QED
      BY <3>1
  <2> QED
    BY <2>1, Zenon DEF StableBy
<1>6. PICK is : is = InOrder(D, R)
  OBVIOUS
<1>7. PICK t : t = At(q, is)
  OBVIOUS
<1>8. SortedBy(q, key) = Evaluated(t)
  BY <1>3, <1>6, <1>7, Zenon DEF SortedBy
<1>9. /\ Enumerates(t, S) /\ Len(t) = Len(q)
      /\ Enumerates(is, D) /\ Len(is) = Len(q)
      /\ \A k \in 1..Len(q) : t[k] = q[is[k]]
      /\ \A k, l \in 1..Len(q) : k < l => <<is[k], is[l]>> \in R
  <2> HIDE DEF W, R
  <2> QED
    BY <1>4, <1>5, <1>6, <1>7, EnumSort
<1>10. t \in Seq(S)
  BY <1>9, EnumFacts
<1>11. Evaluated(t) = t
  BY <1>10 DEF Evaluated
<1>12. IsSort(t, is, q, key)
  BY <1>9, Zenon DEF IsSort
<1> QED
  BY <1>8, <1>9, <1>11, <1>12, Zenon

-----------------------------------------------------------------------------
(* What the model answers about the queued requests.                       *)
Agree(r, s, k) ==
    /\ k <= Len(Prompt[r]) /\ k <= Len(Prompt[s])
    /\ \A i \in 1..k : Prompt[r][i] = Prompt[s][i]

(* Equal prefixes are prefixes that agree place by place.                  *)
LEMMA PrefixAgree ==
    ASSUME NEW s \in Seq(Nat), NEW t \in Seq(Nat), NEW k \in Nat, k <= Len(s), k <= Len(t)
    PROVE  SubSeq(s, 1, k) = SubSeq(t, 1, k) <=> \A i \in 1..k : s[i] = t[i]
<1>1. /\ SubSeq(s, 1, k) \in Seq(Nat) /\ Len(SubSeq(s, 1, k)) = k
      /\ SubSeq(t, 1, k) \in Seq(Nat) /\ Len(SubSeq(t, 1, k)) = k
  OBVIOUS
<1>2. \A i \in 1..k : SubSeq(s, 1, k)[i] = s[i] /\ SubSeq(t, 1, k)[i] = t[i]
  OBVIOUS
<1>3. ASSUME \A i \in 1..k : s[i] = t[i] PROVE SubSeq(s, 1, k) = SubSeq(t, 1, k)
  BY <1>1, <1>2, <1>3, SeqEqual
<1>4. ASSUME SubSeq(s, 1, k) = SubSeq(t, 1, k), NEW i \in 1..k PROVE s[i] = t[i]
  BY <1>2, <1>4
<1> QED
  BY <1>3, <1>4

(* Shared is the longest prefix two prompts agree on.                      *)
LEMMA SharedFacts ==
    ASSUME NEW r \in Rid, NEW s \in Rid
    PROVE  Shared(r, s) \in Nat /\ \A k \in Nat : k <= Shared(r, s) <=> Agree(r, s, k)
<1>1. PICK p \in Seq(Nat), t \in Seq(Nat) : p = Prompt[r] /\ t = Prompt[s]
  BY OrderAssumption
<1>2. PICK n \in Nat : n = Min({Len(p), Len(t)}) /\ (n = Len(p) \/ n = Len(t)) /\ n <= Len(p) /\ n <= Len(t)
  <2>1. PICK a \in Nat, b \in Nat : a = Len(p) /\ b = Len(t)
    OBVIOUS
  <2>2. a \in Int /\ b \in Int
    OBVIOUS
  <2>3. Min({a, b}) = IF a <= b THEN a ELSE b
    BY <2>2, MinOfTwo, Zenon
  <2> QED
    BY <2>1, <2>3
<1>3. PICK K : K = {k \in 0..n : SubSeq(p, 1, k) = SubSeq(t, 1, k)}
  OBVIOUS
<1>4. Shared(r, s) = Max(K)
  BY <1>1, <1>2, <1>3 DEF Shared, SharedTokens
<1>5. K \in SUBSET Int /\ K \in SUBSET (0..n) /\ 0 \in K
  BY <1>1, <1>3
<1>6. IsFiniteSet(K)
  <2>1. IsFiniteSet(0..n)
    BY FS_Interval
  <2> QED
    BY <1>5, <2>1, FS_Subset
<1>7. Max(K) \in K /\ \A i \in K : i <= Max(K)
  BY <1>5, <1>6, MaxMinFacts
<1>8. PICK x \in 0..n : x = Max(K)
  BY <1>5, <1>7
<1>9. \A k \in 0..n : k \in K <=> Agree(r, s, k)
  <2> SUFFICES ASSUME NEW k \in 0..n PROVE k \in K <=> Agree(r, s, k)
    OBVIOUS
  <2>1. SubSeq(p, 1, k) = SubSeq(t, 1, k) <=> \A i \in 1..k : p[i] = t[i]
    BY <1>2, PrefixAgree
  <2> QED
    BY <2>1, <1>1, <1>2, <1>3 DEF Agree
<1>10. \A k \in Nat : Agree(r, s, k) => k \in 0..n
  BY <1>1, <1>2 DEF Agree
<1>11. \A k \in 0..x : Agree(r, s, k)
  <2>1. Agree(r, s, x)
    BY <1>7, <1>8, <1>9
  <2> QED
    BY <2>1, <1>1, <1>8 DEF Agree
<1> QED
  <2>1. ASSUME NEW k \in Nat PROVE k <= x <=> Agree(r, s, k)
    BY <1>7, <1>8, <1>9, <1>10, <1>11
  <2> QED
    BY <2>1, <1>4, <1>8

(* Agreeing on k tokens is symmetric and transitive.                       *)
LEMMA AgreeFacts ==
    ASSUME NEW r \in Rid, NEW s \in Rid, NEW t \in Rid, NEW k \in Nat
    PROVE  /\ Agree(r, s, k) <=> Agree(s, r, k)
           /\ Agree(r, s, k) /\ Agree(s, t, k) => Agree(r, t, k)
<1>1. Len(Prompt[r]) \in Nat /\ Len(Prompt[s]) \in Nat /\ Len(Prompt[t]) \in Nat
  BY OrderAssumption
<1> QED
  BY <1>1 DEF Agree

(* Sharing is symmetric and, like every longest common prefix, ultrametric.*)
LEMMA SharedUltrametric ==
    ASSUME NEW r \in Rid, NEW s \in Rid, NEW t \in Rid
    PROVE  /\ Shared(r, s) \in Nat /\ Shared(r, s) = Shared(s, r)
           /\ \A k \in Nat : k <= Shared(r, s) /\ k <= Shared(s, t) => k <= Shared(r, t)
<1>1. PICK x \in Nat : x = Shared(r, s)
  BY SharedFacts
<1>2. PICK y \in Nat : y = Shared(s, r)
  BY SharedFacts
<1>3. x <= y /\ y <= x
  <2>1. Agree(r, s, x) /\ Agree(s, r, y)
    BY <1>1, <1>2, SharedFacts
  <2>2. Agree(s, r, x) /\ Agree(r, s, y)
    BY <2>1, AgreeFacts
  <2> QED
    BY <1>1, <1>2, <2>2, SharedFacts
<1>4. ASSUME NEW k \in Nat, k <= Shared(r, s), k <= Shared(s, t) PROVE k <= Shared(r, t)
  <2>1. Agree(r, s, k) /\ Agree(s, t, k)
    BY <1>4, SharedFacts
  <2> QED
    BY <2>1, AgreeFacts, SharedFacts
<1> QED
  BY <1>1, <1>2, <1>3, <1>4

(* A queue of the requests S, their hits and their time stamps.            *)
Queued(q, S, hit, ts) ==
    /\ Enumerates(q, S) /\ S \in SUBSET Rid /\ IsFiniteSet(S)
    /\ hit \in [S -> Nat] /\ ts \in [S -> Nat]

(* What a queue with hits and stamps has: every request at one place.      *)
LEMMA QueuedFacts ==
    ASSUME NEW q, NEW S, NEW hit, NEW ts, Queued(q, S, hit, ts)
    PROVE  /\ Enumerates(q, S) /\ IsFiniteSet(S) /\ ToSet(q) = S
           /\ Len(q) \in Nat /\ DOMAIN q = 1..Len(q) /\ IsFiniteSet(DOMAIN q)
           /\ \A x \in S : x \in Rid /\ hit[x] \in Nat /\ ts[x] \in Nat
           /\ \A i \in 1..Len(q) : q[i] \in S
           /\ \A x \in S : \E i \in 1..Len(q) : q[i] = x
           /\ \A i, j \in 1..Len(q) : q[i] = q[j] => i = j
<1>1. Enumerates(q, S) /\ ToSet(q) = S
  BY DEF Queued, Enumerates
<1>2. Len(q) \in Nat /\ DOMAIN q = 1..Len(q)
  BY <1>1, EnumFacts
<1>3. IsFiniteSet(DOMAIN q)
  BY <1>2, UpTo
<1>4. /\ \A i \in 1..Len(q) : q[i] \in S
      /\ \A x \in S : \E i \in 1..Len(q) : q[i] = x
      /\ \A i, j \in 1..Len(q) : q[i] = q[j] => i = j
  BY <1>1, EnumFacts
<1> QED
  BY <1>1, <1>2, <1>3, <1>4 DEF Queued

(* The image of a finite set is finite.                                    *)
LEMMA ImageFinite ==
    ASSUME NEW S, IsFiniteSet(S), NEW f, NEW T, T = {f[x] : x \in S}
    PROVE  IsFiniteSet(T)
<1>1. PICK g : g = [x \in S |-> f[x]]
  OBVIOUS
<1>2. g \in Surjection(S, T)
  BY <1>1 DEF Surjection
<1> QED
  BY <1>2, FS_Surjection

(* Depth is the longest prefix a request shares with another waiting one.  *)
LEMMA DepthFacts ==
    ASSUME NEW q, NEW S, NEW hit, NEW ts, Queued(q, S, hit, ts), NEW r \in S
    PROVE  /\ Depth(q, r) \in Nat
           /\ \A x \in S : x # r => Shared(r, x) <= Depth(q, r)
           /\ Depth(q, r) = 0 \/ \E x \in S : x # r /\ Depth(q, r) = Shared(r, x)
<1>1. ToSet(q) = S /\ IsFiniteSet(S) /\ \A x \in S : x \in Rid
  BY QueuedFacts
<1>2. PICK T : T = {Shared(r, x) : x \in S \ {r}}
  OBVIOUS
<1>3. Depth(q, r) = Max({0} \cup T)
  BY <1>1, <1>2 DEF Depth
<1>4. \A x \in S : Shared(r, x) \in Nat
  BY <1>1, SharedFacts
<1>5. {0} \cup T \in SUBSET Int /\ {0} \cup T # {}
  BY <1>2, <1>4
<1>6. IsFiniteSet({0} \cup T)
  <2>1. IsFiniteSet(S \ {r})
    BY <1>1, FS_Subset
  <2>2. IsFiniteSet(T)
    <3>1. PICK f : f = [x \in S \ {r} |-> Shared(r, x)]
      OBVIOUS
    <3>2. T = {f[x] : x \in S \ {r}}
      BY <3>1, <1>2
    <3> QED
      BY <2>1, <3>2, ImageFinite
  <2> QED
    BY <2>2, FS_Singleton, FS_Union
<1>7. PICK U : U = {0} \cup T
  OBVIOUS
<1>8. Max(U) \in U /\ \A i \in U : i <= Max(U)
  BY <1>5, <1>6, <1>7, MaxMinFacts
<1>9. Max(U) \in Nat /\ (Max(U) = 0 \/ Max(U) \in T)
  <2>1. \A u \in U : u \in Nat /\ (u = 0 \/ u \in T)
    BY <1>2, <1>4, <1>7
  <2> QED
    BY <2>1, <1>8
<1>10. \A x \in S : x # r => Shared(r, x) <= Max(U)
  BY <1>2, <1>7, <1>8
<1>11. Depth(q, r) = Max(U)
  BY <1>3, <1>7
<1> QED
  BY <1>2, <1>9, <1>10, <1>11

(* Who is in a request's cluster.                                          *)
LEMMA ClusterFacts ==
    ASSUME NEW q, NEW S, NEW hit, NEW ts, Queued(q, S, hit, ts), NEW r \in S
    PROVE  /\ \A x : x \in Cluster(q, r) <=>
                        x \in S /\ Depth(q, r) # 0 /\ Shared(r, x) >= Depth(q, r)
           /\ ClusterSize(q, r) \in Nat
<1>1. ToSet(q) = S /\ IsFiniteSet(S)
  BY QueuedFacts
<1>2. \A x : x \in Cluster(q, r) <=> x \in S /\ Depth(q, r) # 0 /\ Shared(r, x) >= Depth(q, r)
  BY <1>1, Zenon DEF Cluster
<1>3. Cluster(q, r) \in SUBSET S
  BY <1>2
<1>4. IsFiniteSet(Cluster(q, r))
  BY <1>1, <1>3, FS_Subset
<1> QED
  BY <1>2, <1>4, FS_CardinalityType DEF ClusterSize

(* The score of a request is a natural number.                             *)
LEMMA ScoreType ==
    ASSUME NEW q, NEW S, NEW hit, NEW ts, Queued(q, S, hit, ts), NEW r \in S
    PROVE  ReqScore(q, r) \in Nat
<1>1. ToSet(q) = S /\ IsFiniteSet(S) /\ r \in Rid
  BY QueuedFacts
<1>2. PICK n \in Nat : n = Len(Prompt[r])
  BY <1>1, OrderAssumption
<1>3. IsFiniteSet(S \X (1..n))
  BY <1>1, UpTo, FS_Product
<1>4. PICK X : X = {x \in S \X (1..n) : x[2] <= Shared(r, x[1])}
  OBVIOUS
<1>5. IsFiniteSet(X)
  BY <1>3, <1>4, FS_Subset
<1> QED
  BY <1>1, <1>2, <1>4, <1>5, FS_CardinalityType DEF ReqScore

(* The three sections: warm, pioneers, deprioritized.                      *)
LEMMA SectionFacts ==
    ASSUME NEW q, NEW S, NEW hit, NEW ts, Queued(q, S, hit, ts), NEW i \in 1..Len(q)
    PROVE  Section(q, hit, i) = IF hit[q[i]] > CheckThreshold THEN 0
                                ELSE IF Deprioritized(q, hit, i) THEN 2 ELSE 1
<1>1. hit[q[i]] \in Nat /\ CheckThreshold \in Nat
  BY QueuedFacts, OrderAssumption
<1>2. Deprioritized(q, hit, i) => hit[q[i]] <= CheckThreshold
  BY DEF Deprioritized, Claims
<1>3. Deprioritized(q, hit, i) => ~(hit[q[i]] > CheckThreshold)
  BY <1>1, <1>2
<1> QED
  BY <1>3, Zenon DEF Section

(* The members of the group of a place in the queue.                       *)
LEMMA GroupFacts ==
    ASSUME NEW q, NEW S, NEW hit, NEW ts, Queued(q, S, hit, ts), NEW i \in 1..Len(q)
    PROVE  /\ Group(q, hit, i) \in SUBSET (1..Len(q)) /\ i \in Group(q, hit, i)
           /\ IsFiniteSet(Group(q, hit, i))
           /\ \A j \in 1..Len(q) : j # i => (j \in Group(q, hit, i) <=>
                 /\ Section(q, hit, j) = Section(q, hit, i) /\ q[j] \in Cluster(q, q[i])
                 /\ Depth(q, q[j]) = Depth(q, q[i]))
<1>1. DOMAIN q = 1..Len(q) /\ Len(q) \in Nat /\ IsFiniteSet(1..Len(q))
  BY QueuedFacts
<1>2. Group(q, hit, i) \in SUBSET (1..Len(q)) /\ i \in Group(q, hit, i)
  BY <1>1, Zenon DEF Group
<1>3. ASSUME NEW j \in 1..Len(q), j # i
      PROVE  j \in Group(q, hit, i) <=>
                 /\ Section(q, hit, j) = Section(q, hit, i) /\ q[j] \in Cluster(q, q[i])
                 /\ Depth(q, q[j]) = Depth(q, q[i])
  BY <1>1, <1>3, Zenon DEF Group
<1>4. IsFiniteSet(Group(q, hit, i))
  BY <1>1, <1>2, FS_Subset
<1> QED
  BY <1>2, <1>3, <1>4, Zenon

(* The section of a request is that of the place it waits at.              *)
LEMMA RoleFacts ==
    ASSUME NEW q, NEW S, NEW hit, NEW ts, Queued(q, S, hit, ts)
    PROVE  /\ \A i \in 1..Len(q) : SectionsOf(q, hit)[q[i]] = Section(q, hit, i)
           /\ SectionsOf(q, hit) \in [S -> {0, 1, 2}]
<1>1. /\ ToSet(q) = S /\ DOMAIN q = 1..Len(q)
      /\ \A i, j \in 1..Len(q) : q[i] = q[j] => i = j
      /\ \A i \in 1..Len(q) : q[i] \in S
      /\ \A x \in S : \E i \in 1..Len(q) : q[i] = x
  BY QueuedFacts
<1>2. ASSUME NEW i \in 1..Len(q) PROVE SectionsOf(q, hit)[q[i]] = Section(q, hit, i)
  <2>1. PICK j : j = CHOOSE k \in DOMAIN q : q[k] = q[i]
    OBVIOUS
  <2>2. j \in DOMAIN q /\ q[j] = q[i]
    BY <2>1, <1>1, Zenon
  <2>3. j = i
    BY <2>2, <1>1
  <2>4. q[i] \in ToSet(q)
    BY <1>1
  <2>5. SectionsOf(q, hit)[q[i]] = Section(q, hit, CHOOSE k \in DOMAIN q : q[k] = q[i])
    BY <2>4 DEF SectionsOf
  <2> QED
    BY <2>1, <2>3, <2>5, Zenon
<1>3. \A i \in 1..Len(q) : Section(q, hit, i) \in {0, 1, 2}
  BY SectionFacts
<1>4. PICK f : f = SectionsOf(q, hit)
  OBVIOUS
<1>5. DOMAIN f = S /\ f = [r \in S |-> f[r]]
  BY <1>1, <1>4 DEF SectionsOf
<1>6. ASSUME NEW x \in S PROVE f[x] \in {0, 1, 2}
  <2>1. PICK i \in 1..Len(q) : q[i] = x
    BY <1>1
  <2>2. f[x] = Section(q, hit, i)
    BY <2>1, <1>2, <1>4
  <2> QED
    BY <2>2, <1>3
<1>7. f \in [S -> {0, 1, 2}]
  BY <1>5, <1>6
<1> QED
  BY <1>2, <1>4, <1>7

(* lane lists the queued requests, each once, by section.                  *)
IsLane(lane, S, sec) ==
    /\ Enumerates(lane, S)
    /\ \A k, l \in 1..Len(lane) : k < l => sec[lane[k]] <= sec[lane[l]]

(* Tuples in order have their first numbers in order.                      *)
LEMMA LexFirst ==
    ASSUME NEW m \in Nat, m > 0, NEW s \in Tuples(m), NEW t \in Tuples(m), LexLess(s, t) \/ s = t
    PROVE  s[1] <= t[1]
<1>1. \A k \in 1..m : s[k] \in Int /\ t[k] \in Int
  BY LexDef
<1>2. CASE s = t
  BY <1>1, <1>2
<1>3. CASE LexLess(s, t)
  <2>1. PICK k \in 1..m : Differs(s, t, k)
    BY <1>3, LexDef
  <2> QED
    BY <2>1, <1>1 DEF Differs
<1> QED
  BY <1>2, <1>3

SectionKeys(key, q, hit) == \A i \in 1..Len(q) : key[i][1] = Section(q, hit, i)

(* A sort whose key starts with the section keeps the sections apart.      *)
LEMMA SortedLane ==
    ASSUME NEW q, NEW S, NEW hit, NEW ts, Queued(q, S, hit, ts), NEW m \in Nat, m > 0,
           NEW key, Keys(key, q, m), SectionKeys(key, q, hit)
    PROVE  IsLane(SortedBy(q, key), S, SectionsOf(q, hit)) /\ Len(SortedBy(q, key)) = Len(q)
<1>1. Enumerates(q, S) /\ DOMAIN q = 1..Len(q)
  BY QueuedFacts
<1>2. PICK t : t = SortedBy(q, key)
  OBVIOUS
<1>3. Enumerates(t, S) /\ Len(t) = Len(q)
  BY <1>1, <1>2, SortFacts
<1>4. PICK is : IsSort(t, is, q, key)
  BY <1>1, <1>2, SortFacts
<1>5. PICK sec : sec = SectionsOf(q, hit)
  OBVIOUS
<1>6. \A i \in 1..Len(q) : key[i] \in Tuples(m) /\ sec[q[i]] = key[i][1]
  BY <1>5, RoleFacts DEF Keys, SectionKeys
<1>7. \A k \in 1..Len(q) : is[k] \in 1..Len(q)
  BY <1>1, <1>4, EnumFacts DEF IsSort
<1>8. ASSUME NEW k \in 1..Len(q), NEW l \in 1..Len(q), k < l PROVE sec[t[k]] <= sec[t[l]]
  <2>1. LexLess(key[is[k]], key[is[l]]) \/ key[is[k]] = key[is[l]]
    BY <1>4, <1>8 DEF IsSort
  <2>2. key[is[k]][1] <= key[is[l]][1]
    BY <2>1, <1>6, <1>7, LexFirst
  <2>3. t[k] = q[is[k]] /\ t[l] = q[is[l]]
    BY <1>4 DEF IsSort
  <2> QED
    BY <2>2, <2>3, <1>6, <1>7
<1> QED
  BY <1>2, <1>3, <1>5, <1>8 DEF IsLane

KeyA(q, hit, ts) ==
    [i \in DOMAIN q |-> <<Section(q, hit, i), -hit[q[i]], -ReqScore(q, q[i]),
                          -ClusterSize(q, q[i]), ts[q[i]]>>]

(* Lane A of the flat sort is a permutation of the queue in section order. *)
LEMMA LaneAFacts ==
    ASSUME NEW q, NEW S, NEW hit, NEW ts, Queued(q, S, hit, ts)
    PROVE  IsLane(LaneA(q, hit, ts), S, SectionsOf(q, hit)) /\ Len(LaneA(q, hit, ts)) = Len(q)
<1>1. PICK key : key = KeyA(q, hit, ts)
  OBVIOUS
<1>2. DOMAIN q = 1..Len(q) /\ \A i \in 1..Len(q) : q[i] \in S /\ hit[q[i]] \in Nat /\ ts[q[i]] \in Nat
  BY QueuedFacts
<1>3. \A i \in 1..Len(q) : key[i] \in Tuples(5) /\ key[i][1] = Section(q, hit, i)
  <2> SUFFICES ASSUME NEW i \in 1..Len(q)
               PROVE  key[i] \in Tuples(5) /\ key[i][1] = Section(q, hit, i)
    OBVIOUS
  <2>1. Section(q, hit, i) \in Int /\ ts[q[i]] \in Int
    BY <1>2, SectionFacts
  <2>2. PICK a \in Int, e \in Int : a = Section(q, hit, i) /\ e = ts[q[i]]
    BY <2>1, Zenon
  <2>3. PICK b \in Int : b = -hit[q[i]]
    BY <1>2
  <2>4. PICK c \in Int : c = -ReqScore(q, q[i])
    BY <1>2, ScoreType
  <2>5. PICK d \in Int : d = -ClusterSize(q, q[i])
    BY <1>2, ClusterFacts
  <2>6. key[i] = <<a, b, c, d, e>>
    BY <1>1, <1>2, <2>2, <2>3, <2>4, <2>5 DEF KeyA
  <2> QED
    BY <2>2, <2>6 DEF Tuples
<1>4. Keys(key, q, 5) /\ SectionKeys(key, q, hit)
  BY <1>1, <1>2, <1>3 DEF KeyA, Keys, SectionKeys
<1>5. LaneA(q, hit, ts) = SortedBy(q, key)
  BY <1>1, Zenon DEF KeyA, LaneA
<1>6. IsLane(SortedBy(q, key), S, SectionsOf(q, hit)) /\ Len(SortedBy(q, key)) = Len(q)
  BY <1>4, SortedLane
<1> QED
  BY <1>5, <1>6

KeyB(q, hit, ts) ==
    [i \in DOMAIN q |-> <<Section(q, hit, i), ts[q[i]], -hit[q[i]]>>]

(* So is lane B, the first-come lane.                                      *)
LEMMA LaneBFacts ==
    ASSUME NEW q, NEW S, NEW hit, NEW ts, Queued(q, S, hit, ts)
    PROVE  IsLane(LaneB(q, hit, ts), S, SectionsOf(q, hit)) /\ Len(LaneB(q, hit, ts)) = Len(q)
<1>1. PICK key : key = KeyB(q, hit, ts)
  OBVIOUS
<1>2. DOMAIN q = 1..Len(q) /\ \A i \in 1..Len(q) : q[i] \in S /\ hit[q[i]] \in Nat /\ ts[q[i]] \in Nat
  BY QueuedFacts
<1>3. \A i \in 1..Len(q) : key[i] \in Tuples(3) /\ key[i][1] = Section(q, hit, i)
  <2> SUFFICES ASSUME NEW i \in 1..Len(q)
               PROVE  key[i] \in Tuples(3) /\ key[i][1] = Section(q, hit, i)
    OBVIOUS
  <2>1. Section(q, hit, i) \in Int /\ ts[q[i]] \in Int /\ -hit[q[i]] \in Int
    BY <1>2, SectionFacts
  <2>2. PICK a \in Int, b \in Int, c \in Int :
          a = Section(q, hit, i) /\ b = ts[q[i]] /\ c = -hit[q[i]]
    BY <2>1, Zenon
  <2>3. key[i] = <<a, b, c>>
    BY <1>1, <1>2, <2>2 DEF KeyB
  <2> QED
    BY <2>2, <2>3 DEF Tuples
<1>4. Keys(key, q, 3) /\ SectionKeys(key, q, hit)
  BY <1>1, <1>2, <1>3 DEF KeyB, Keys, SectionKeys
<1>5. LaneB(q, hit, ts) = SortedBy(q, key)
  BY <1>1, Zenon DEF KeyB, LaneB
<1>6. IsLane(SortedBy(q, key), S, SectionsOf(q, hit)) /\ Len(SortedBy(q, key)) = Len(q)
  BY <1>4, SortedLane
<1> QED
  BY <1>5, <1>6

KeyG(q, hit, ts) ==
    [i \in DOMAIN q |-> <<Section(q, hit, i), -(Depth(q, q[i]) * ClusterSize(q, q[i])),
                          Min({ts[q[j]] : j \in Group(q, hit, i)}), Min(Group(q, hit, i)),
                          -hit[q[i]], ts[q[i]]>>]

(* The earliest stamp and the first place of a group exist.                *)
LEMMA GroupMins ==
    ASSUME NEW q, NEW S, NEW hit, NEW ts, Queued(q, S, hit, ts), NEW i \in 1..Len(q)
    PROVE  /\ Min({ts[q[j]] : j \in Group(q, hit, i)}) \in Int
           /\ Min(Group(q, hit, i)) \in Group(q, hit, i)
<1>1. PICK G : G = Group(q, hit, i)
  OBVIOUS
<1>2. G \in SUBSET (1..Len(q)) /\ i \in G /\ IsFiniteSet(G) /\ Len(q) \in Nat
  BY <1>1, GroupFacts, QueuedFacts
<1>3. \A j \in 1..Len(q) : ts[q[j]] \in Nat
  BY QueuedFacts
<1>4. PICK f : f = [j \in G |-> ts[q[j]]]
  OBVIOUS
<1>5. PICK T : T = {f[j] : j \in G}
  OBVIOUS
<1>6. T = {ts[q[j]] : j \in G}
  BY <1>4, <1>5
<1>7. IsFiniteSet(T)
  BY <1>2, <1>5, ImageFinite
<1>8. T \in SUBSET Int /\ T # {}
  BY <1>2, <1>3, <1>6
<1>9. Min(T) \in Int
  BY <1>7, <1>8, MaxMinFacts
<1>10. G \in SUBSET Int /\ G # {}
  BY <1>2
<1>11. Min(G) \in G
  BY <1>2, <1>10, MaxMinFacts
<1> QED
  BY <1>1, <1>6, <1>9, <1>11, Zenon

(* The negated product of two natural numbers is an integer.               *)
LEMMA IntProduct == \A a, b \in Nat : -(a * b) \in Int
OBVIOUS

(* The part of the key that the members of a group have in common.         *)
GroupPart(key, q, hit, ts, i) ==
    /\ key[i][1] = Section(q, hit, i)
    /\ key[i][2] = -(Depth(q, q[i]) * ClusterSize(q, q[i]))
    /\ key[i][3] = Min({ts[q[j]] : j \in Group(q, hit, i)})
    /\ key[i][4] = Min(Group(q, hit, i))

(* The tuple the group-major sort uses, and the part of it that belongs to *)
(* the group.                                                              *)
LEMMA KeyGFacts ==
    ASSUME NEW q, NEW S, NEW hit, NEW ts, Queued(q, S, hit, ts), NEW key, key = KeyG(q, hit, ts)
    PROVE  /\ Keys(key, q, 6) /\ SectionKeys(key, q, hit)
           /\ \A i \in 1..Len(q) : GroupPart(key, q, hit, ts, i)
<1>1. DOMAIN q = 1..Len(q) /\ \A i \in 1..Len(q) : q[i] \in S /\ hit[q[i]] \in Nat /\ ts[q[i]] \in Nat
  BY QueuedFacts
<1>2. ASSUME NEW i \in 1..Len(q)
      PROVE  /\ key[i] \in Tuples(6) /\ key[i][1] = Section(q, hit, i)
             /\ key[i][2] = -(Depth(q, q[i]) * ClusterSize(q, q[i]))
             /\ key[i][3] = Min({ts[q[j]] : j \in Group(q, hit, i)})
             /\ key[i][4] = Min(Group(q, hit, i))
  <2>1. PICK x, y : x = -(Depth(q, q[i]) * ClusterSize(q, q[i]))
                    /\ y = Min({ts[q[j]] : j \in Group(q, hit, i)})
    OBVIOUS
  <2>2. PICK z : z = Min(Group(q, hit, i))
    OBVIOUS
  <2>3. Depth(q, q[i]) \in Nat /\ ClusterSize(q, q[i]) \in Nat
    BY <1>1, DepthFacts, ClusterFacts
  <2>4. x \in Int
    BY <2>1, <2>3, IntProduct, Zenon
  <2>5. y \in Int /\ z \in Int
    <3>1. y \in Int /\ z \in Group(q, hit, i)
      BY <2>1, <2>2, GroupMins
    <3>2. Group(q, hit, i) \in SUBSET (1..Len(q))
      BY GroupFacts
    <3> QED
      BY <3>1, <3>2
  <2>6. PICK a \in Int, b \in Int, c \in Int : a = Section(q, hit, i) /\ b = -hit[q[i]] /\ c = ts[q[i]]
    BY <1>1, SectionFacts
  <2>7. key[i] = <<a, x, y, z, b, c>>
    BY <1>1, <2>1, <2>2, <2>6, Zenon DEF KeyG
  <2> QED
    BY <2>1, <2>2, <2>4, <2>5, <2>6, <2>7 DEF Tuples
<1>3. Keys(key, q, 6)
  <2>1. key = [i \in 1..Len(q) |-> key[i]]
    BY <1>1, Zenon DEF KeyG
  <2> QED
    BY <1>2, <2>1 DEF Keys
<1>4. \A i \in 1..Len(q) : GroupPart(key, q, hit, ts, i)
  BY <1>2, Zenon DEF GroupPart
<1>5. SectionKeys(key, q, hit)
  BY <1>2, Zenon DEF SectionKeys
<1> QED
  BY <1>3, <1>4, <1>5

(* Lane A of the group-major sort is a permutation in section order too.   *)
LEMMA LaneGFacts ==
    ASSUME NEW q, NEW S, NEW hit, NEW ts, Queued(q, S, hit, ts)
    PROVE  /\ IsLane(LaneAByGroup(q, hit, ts), S, SectionsOf(q, hit))
           /\ Len(LaneAByGroup(q, hit, ts)) = Len(q)
<1>1. PICK key : key = KeyG(q, hit, ts)
  OBVIOUS
<1>2. Keys(key, q, 6) /\ SectionKeys(key, q, hit)
  BY <1>1, KeyGFacts
<1>3. LaneAByGroup(q, hit, ts) = SortedBy(q, key)
  BY <1>1, Zenon DEF KeyG, LaneAByGroup
<1>4. IsLane(SortedBy(q, key), S, SectionsOf(q, hit)) /\ Len(SortedBy(q, key)) = Len(q)
  BY <1>2, SortedLane
<1> QED
  BY <1>3, <1>4

-----------------------------------------------------------------------------
(* The stride scheduler.                                                   *)
IsIteration(f, init, step, n) == f = [i \in 0..n |-> IF i = 0 THEN init ELSE step[f[i - 1]]]

(* The recursion over the picks defines a function, whatever one pick      *)
(* does.                                                                   *)
LEMMA IterationDefined ==
    ASSUME NEW init, NEW step, NEW n \in Nat
    PROVE  \E f : IsIteration(f, init, step, n)
<1> DEFINE Good(m) == \E f : f = [i \in 0..m |-> IF i = 0 THEN init ELSE step[f[i - 1]]]
           B == {m \in Nat : ~Good(m)}
<1> SUFFICES ASSUME B # {} PROVE FALSE
  BY DEF IsIteration
<1>1. PICK m \in B : \A k \in B : m <= k
  BY LeastNat
<1>2. m \in Nat /\ ~Good(m)
  OBVIOUS
<1>3. m # 0
  <2>1. SUFFICES Good(0)
    BY <1>2
  <2>2. PICK f : f = [i \in 0..0 |-> init]
    OBVIOUS
  <2>3. f = [i \in 0..0 |-> IF i = 0 THEN init ELSE step[f[i - 1]]]
    BY <2>2
  <2> QED
    BY <2>3
<1>4. m - 1 \in Nat /\ m - 1 \notin B
  <2>1. m - 1 \in Nat /\ ~(m <= m - 1)
    BY <1>2, <1>3
  <2> HIDE DEF B
  <2> QED
    BY <1>1, <2>1
<1>5. Good(m - 1)
  BY <1>4
<1>6. PICK f : f = [i \in 0..(m - 1) |-> IF i = 0 THEN init ELSE step[f[i - 1]]]
  BY <1>5
<1>7. PICK g : g = [i \in 0..m |-> IF i < m THEN f[i] ELSE step[f[i - 1]]]
  OBVIOUS
<1>8. \A i \in 0..m : g[i] = IF i = 0 THEN init ELSE step[g[i - 1]]
  <2> SUFFICES ASSUME NEW i \in 0..m PROVE g[i] = IF i = 0 THEN init ELSE step[g[i - 1]]
    OBVIOUS
  <2>1. i # 0 => i - 1 \in 0..m /\ i - 1 < m
    BY <1>2
  <2>2. i # 0 => g[i - 1] = f[i - 1]
    BY <1>7, <2>1
  <2>3. CASE i < m
    <3>1. i \in 0..(m - 1)
      BY <1>2, <2>3
    <3>2. g[i] = f[i] /\ f[i] = IF i = 0 THEN init ELSE step[f[i - 1]]
      BY <1>6, <1>7, <2>3, <3>1
    <3> QED
      BY <2>2, <3>2
  <2>4. CASE ~(i < m)
    <3>1. i = m /\ i # 0
      BY <2>4, <1>2, <1>3
    <3> QED
      BY <1>7, <2>2, <2>4, <3>1
  <2> QED
    BY <2>3, <2>4
<1>9. g = [i \in 0..m |-> IF i = 0 THEN init ELSE step[g[i - 1]]]
  BY <1>7, <1>8
<1> QED
  BY <1>2, <1>9

PickStates == [order : Seq(Rid), a : Nat, b : Nat]
Picks(A, B, share) ==
    [s \in PickStates |->
        IF PickA(s.a, s.b, share)
        THEN [order |-> Append(s.order, FirstUnpicked[A][s.order]), a |-> s.a + 1, b |-> s.b]
        ELSE [order |-> Append(s.order, FirstUnpicked[B][s.order]), a |-> s.a, b |-> s.b + 1]]

Start == [order |-> <<>>, a |-> 0, b |-> 0]

IsAfter(f, A, B, share) ==
    f = [n \in 0..Len(A) |-> IF n = 0 THEN Start ELSE Picks(A, B, share)[f[n - 1]]]

(* StrideInterleave is the order after Len(A) picks, starting from none.   *)
LEMMA StrideAfter ==
    ASSUME NEW A \in Seq(Rid), NEW B \in Seq(Rid), NEW share
    PROVE  \E f : IsAfter(f, A, B, share) /\ StrideInterleave(A, B, share) = f[Len(A)].order
<1>1. PICK f : f = CHOOSE g : g = [n \in 0..Len(A) |-> IF n = 0 THEN Start ELSE Picks(A, B, share)[g[n - 1]]]
  OBVIOUS
<1>2. StrideInterleave(A, B, share) = f[Len(A)].order
  BY <1>1, Zenon DEF StrideInterleave, Picks, Start, PickStates
<1>3. Len(A) \in Nat
  OBVIOUS
<1>4. \E g : g = [n \in 0..Len(A) |-> IF n = 0 THEN Start ELSE Picks(A, B, share)[g[n - 1]]]
  <2>1. PICK step : step = Picks(A, B, share)
    OBVIOUS
  <2>2. PICK g : IsIteration(g, Start, step, Len(A))
    BY <1>3, IterationDefined, Zenon
  <2>3. IsIteration(g, Start, Picks(A, B, share), Len(A))
    BY <2>1, <2>2
  <2> QED
    BY <2>3, Zenon DEF IsIteration
<1> QED
  BY <1>1, <1>2, <1>4, Zenon DEF IsAfter

(* Abbreviations that keep the terms of the steps below small.             *)
IsState(s, o, a, b) == s = [order |-> o, a |-> a, b |-> b]
IsPick(x, lane, o) == x = FirstUnpicked[lane][o]
IsAppend(u, V, o, U, x) == u = Append(o, x) /\ V = U \cup {x}
Taken(t, A, B, share, s) == t = Picks(A, B, share)[s]
Extends(t, o, m) == \A p \in 1..m : t[p] = o[p]

(* One pick: from the lane whose clock is due, and that clock advances.    *)
LEMMA PickFacts ==
    ASSUME NEW A, NEW B, NEW share, NEW o \in Seq(Rid), NEW a \in Nat, NEW b \in Nat,
           NEW x, IsPick(x, A, o), NEW y, IsPick(y, B, o),
           NEW s, IsState(s, o, a, b), NEW t, Taken(t, A, B, share, s)
    PROVE  /\ PickA(a, b, share)  => IsState(t, Append(o, x), a + 1, b)
           /\ ~PickA(a, b, share) => IsState(t, Append(o, y), a, b + 1)
<1>1. s \in PickStates /\ s.order = o /\ s.a = a /\ s.b = b
  BY DEF PickStates, IsState
<1>2. t = IF PickA(s.a, s.b, share)
          THEN [order |-> Append(s.order, FirstUnpicked[A][s.order]), a |-> s.a + 1, b |-> s.b]
          ELSE [order |-> Append(s.order, FirstUnpicked[B][s.order]), a |-> s.a, b |-> s.b + 1]
  BY <1>1, Zenon DEF Picks, Taken
<1>3. x = FirstUnpicked[A][o] /\ y = FirstUnpicked[B][o]
  BY DEF IsPick
<1> QED
  BY <1>1, <1>2, <1>3, Zenon DEF IsState

(* The first of a lane outside U.                                          *)
IsFirst(x, i, lane, U) ==
    i \in 1..Len(lane) /\ x = lane[i] /\ x \notin U /\ \A j \in 1..(i - 1) : lane[j] \in U

(* While requests are left, FirstUnpicked finds the first of a lane that   *)
(* is not picked yet.                                                      *)
LEMMA FirstFacts ==
    ASSUME NEW S \in SUBSET Rid, NEW lane, Enumerates(lane, S), NEW o, NEW U \in SUBSET S, Enumerates(o, U),
           Len(o) < Len(lane), NEW x, x = FirstUnpicked[lane][o]
    PROVE  \E i : IsFirst(x, i, lane, U)
<1>1. /\ lane \in Seq(S) /\ o \in Seq(U) /\ ToSet(o) = U
      /\ Len(lane) \in Nat /\ DOMAIN lane = 1..Len(lane)
      /\ \A i \in 1..Len(lane) : lane[i] \in S
      /\ \A r \in S : \E i \in 1..Len(lane) : lane[i] = r
  <2>1. ToSet(o) = U /\ o \in Seq(U)
    BY DEF Enumerates
  <2> QED
    BY <2>1, EnumFacts
<1>2. lane \in Seq(Rid) /\ o \in Seq(Rid)
  BY <1>1
<1>3. PICK I : I = {i \in 1..Len(lane) : lane[i] \notin U}
  OBVIOUS
<1>4. x = lane[Min(I)]
  <2>1. FirstUnpicked[lane] = [picked \in Seq(Rid) |->
          lane[Min({i \in DOMAIN lane : lane[i] \notin ToSet(picked)})]]
    BY <1>2, Zenon DEF FirstUnpicked
  <2>2. x = lane[Min({i \in DOMAIN lane : lane[i] \notin ToSet(o)})]
    BY <1>2, <2>1, Zenon
  <2> QED
    BY <1>1, <1>3, <2>2, Zenon
<1>5. I # {}
  <2>1. S # U
    <3>1. Cardinality(S) = Len(lane) /\ Cardinality(U) = Len(o)
      BY EnumLength
    <3>2. Len(o) \in Nat /\ Len(lane) \in Nat
      BY EnumFacts
    <3> QED
      BY <3>1, <3>2
  <2> QED
    BY <1>1, <1>3, <2>1
<1>6. I \in SUBSET Int /\ I \in SUBSET (1..Len(lane))
  BY <1>3
<1>7. IsFiniteSet(I)
  <2>1. IsFiniteSet(1..Len(lane))
    BY <1>1, UpTo
  <2> QED
    BY <1>6, <2>1, FS_Subset
<1>8. PICK i : i = Min(I) /\ i \in I /\ \A j \in I : i <= j
  BY <1>5, <1>6, <1>7, MaxMinFacts
<1>9. i \in 1..Len(lane) /\ lane[i] \notin U
  BY <1>3, <1>8
<1>10. \A j \in 1..(i - 1) : lane[j] \in U
  <2> SUFFICES ASSUME NEW j \in 1..(i - 1), lane[j] \notin U PROVE FALSE
    OBVIOUS
  <2>1. j \in I /\ ~(i <= j)
    BY <1>3, <1>9, <1>1
  <2> QED
    BY <2>1, <1>8
<1> QED
  BY <1>4, <1>8, <1>9, <1>10 DEF IsFirst

(* The first m picks o, the set U: by section, nobody left out precedes.   *)
PickedIn(o, U, m, S, sec) ==
    /\ Enumerates(o, U) /\ U \in SUBSET S /\ Len(o) = m
    /\ \A p, l \in 1..m : p < l => sec[o[p]] <= sec[o[l]]
    /\ \A p \in 1..m : \A x \in S \ U : sec[o[p]] <= sec[x]

(* The first k of a lane are in U.                                         *)
HeadIn(lane, k, U) == \A i \in 1..Len(lane) : i <= k => lane[i] \in U

(* Before the first pick everything holds.                                 *)
LEMMA PickedStart ==
    ASSUME NEW S, NEW sec, NEW lane
    PROVE  PickedIn(<<>>, {}, 0, S, sec) /\ HeadIn(lane, 0, {})
BY EnumEmpty DEF PickedIn, HeadIn

InSections(S, sec) == S \in SUBSET Rid /\ sec \in [S -> {0, 1, 2}]

(* A pick from a lane keeps the sections in order and reaches one further  *)
(* into that lane.                                                         *)
LEMMA PickedStep ==
    ASSUME NEW S, NEW sec, NEW lane, InSections(S, sec), IsLane(lane, S, sec),
           NEW o, NEW U, NEW m \in Nat, PickedIn(o, U, m, S, sec), m < Len(lane),
           NEW x, IsPick(x, lane, o), NEW V, NEW t, IsAppend(t, V, o, U, x),
           NEW k \in Nat, HeadIn(lane, k, U)
    PROVE  /\ PickedIn(t, V, m + 1, S, sec) /\ U \subseteq V
           /\ HeadIn(lane, k + 1, V) /\ t \in Seq(Rid) /\ Extends(t, o, m)
<1>1. /\ S \in SUBSET Rid /\ sec \in [S -> {0, 1, 2}]
      /\ x = FirstUnpicked[lane][o] /\ t = Append(o, x) /\ V = U \cup {x}
  BY DEF InSections, IsPick, IsAppend
<1>2. /\ Enumerates(o, U) /\ U \in SUBSET S /\ Len(o) = m
      /\ \A p, l \in 1..m : p < l => sec[o[p]] <= sec[o[l]]
      /\ \A p \in 1..m : \A y \in S \ U : sec[o[p]] <= sec[y]
  BY DEF PickedIn
<1>3. /\ Enumerates(lane, S)
      /\ \A j, l \in 1..Len(lane) : j < l => sec[lane[j]] <= sec[lane[l]]
  BY DEF IsLane
<1>4. /\ Len(lane) \in Nat
      /\ \A i \in 1..Len(lane) : lane[i] \in S
      /\ \A r \in S : \E i \in 1..Len(lane) : lane[i] = r
  BY <1>3, EnumFacts
<1>5. PICK i : IsFirst(x, i, lane, U)
  BY <1>1, <1>2, <1>3, FirstFacts
<1>6. /\ i \in 1..Len(lane) /\ x = lane[i] /\ x \notin U
      /\ \A j \in 1..(i - 1) : lane[j] \in U
  BY <1>5 DEF IsFirst
<1>7. x \in S
  BY <1>4, <1>6
<1>8. Enumerates(t, V)
  BY <1>1, <1>2, <1>6, EnumAppend
<1>9. o \in Seq(U)
  BY <1>2, EnumFacts
<1>10. o \in Seq(Rid) /\ x \in Rid
  BY <1>1, <1>2, <1>7, <1>9
<1>11. /\ t \in Seq(Rid) /\ Len(t) = m + 1 /\ t[m + 1] = x
       /\ \A p \in 1..m : t[p] = o[p]
  BY <1>1, <1>2, <1>10
<1>12. ASSUME NEW y \in S \ V PROVE sec[x] <= sec[y]
  <2>1. PICK j \in 1..Len(lane) : lane[j] = y
    BY <1>4
  <2>2. i < j
    BY <1>1, <1>6, <2>1, <1>4
  <2> QED
    BY <2>1, <2>2, <1>3, <1>6
<1>13. PickedIn(t, V, m + 1, S, sec)
  <2>1. V \in SUBSET S
    BY <1>1, <1>2, <1>7
  <2>2. ASSUME NEW p \in 1..(m + 1), NEW y \in S \ V PROVE sec[t[p]] <= sec[y]
    <3>1. CASE p = m + 1
      BY <3>1, <1>11, <1>12
    <3>2. CASE p \in 1..m
      <4>1. y \in S \ U
        BY <1>1
      <4>2. sec[o[p]] <= sec[y]
        BY <4>1, <3>2, <1>2
      <4> QED
        BY <4>2, <3>2, <1>11
    <3>3. p = m + 1 \/ p \in 1..m
      OBVIOUS
    <3> QED
      BY <3>1, <3>2, <3>3, Zenon
  <2>3. ASSUME NEW p \in 1..(m + 1), NEW l \in 1..(m + 1), p < l PROVE sec[t[p]] <= sec[t[l]]
    <3>1. p \in 1..m
      BY <2>3
    <3>2. CASE l = m + 1
      <4>1. x \in S \ U
        BY <1>6, <1>7
      <4>2. sec[o[p]] <= sec[x]
        BY <4>1, <3>1, <1>2
      <4> QED
        BY <4>2, <3>1, <3>2, <1>11
    <3>3. CASE l \in 1..m
      BY <3>1, <3>3, <2>3, <1>2, <1>11
    <3>4. l = m + 1 \/ l \in 1..m
      OBVIOUS
    <3> QED
      BY <3>2, <3>3, <3>4, Zenon
  <2> QED
    BY <1>8, <1>11, <2>1, <2>2, <2>3 DEF PickedIn
<1>14. HeadIn(lane, k + 1, V)
  <2> SUFFICES ASSUME NEW j \in 1..Len(lane), j <= k + 1 PROVE lane[j] \in V
    BY DEF HeadIn
  <2>1. CASE j <= k
    BY <1>1, <2>1 DEF HeadIn
  <2>2. CASE j = k + 1
    <3>1. k < i
      <4>1. i <= k => lane[i] \in U
        BY <1>6 DEF HeadIn
      <4> QED
        BY <4>1, <1>6
    <3> QED
      <4>1. lane[j] \in U \/ lane[j] = x
        BY <2>2, <3>1, <1>6
      <4> QED
        BY <4>1, <1>1
  <2> QED
    BY <2>1, <2>2
<1> QED
  BY <1>1, <1>11, <1>13, <1>14 DEF Extends

(* What is picked stays picked.                                            *)
LEMMA HeadGrows ==
    ASSUME NEW lane, NEW k, NEW U, HeadIn(lane, k, U), NEW V, U \subseteq V
    PROVE  HeadIn(lane, k, V)
BY DEF HeadIn

(* What the clocks guarantee after a picks of one lane and b of the other. *)
Clocks(a, b, big, small) ==
    /\ a = 0 \/ a * small <= (b + 1) * big
    /\ b = 0 \/ b * big < (a + 1) * small

(* Multiplication by a successor.                                          *)
LEMMA NextMultiple == \A x, k \in Nat : x * k \in Nat /\ (x + 1) * k = x * k + k
OBVIOUS

(* The two virtual clocks stay within one stride of each other, whichever  *)
(* lane is picked.                                                         *)
LEMMA ClocksStep ==
    ASSUME NEW a \in Nat, NEW b \in Nat, NEW big \in Nat, NEW small \in Nat, Clocks(a, b, big, small)
    PROVE  /\ (a + 1) * small <= (b + 1) * big    => Clocks(a + 1, b, big, small)
           /\ ~((a + 1) * small <= (b + 1) * big) => Clocks(a, b + 1, big, small)
<1>1. PICK x \in Nat : x = (a + 1) * small
  BY NextMultiple
<1>2. PICK y \in Nat : y = (b + 1) * big
  BY NextMultiple
<1>3. ((a + 1) + 1) * small = x + small
  BY <1>1, NextMultiple
<1>4. ((b + 1) + 1) * big = y + big
  BY <1>2, NextMultiple
<1>5. (a = 0 \/ a * small <= y) /\ (b = 0 \/ b * big < x)
  BY <1>1, <1>2 DEF Clocks
<1>6. a * small \in Nat /\ b * big \in Nat
  BY NextMultiple
<1>7. Clocks(a + 1, b, big, small) <=>
         (a + 1 = 0 \/ x <= y) /\ (b = 0 \/ b * big < x + small)
  BY <1>1, <1>2, <1>3, Zenon DEF Clocks
<1>8. Clocks(a, b + 1, big, small) <=>
         (a = 0 \/ a * small <= y + big) /\ (b + 1 = 0 \/ y < x)
  BY <1>1, <1>2, <1>4, Zenon DEF Clocks
<1>9. PICK u \in Nat, v \in Nat : u = a * small /\ v = b * big
  BY <1>6
<1>10. x <= y => Clocks(a + 1, b, big, small)
  BY <1>5, <1>7, <1>9
<1>11. ~(x <= y) => Clocks(a, b + 1, big, small)
  BY <1>5, <1>8, <1>9
<1> QED
  BY <1>1, <1>2, <1>10, <1>11, Zenon

(* The state s of the scheduler after m picks.                             *)
GoodPick(s, m, o, a, b, U, A, B, S, sec, big, small) ==
    /\ o \in Seq(Rid) /\ a \in Nat /\ b \in Nat /\ IsState(s, o, a, b) /\ a + b = m
    /\ PickedIn(o, U, m, S, sec) /\ HeadIn(A, a, U) /\ HeadIn(B, b, U) /\ Clocks(a, b, big, small)

Good(s, m, A, B, S, sec, big, small) ==
    \E o, a, b, U : GoodPick(s, m, o, a, b, U, A, B, S, sec, big, small)

Lanes(A, B, S, sec) ==
    /\ InSections(S, sec)
    /\ IsLane(A, S, sec) /\ IsLane(B, S, sec) /\ Len(A) = Len(B)

Split(share, big, small) == big \in Nat /\ small \in Nat /\ share.big = big /\ share.of - share.big = small

(* The state before the first pick is good.                                *)
LEMMA GoodStart ==
    ASSUME NEW A, NEW B, NEW S, NEW sec, NEW big \in Nat, NEW small \in Nat, NEW s, s = Start
    PROVE  Good(s, 0, A, B, S, sec, big, small)
<1>1. PickedIn(<<>>, {}, 0, S, sec) /\ HeadIn(A, 0, {}) /\ HeadIn(B, 0, {})
  BY PickedStart
<1>2. Clocks(0, 0, big, small)
  BY DEF Clocks
<1>3. <<>> \in Seq(Rid) /\ s = [order |-> <<>>, a |-> 0, b |-> 0]
  BY DEF Start
<1>4. GoodPick(s, 0, <<>>, 0, 0, {}, A, B, S, sec, big, small)
  BY <1>1, <1>2, <1>3 DEF GoodPick, IsState
<1> QED
  BY <1>4, Zenon DEF Good

(* A pick leads from a good state to a good state and extends the order.   *)
LEMMA GoodStep ==
    ASSUME NEW A, NEW B, NEW S, NEW sec, Lanes(A, B, S, sec), NEW share, NEW big, NEW small,
           Split(share, big, small), NEW s, NEW m \in Nat, m < Len(A),
           Good(s, m, A, B, S, sec, big, small), NEW t, t = Picks(A, B, share)[s]
    PROVE  Good(t, m + 1, A, B, S, sec, big, small) /\ Extends(t.order, s.order, m)
<1>1. PICK o, a, b, U : GoodPick(s, m, o, a, b, U, A, B, S, sec, big, small)
  BY Zenon DEF Good
<1>2. o \in Seq(Rid) /\ a \in Nat /\ b \in Nat /\ IsState(s, o, a, b) /\ a + b = m
  BY <1>1 DEF GoodPick
<1>3. PickedIn(o, U, m, S, sec) /\ HeadIn(A, a, U) /\ HeadIn(B, b, U) /\ Clocks(a, b, big, small)
  BY <1>1 DEF GoodPick
<1>4. big \in Nat /\ small \in Nat /\ share.big = big /\ share.of - share.big = small
  BY DEF Split
<1>5. /\ InSections(S, sec)
      /\ IsLane(A, S, sec) /\ IsLane(B, S, sec) /\ m < Len(B)
  BY DEF Lanes
<1>6. PICK x, y : IsPick(x, A, o) /\ IsPick(y, B, o)
  BY DEF IsPick
<1>7. Taken(t, A, B, share, s)
  BY DEF Taken
<1>8. /\ PickA(a, b, share)  => IsState(t, Append(o, x), a + 1, b)
      /\ ~PickA(a, b, share) => IsState(t, Append(o, y), a, b + 1)
  BY <1>2, <1>6, <1>7, PickFacts
<1>9. PickA(a, b, share) <=> (a + 1) * small <= (b + 1) * big
  BY <1>4 DEF PickA
<1>10. CASE PickA(a, b, share)
  <2>1. PICK u, V : IsAppend(u, V, o, U, x)
    BY DEF IsAppend
  <2>2. /\ PickedIn(u, V, m + 1, S, sec) /\ HeadIn(A, a + 1, V) /\ u \in Seq(Rid)
        /\ Extends(u, o, m) /\ U \subseteq V
    BY <1>2, <1>3, <1>5, <1>6, <2>1, PickedStep
  <2>3. HeadIn(B, b, V)
    BY <1>3, <2>2, HeadGrows
  <2>4. Clocks(a + 1, b, big, small)
    BY <1>2, <1>3, <1>4, <1>9, <1>10, ClocksStep
  <2>5. IsState(t, u, a + 1, b)
    BY <1>8, <1>10, <2>1 DEF IsAppend
  <2>6. (a + 1) + b = m + 1 /\ a + 1 \in Nat
    BY <1>2
  <2>7. GoodPick(t, m + 1, u, a + 1, b, V, A, B, S, sec, big, small)
    BY <1>2, <2>2, <2>3, <2>4, <2>5, <2>6 DEF GoodPick
  <2>8. Extends(t.order, s.order, m)
    BY <1>2, <2>2, <2>5 DEF IsState
  <2> QED
    BY <2>7, <2>8, Zenon DEF Good
<1>11. CASE ~PickA(a, b, share)
  <2>1. PICK u, V : IsAppend(u, V, o, U, y)
    BY DEF IsAppend
  <2>2. /\ PickedIn(u, V, m + 1, S, sec) /\ HeadIn(B, b + 1, V) /\ u \in Seq(Rid)
        /\ Extends(u, o, m) /\ U \subseteq V
    BY <1>2, <1>3, <1>5, <1>6, <2>1, PickedStep
  <2>3. HeadIn(A, a, V)
    BY <1>3, <2>2, HeadGrows
  <2>4. Clocks(a, b + 1, big, small)
    BY <1>2, <1>3, <1>4, <1>9, <1>11, ClocksStep
  <2>5. IsState(t, u, a, b + 1)
    BY <1>8, <1>11, <2>1 DEF IsAppend
  <2>6. a + (b + 1) = m + 1 /\ b + 1 \in Nat
    BY <1>2
  <2>7. GoodPick(t, m + 1, u, a, b + 1, V, A, B, S, sec, big, small)
    BY <1>2, <2>2, <2>3, <2>4, <2>5, <2>6 DEF GoodPick
  <2>8. Extends(t.order, s.order, m)
    BY <1>2, <2>2, <2>5 DEF IsState
  <2> QED
    BY <2>7, <2>8, Zenon DEF Good
<1> QED
  BY <1>10, <1>11

(* The states of the stride scheduler, one pick at a time.                 *)
LEMMA AfterFacts ==
    ASSUME NEW A, NEW B, NEW S, NEW sec, Lanes(A, B, S, sec), NEW share, NEW f, IsAfter(f, A, B, share)
    PROVE  /\ Len(A) \in Nat /\ f[0] = Start
           /\ \A m \in 0..(Len(A) - 1) : f[m + 1] = Picks(A, B, share)[f[m]]
<1>1. Enumerates(A, S)
  BY DEF Lanes, IsLane
<1>2. Len(A) \in Nat
  BY <1>1, EnumFacts
<1>3. PICK step : step = Picks(A, B, share)
  OBVIOUS
<1>4. f = [n \in 0..Len(A) |-> IF n = 0 THEN Start ELSE step[f[n - 1]]]
  BY <1>3, Zenon DEF IsAfter
<1>5. \A n \in 0..Len(A) : f[n] = IF n = 0 THEN Start ELSE step[f[n - 1]]
  BY <1>4, Zenon
<1>6. ASSUME NEW m \in 0..(Len(A) - 1) PROVE f[m + 1] = step[f[m]]
  <2>1. m + 1 \in 0..Len(A) /\ m + 1 # 0 /\ (m + 1) - 1 = m
    BY <1>2
  <2> QED
    BY <2>1, <1>5
<1> QED
  BY <1>2, <1>3, <1>5, <1>6

(* Every state of the stride scheduler is good, and its order is a prefix  *)
(* of every later one.                                                     *)
LEMMA GoodAll ==
    ASSUME NEW A, NEW B, NEW S, NEW sec, Lanes(A, B, S, sec), NEW share, NEW big, NEW small,
           Split(share, big, small), NEW f, IsAfter(f, A, B, share), NEW n \in 0..Len(A)
    PROVE  /\ Good(f[n], n, A, B, S, sec, big, small)
           /\ \A m \in 0..n : Extends(f[n].order, f[m].order, m)
<1>1. /\ Len(A) \in Nat /\ f[0] = Start
      /\ \A m \in 0..(Len(A) - 1) : f[m + 1] = Picks(A, B, share)[f[m]]
  BY AfterFacts
<1> DEFINE OK(k) == /\ Good(f[k], k, A, B, S, sec, big, small)
                    /\ \A m \in 0..k : Extends(f[k].order, f[m].order, m)
           Bad == {k \in 0..Len(A) : ~OK(k)}
<1> SUFFICES ASSUME Bad # {} PROVE FALSE
  OBVIOUS
<1>2. PICK k \in Bad : \A j \in Bad : k <= j
  <2>1. Bad \in SUBSET Nat
    BY <1>1
  <2> HIDE DEF Bad
  <2> QED
    BY <2>1, LeastNat
<1>3. k \in 0..Len(A) /\ ~OK(k)
  OBVIOUS
<1>4. k # 0
  <2>1. big \in Nat /\ small \in Nat
    BY DEF Split
  <2>2. Good(f[0], 0, A, B, S, sec, big, small)
    BY <1>1, <2>1, GoodStart
  <2>3. \A m \in 0..0 : Extends(f[0].order, f[m].order, m)
    BY DEF Extends
  <2> QED
    BY <2>2, <2>3, <1>3
<1>5. PICK j \in 0..(Len(A) - 1) : k = j + 1
  BY <1>1, <1>3, <1>4
<1>6. OK(j)
  <2>1. j \in 0..Len(A) /\ ~(k <= j)
    BY <1>1, <1>5
  <2>2. j \notin Bad
    <3> HIDE DEF Bad
    <3> QED
      BY <1>2, <2>1
  <2> QED
    BY <2>1, <2>2
<1>7. f[k] = Picks(A, B, share)[f[j]]
  BY <1>1, <1>5
<1>8. Good(f[k], k, A, B, S, sec, big, small) /\ Extends(f[k].order, f[j].order, j)
  <2>1. j \in Nat /\ j < Len(A)
    BY <1>1
  <2>2. Good(f[j], j, A, B, S, sec, big, small)
    BY <1>6
  <2> HIDE DEF OK, Bad
  <2> QED
    BY <2>1, <2>2, <1>5, <1>7, GoodStep
<1>9. ASSUME NEW m \in 0..k PROVE Extends(f[k].order, f[m].order, m)
  <2>1. CASE m = k
    BY <2>1 DEF Extends
  <2>2. CASE m \in 0..j
    <3>1. Extends(f[j].order, f[m].order, m)
      BY <1>6, <2>2
    <3> HIDE DEF OK, Bad
    <3> QED
      BY <1>8, <2>2, <3>1 DEF Extends
  <2> QED
    BY <2>1, <2>2, <1>5
<1> QED
  BY <1>3, <1>8, <1>9

PickedFirst(t, n) == {t[p] : p \in 1..n}

(* Of the first n of t, a are picks of one lane and b of the other.        *)
Fronts(t, n, a, b, A, B, big, small) ==
    /\ a \in Nat /\ b \in Nat /\ a + b = n /\ Clocks(a, b, big, small)
    /\ HeadIn(A, a, PickedFirst(t, n)) /\ HeadIn(B, b, PickedFirst(t, n))

Interleaved(t, A, B, S, sec, big, small) ==
    /\ IsLane(t, S, sec) /\ Len(t) = Len(A)
    /\ \A n \in 0..Len(A) : \E a, b : Fronts(t, n, a, b, A, B, big, small)

(* What the stride scheduler returns: a permutation in section order whose *)
(* every prefix covers its share of both lanes.                            *)
LEMMA StrideFacts ==
    ASSUME NEW A, NEW B, NEW S, NEW sec, Lanes(A, B, S, sec), NEW share, NEW big, NEW small,
           Split(share, big, small), NEW t, t = StrideInterleave(A, B, share)
    PROVE  Interleaved(t, A, B, S, sec, big, small)
<1>1. /\ S \in SUBSET Rid /\ Enumerates(A, S) /\ Enumerates(B, S)
  BY DEF Lanes, InSections, IsLane
<1>2. A \in Seq(Rid) /\ B \in Seq(Rid)
  <2>1. A \in Seq(S) /\ B \in Seq(S)
    BY <1>1, EnumFacts
  <2> QED
    BY <1>1, <2>1
<1>3. PICK N : N = Len(A)
  OBVIOUS
<1>4. PICK f : IsAfter(f, A, B, share) /\ t = f[N].order
  BY <1>2, <1>3, StrideAfter
<1>5. N \in Nat
  BY <1>2, <1>3
<1>6. ASSUME NEW n \in 0..N
      PROVE  Good(f[n], n, A, B, S, sec, big, small)
  BY <1>3, <1>4, GoodAll
<1>7. ASSUME NEW n \in 0..N PROVE Extends(t, f[n].order, n)
  <2>1. N \in 0..Len(A)
    BY <1>3, <1>5
  <2>2. \A m \in 0..N : Extends(f[N].order, f[m].order, m)
    BY <1>4, <2>1, GoodAll
  <2> QED
    BY <1>4, <2>2
<1>8. ASSUME NEW n \in 0..N
      PROVE  \E o, a, b, U : GoodPick(f[n], n, o, a, b, U, A, B, S, sec, big, small) /\ f[n].order = o
  <2>1. PICK o, a, b, U : GoodPick(f[n], n, o, a, b, U, A, B, S, sec, big, small)
    BY <1>6, Zenon DEF Good
  <2>2. f[n].order = o
    BY <2>1 DEF GoodPick, IsState
  <2> QED
    BY <2>1, <2>2, Zenon
<1>9. IsLane(t, S, sec) /\ Len(t) = N
  <2>1. N \in 0..N
    BY <1>5
  <2>2. PICK o, a, b, U : GoodPick(f[N], N, o, a, b, U, A, B, S, sec, big, small) /\ f[N].order = o
    BY <1>8, <2>1, Zenon
  <2>3. PickedIn(t, U, N, S, sec)
    BY <1>4, <2>2 DEF GoodPick
  <2>4. Enumerates(t, U) /\ U \in SUBSET S /\ Len(t) = N
    BY <2>3 DEF PickedIn
  <2>5. \A p, l \in 1..N : p < l => sec[t[p]] <= sec[t[l]]
    BY <2>3 DEF PickedIn
  <2>6. IsFiniteSet(S) /\ Cardinality(S) = N /\ Cardinality(U) = N
    BY <1>1, <1>3, <2>4, EnumLength
  <2>7. U = S
    BY <2>4, <2>6, FS_Subset
  <2> QED
    BY <2>4, <2>5, <2>7 DEF IsLane
<1>10. ASSUME NEW n \in 0..N PROVE \E a, b : Fronts(t, n, a, b, A, B, big, small)
  <2>1. PICK o, a, b, U : GoodPick(f[n], n, o, a, b, U, A, B, S, sec, big, small) /\ f[n].order = o
    BY <1>8, Zenon
  <2>2. /\ a \in Nat /\ b \in Nat /\ a + b = n /\ PickedIn(o, U, n, S, sec)
        /\ HeadIn(A, a, U) /\ HeadIn(B, b, U) /\ Clocks(a, b, big, small)
    BY <2>1 DEF GoodPick
  <2>3. Enumerates(o, U) /\ Len(o) = n
    BY <2>2 DEF PickedIn
  <2>4. /\ \A p \in 1..n : o[p] \in U
        /\ \A x \in U : \E p \in 1..n : o[p] = x
    BY <2>3, EnumFacts
  <2>5. \A p \in 1..n : t[p] = o[p]
    BY <1>7, <2>1 DEF Extends
  <2>6. U = PickedFirst(t, n)
    BY <2>4, <2>5 DEF PickedFirst
  <2>7. Fronts(t, n, a, b, A, B, big, small)
    BY <2>2, <2>6 DEF Fronts
  <2> QED
    BY <2>7, Zenon
<1> QED
  BY <1>3, <1>9, <1>10 DEF Interleaved

-----------------------------------------------------------------------------
(* Roles.                                                                  *)
Earlier(q, hit, i, j) ==
    j < i /\ Claims(hit, q[j]) /\ ClaimKey(q[j]) = ClaimKey(q[i])

(* Who is deprioritized: a claimant with an earlier claimant of its key.   *)
LEMMA DeprioritizedFacts ==
    ASSUME NEW q, NEW S, NEW hit, NEW ts, Queued(q, S, hit, ts), NEW i \in 1..Len(q)
    PROVE  /\ Deprioritized(q, hit, i) <=>
                Claims(hit, q[i]) /\ \E j \in 1..Len(q) : Earlier(q, hit, i, j)
           /\ SectionsOf(q, hit)[q[i]] = IF hit[q[i]] > CheckThreshold THEN 0
                                         ELSE IF Deprioritized(q, hit, i) THEN 2 ELSE 1
           /\ Claims(hit, q[i]) => ~(hit[q[i]] > CheckThreshold)
<1>1. Len(q) \in Nat /\ hit[q[i]] \in Nat /\ CheckThreshold \in Nat
  BY QueuedFacts, OrderAssumption
<1>2. \A j : j \in 1..(i - 1) <=> j \in 1..Len(q) /\ j < i
  BY <1>1
<1>3. Deprioritized(q, hit, i) <=>
         Claims(hit, q[i]) /\ \E j \in 1..Len(q) : Earlier(q, hit, i, j)
  BY <1>2, Zenon DEF Deprioritized, Earlier
<1>4. SectionsOf(q, hit)[q[i]] = Section(q, hit, i)
  BY RoleFacts
<1>5. Section(q, hit, i) = IF hit[q[i]] > CheckThreshold THEN 0
                           ELSE IF Deprioritized(q, hit, i) THEN 2 ELSE 1
  BY SectionFacts
<1>6. Claims(hit, q[i]) => ~(hit[q[i]] > CheckThreshold)
  BY <1>1 DEF Claims
<1> QED
  BY <1>3, <1>4, <1>5, <1>6, Zenon

(* Among those that claim the prefix of a deprioritized request is one     *)
(* that is not deprioritized: the first.                                   *)
LEMMA FirstClaimant ==
    ASSUME NEW q, NEW S, NEW hit, NEW ts, Queued(q, S, hit, ts), NEW i \in 1..Len(q),
           Deprioritized(q, hit, i)
    PROVE  \E j \in 1..Len(q) : /\ Claims(hit, q[j]) /\ ClaimKey(q[j]) = ClaimKey(q[i])
                                /\ ~Deprioritized(q, hit, j)
<1>1. PICK J : J = {j \in 1..Len(q) : Claims(hit, q[j]) /\ ClaimKey(q[j]) = ClaimKey(q[i])}
  OBVIOUS
<1>2. Claims(hit, q[i])
  BY DEF Deprioritized
<1>3. J \in SUBSET Nat /\ J # {}
  BY <1>1, <1>2
<1>4. PICK j \in J : \A l \in J : j <= l
  BY <1>3, LeastNat
<1>5. j \in 1..Len(q) /\ Claims(hit, q[j]) /\ ClaimKey(q[j]) = ClaimKey(q[i])
  BY <1>1
<1>6. ~Deprioritized(q, hit, j)
  <2> SUFFICES ASSUME Deprioritized(q, hit, j) PROVE FALSE
    OBVIOUS
  <2>1. PICK l \in 1..Len(q) : Earlier(q, hit, j, l)
    BY <1>5, DeprioritizedFacts
  <2>2. l < j /\ Claims(hit, q[l]) /\ ClaimKey(q[l]) = ClaimKey(q[j])
    BY <2>1 DEF Earlier
  <2>3. l \in J
    BY <1>1, <1>5, <2>2
  <2>4. j <= l
    BY <1>4, <2>3
  <2> QED
    BY <2>2, <2>4, <1>5
<1> QED
  BY <1>5, <1>6

(* Sorting by section does not change who is the pioneer of a key: the     *)
(* first claimant stays ahead of the others.                               *)
LEMMA RolesKept ==
    ASSUME NEW q, NEW S, NEW hit, NEW ts, Queued(q, S, hit, ts),
           NEW t, Queued(t, S, hit, ts), IsLane(t, S, SectionsOf(q, hit))
    PROVE  SectionsOf(t, hit) = SectionsOf(q, hit)
<1>1. PICK sec : sec = SectionsOf(q, hit)
  OBVIOUS
<1>2. /\ \A i \in 1..Len(q) : q[i] \in S
      /\ \A x \in S : \E i \in 1..Len(q) : q[i] = x
      /\ \A i, j \in 1..Len(q) : q[i] = q[j] => i = j
      /\ Len(q) \in Nat
  BY QueuedFacts
<1>3. /\ \A i \in 1..Len(t) : t[i] \in S
      /\ \A x \in S : \E i \in 1..Len(t) : t[i] = x
      /\ \A i, j \in 1..Len(t) : t[i] = t[j] => i = j
      /\ Len(t) \in Nat
  BY QueuedFacts
<1>4. \A k, l \in 1..Len(t) : k < l => sec[t[k]] <= sec[t[l]]
  BY <1>1 DEF IsLane
<1>5. ASSUME NEW p \in 1..Len(t) PROVE SectionsOf(t, hit)[t[p]] = sec[t[p]]
  <2>1. PICK i \in 1..Len(q) : q[i] = t[p]
    BY <1>2, <1>3
  <2>2. sec[t[p]] = IF hit[t[p]] > CheckThreshold THEN 0
                    ELSE IF Deprioritized(q, hit, i) THEN 2 ELSE 1
    BY <1>1, <2>1, DeprioritizedFacts
  <2>3. SectionsOf(t, hit)[t[p]] = IF hit[t[p]] > CheckThreshold THEN 0
                                   ELSE IF Deprioritized(t, hit, p) THEN 2 ELSE 1
    BY DeprioritizedFacts
  <2>4. ASSUME Deprioritized(q, hit, i) PROVE Deprioritized(t, hit, p)
    <3>1. Claims(hit, t[p])
      BY <2>1, <2>4 DEF Deprioritized
    <3>2. PICK j \in 1..Len(q) : /\ Claims(hit, q[j]) /\ ClaimKey(q[j]) = ClaimKey(q[i])
                                 /\ ~Deprioritized(q, hit, j)
      BY <2>4, FirstClaimant
    <3>3. sec[q[j]] = 1
      BY <1>1, <3>2, DeprioritizedFacts
    <3>4. sec[t[p]] = 2
      <4>1. ~(hit[t[p]] > CheckThreshold)
        BY <3>1, DeprioritizedFacts
      <4> QED
        BY <4>1, <2>2, <2>4
    <3>5. PICK l \in 1..Len(t) : t[l] = q[j]
      BY <1>2, <1>3
    <3>6. l < p
      <4>1. sec[t[l]] = 1
        BY <3>3, <3>5
      <4>2. l # p /\ ~(p < l)
        BY <1>4, <3>4, <4>1
      <4> QED
        BY <4>2
    <3>7. Earlier(t, hit, p, l)
      BY <3>2, <3>5, <3>6, <2>1 DEF Earlier
    <3> QED
      BY <3>1, <3>7, DeprioritizedFacts
  <2>5. ASSUME Deprioritized(t, hit, p) PROVE Deprioritized(q, hit, i)
    <3> SUFFICES ASSUME ~Deprioritized(q, hit, i) PROVE FALSE
      OBVIOUS
    <3>1. Claims(hit, t[p])
      BY <2>5 DEF Deprioritized
    <3>2. PICK l \in 1..Len(t) : Earlier(t, hit, p, l)
      BY <2>5, DeprioritizedFacts
    <3>3. l < p /\ Claims(hit, t[l]) /\ ClaimKey(t[l]) = ClaimKey(t[p])
      BY <3>2 DEF Earlier
    <3>4. PICK j \in 1..Len(q) : q[j] = t[l]
      BY <1>2, <1>3
    <3>5. i # j
      BY <1>3, <2>1, <3>3, <3>4
    <3>6. ~(j < i)
      <4>1. j < i => Earlier(q, hit, i, j)
        BY <3>3, <3>4, <2>1 DEF Earlier
      <4> QED
        BY <4>1, <3>1, <2>1, DeprioritizedFacts
    <3>7. Earlier(q, hit, j, i)
      BY <3>1, <3>3, <3>4, <3>5, <3>6, <2>1 DEF Earlier
    <3>8. Deprioritized(q, hit, j)
      BY <3>3, <3>4, <3>7, DeprioritizedFacts
    <3>9. sec[t[l]] = 2
      BY <1>1, <3>3, <3>4, <3>8, DeprioritizedFacts
    <3>10. sec[t[p]] = 1
      <4>1. ~(hit[t[p]] > CheckThreshold)
        BY <3>1, DeprioritizedFacts
      <4> QED
        BY <4>1, <2>2
    <3> QED
      BY <1>4, <3>3, <3>9, <3>10
  <2> QED
    BY <2>2, <2>3, <2>4, <2>5
<1>6. SectionsOf(t, hit) \in [S -> {0, 1, 2}] /\ sec \in [S -> {0, 1, 2}]
  BY <1>1, RoleFacts
<1>7. PICK g : g = SectionsOf(t, hit)
  OBVIOUS
<1>8. \A x \in S : g[x] = sec[x]
  BY <1>3, <1>5, <1>7
<1>9. g = sec
  BY <1>6, <1>7, <1>8
<1> QED
  BY <1>1, <1>7, <1>9

-----------------------------------------------------------------------------
(* The arithmetic of the stride bounds.                                    *)
LEMMA Multiply ==
    \A x, y, k \in Nat : /\ x * k \in Nat /\ (x + y) * k = x * k + y * k /\ k * (x + y) = k * x + k * y
                         /\ x * k = k * x /\ (x <= y => x * k <= y * k)
OBVIOUS

(* Integer division.                                                       *)
LEMMA Quotient ==
    \A d, k \in Nat : k > 0 => d \div k \in Nat /\ (d \div k) * k <= d /\ d < (d \div k + 1) * k
OBVIOUS

(* How far lane B has been read after n picks.                             *)
LEMMA SmallBound ==
    ASSUME NEW a \in Nat, NEW b \in Nat, NEW big \in Nat, NEW small \in Nat, small > 0,
           Clocks(a, b, big, small), NEW k \in Nat, k > 0,
           a + b = (k * (big + small)) \div small
    PROVE  k <= b
<1> SUFFICES ASSUME b + 1 <= k PROVE FALSE
  OBVIOUS
<1>1. PICK d \in Nat : d = k * (big + small)
  BY Multiply
<1>2. PICK n \in Nat : n = d \div small /\ d < (n + 1) * small
  BY <1>1, Quotient
<1>3. n + 1 = a + (b + 1)
  BY <1>1, <1>2
<1>4. PICK u \in Nat : u = a * small
  BY Multiply
<1>5. PICK v \in Nat : v = (b + 1) * small
  BY Multiply
<1>6. PICK w \in Nat : w = (b + 1) * big
  BY Multiply
<1>7. (n + 1) * small = u + v
  BY <1>3, <1>4, <1>5, Multiply
<1>8. u <= w
  <2>1. CASE a = 0
    BY <2>1, <1>4
  <2>2. CASE a * small <= (b + 1) * big
    BY <2>2, <1>4, <1>6
  <2> QED
    BY <2>1, <2>2 DEF Clocks
<1>9. (b + 1) * (big + small) = w + v
  BY <1>5, <1>6, Multiply
<1>10. (b + 1) * (big + small) <= k * (big + small)
  BY Multiply
<1>11. w + v <= d
  BY <1>1, <1>9, <1>10
<1>12. d < u + v
  BY <1>2, <1>7
<1> QED
  BY <1>8, <1>11, <1>12

(* How far lane A has been read after n picks.                             *)
LEMMA BigBound ==
    ASSUME NEW a \in Nat, NEW b \in Nat, NEW big \in Nat, NEW small \in Nat, big > 0,
           Clocks(a, b, big, small), NEW k \in Nat, k > 0,
           a + b = (k * (big + small) + big - 1) \div big
    PROVE  k <= a
<1> SUFFICES ASSUME a + 1 <= k PROVE FALSE
  OBVIOUS
<1>1. PICK d \in Nat : d = k * (big + small)
  BY Multiply
<1>2. PICK e \in Nat : e = d + big - 1
  OBVIOUS
<1>3. PICK n \in Nat : n = e \div big /\ e < (n + 1) * big
  BY <1>2, Quotient
<1>4. n = a + b
  BY <1>1, <1>2, <1>3
<1>5. PICK u \in Nat : u = a * big
  BY Multiply
<1>6. PICK v \in Nat : v = b * big
  BY Multiply
<1>7. PICK w \in Nat : w = (a + 1) * small
  BY Multiply
<1>8. (n + 1) * big = (u + v) + big
  <2>1. n * big = u + v
    BY <1>4, <1>5, <1>6, Multiply
  <2>2. (n + 1) * big = n * big + 1 * big
    BY Multiply
  <2> QED
    BY <2>1, <2>2
<1>9. d <= u + v
  BY <1>2, <1>3, <1>8
<1>10. (a + 1) * (big + small) = (u + big) + w
  <2>1. (a + 1) * big = u + 1 * big
    BY <1>5, Multiply
  <2>2. (a + 1) * (big + small) = (a + 1) * big + (a + 1) * small
    BY Multiply
  <2> QED
    BY <2>1, <2>2, <1>7
<1>11. (a + 1) * (big + small) <= k * (big + small)
  BY Multiply
<1>12. (u + big) + w <= d
  BY <1>1, <1>10, <1>11
<1>13. v = 0 \/ v < w
  <2>1. CASE b = 0
    BY <2>1, <1>6
  <2>2. CASE b * big < (a + 1) * small
    BY <2>2, <1>6, <1>7
  <2> QED
    BY <2>1, <2>2 DEF Clocks
<1> QED
  BY <1>9, <1>12, <1>13

-----------------------------------------------------------------------------
IsWithin(lane, order, k, n) ==
    ToSet(SubSeq(lane, 1, k)) \subseteq ToSet(SubSeq(order, 1, Min({n, Len(order)})))

(* The members of a prefix of a permutation.                               *)
LEMMA PrefixSet ==
    ASSUME NEW S, NEW t, Enumerates(t, S), NEW n \in 0..Len(t)
    PROVE  ToSet(SubSeq(t, 1, n)) = PickedFirst(t, n)
<1>1. t \in Seq(S) /\ Len(t) \in Nat
  BY EnumFacts
<1>2. PICK u : u = SubSeq(t, 1, n)
  OBVIOUS
<1>3. DOMAIN u = 1..n /\ \A i \in 1..n : u[i] = t[i]
  BY <1>1, <1>2
<1> QED
  BY <1>2, <1>3 DEF ToSet, PickedFirst

(* When the first k of a lane lie within the first n of an order.          *)
LEMMA WithinFacts ==
    ASSUME NEW S, NEW lane, Enumerates(lane, S), NEW order, Enumerates(order, S), Len(order) = Len(lane),
           NEW k \in 1..Len(lane), NEW n \in Nat, n <= Len(order) => HeadIn(lane, k, PickedFirst(order, n))
    PROVE  IsWithin(lane, order, k, n)
<1>1. /\ Len(lane) \in Nat /\ \A i \in 1..Len(lane) : lane[i] \in S
      /\ \A x \in S : \E i \in 1..Len(order) : order[i] = x
  BY EnumFacts
<1>2. PICK N \in Nat : N = Len(order)
  BY <1>1
<1>3. PICK m : m = Min({n, N}) /\ m = IF n <= N THEN n ELSE N
  <2>1. n \in Int /\ N \in Int
    OBVIOUS
  <2> QED
    BY <2>1, MinOfTwo, Zenon
<1>4. m \in 0..Len(order) /\ k \in 0..Len(lane)
  BY <1>1, <1>2, <1>3
<1>5. ToSet(SubSeq(order, 1, m)) = PickedFirst(order, m) /\ ToSet(SubSeq(lane, 1, k)) = PickedFirst(lane, k)
  BY <1>4, PrefixSet
<1>6. PickedFirst(lane, k) \subseteq PickedFirst(order, m)
  <2> SUFFICES ASSUME NEW i \in 1..k PROVE lane[i] \in PickedFirst(order, m)
    BY DEF PickedFirst
  <2>1. i \in 1..Len(lane) /\ i <= k
    BY <1>1
  <2>2. CASE n <= N
    BY <2>1, <2>2, <1>2, <1>3 DEF HeadIn
  <2>3. CASE ~(n <= N)
    <3>1. m = Len(order)
      BY <2>3, <1>2, <1>3
    <3>2. lane[i] \in S
      BY <1>1, <2>1
    <3> QED
      BY <3>1, <3>2, <1>1 DEF PickedFirst
  <2> QED
    BY <2>2, <2>3
<1> QED
  BY <1>2, <1>3, <1>5, <1>6, Zenon DEF IsWithin

(* The bounds of both lanes, from the clocks.                              *)
LEMMA InterleavedBounds ==
    ASSUME NEW A, NEW B, NEW S, NEW sec, Lanes(A, B, S, sec), NEW big \in Nat, NEW small \in Nat,
           NEW t, Interleaved(t, A, B, S, sec, big, small), NEW k \in 1..Len(A)
    PROVE  /\ small > 0 => IsWithin(B, t, k, (k * (big + small)) \div small)
           /\ big > 0   => IsWithin(A, t, k, (k * (big + small) + big - 1) \div big)
<1>1. /\ Enumerates(A, S) /\ Enumerates(B, S) /\ Len(A) = Len(B)
      /\ Enumerates(t, S) /\ Len(t) = Len(A)
  BY DEF Lanes, IsLane, Interleaved
<1>2. Len(A) \in Nat
  BY <1>1, EnumFacts
<1>3. \A n \in 0..Len(A) : \E a, b : Fronts(t, n, a, b, A, B, big, small)
  BY DEF Interleaved
<1>4. PICK d \in Nat : d = k * (big + small)
  BY Multiply
<1>5. ASSUME small > 0 PROVE IsWithin(B, t, k, d \div small)
  <2>1. PICK n \in Nat : n = d \div small
    BY <1>5, Quotient
  <2>2. ASSUME n <= Len(t) PROVE HeadIn(B, k, PickedFirst(t, n))
    <3>1. PICK a, b : Fronts(t, n, a, b, A, B, big, small)
      BY <1>1, <1>2, <1>3, <2>2
    <3>2. a \in Nat /\ b \in Nat /\ a + b = n /\ Clocks(a, b, big, small) /\ HeadIn(B, b, PickedFirst(t, n))
      BY <3>1 DEF Fronts
    <3>3. k <= b
      BY <3>2, <1>4, <1>5, <2>1, SmallBound
    <3> QED
      BY <3>2, <3>3, <1>1, <1>2 DEF HeadIn
  <2> QED
    BY <1>1, <2>1, <2>2, WithinFacts
<1>6. ASSUME big > 0 PROVE IsWithin(A, t, k, (d + big - 1) \div big)
  <2>1. PICK n \in Nat : n = (d + big - 1) \div big
    <3>1. d + big - 1 \in Nat
      BY <1>6
    <3> QED
      BY <1>6, <3>1, Quotient
  <2>2. ASSUME n <= Len(t) PROVE HeadIn(A, k, PickedFirst(t, n))
    <3>1. PICK a, b : Fronts(t, n, a, b, A, B, big, small)
      BY <1>1, <1>2, <1>3, <2>2
    <3>2. a \in Nat /\ b \in Nat /\ a + b = n /\ Clocks(a, b, big, small) /\ HeadIn(A, a, PickedFirst(t, n))
      BY <3>1 DEF Fronts
    <3>3. k <= a
      BY <3>2, <1>4, <1>6, <2>1, BigBound
    <3> QED
      BY <3>2, <3>3, <1>1, <1>2 DEF HeadIn
  <2> QED
    BY <1>1, <2>1, <2>2, WithinFacts
<1> QED
  BY <1>4, <1>5, <1>6

LaneAOf(q, hit, ts, group_major) ==
    IF group_major THEN LaneAByGroup(q, hit, ts) ELSE LaneA(q, hit, ts)

(* What cluster-LPM makes of its lanes: t lists the queue by section, and  *)
(* the lanes get their share of every prefix of it.                        *)
Fair(t, A, B, share) ==
    \A k \in 1..Len(A) :
       /\ share.of - share.big > 0 => IsWithin(B, t, k, (k * share.of) \div (share.of - share.big))
       /\ share.big > 0 => IsWithin(A, t, k, (k * share.of + share.big - 1) \div share.big)

IsShare(share) == share.of \in Nat \ {0} /\ share.big \in 0..share.of

(* With one lane the order is the lane itself.                             *)
LEMMA OneLane ==
    ASSUME NEW S, NEW lane, Enumerates(lane, S), NEW k \in 1..Len(lane), NEW n \in Nat, k <= n
    PROVE  IsWithin(lane, lane, k, n)
<1>1. Len(lane) \in Nat
  BY EnumFacts
<1>2. HeadIn(lane, k, PickedFirst(lane, n))
  BY <1>1 DEF HeadIn, PickedFirst
<1> QED
  BY <1>2, WithinFacts

(* Division of a multiple, rounded down and up.                            *)
LEMMA Whole == \A k, d \in Nat : d > 0 => (k * d) \div d = k /\ (k * d + d - 1) \div d = k
<1> SUFFICES ASSUME NEW k \in Nat, NEW d \in Nat, d > 0
             PROVE  (k * d) \div d = k /\ (k * d + d - 1) \div d = k
  OBVIOUS
<1>1. PICK x \in Nat : x = k * d
  BY Multiply
<1>2. ASSUME NEW n \in Nat, n <= k - 1 PROVE (n + 1) * d <= x
  BY <1>1, <1>2, Multiply
<1>3. ASSUME NEW n \in Nat, k + 1 <= n PROVE x + d <= n * d
  <2>1. (k + 1) * d = x + 1 * d
    BY <1>1, Multiply
  <2>2. (k + 1) * d <= n * d
    BY <1>3, Multiply
  <2>3. n * d \in Nat
    BY Multiply
  <2> QED
    BY <2>1, <2>2, <2>3
<1>4. ASSUME NEW e \in Nat, x <= e, e < x + d PROVE e \div d = k
  <2>1. PICK n \in Nat : n = e \div d /\ n * d <= e /\ e < (n + 1) * d
    BY Quotient
  <2>2. PICK u \in Nat, v \in Nat : u = n * d /\ v = (n + 1) * d
    BY Multiply
  <2>3. ~(n <= k - 1)
    <3>1. n <= k - 1 => v <= x
      BY <1>2, <2>2
    <3> QED
      BY <3>1, <1>4, <2>1, <2>2
  <2>4. ~(k + 1 <= n)
    <3>1. k + 1 <= n => x + d <= u
      BY <1>3, <2>2
    <3> QED
      BY <3>1, <1>4, <2>1, <2>2
  <2> QED
    BY <2>1, <2>3, <2>4
<1>5. x \div d = k
  BY <1>4
<1>6. PICK e \in Nat : e = x + d - 1
  OBVIOUS
<1>7. e \div d = k
  BY <1>4, <1>6
<1> QED
  BY <1>1, <1>5, <1>6, <1>7

(* peek_clpm_sort_inplace, flat or group-major and with any lane share: a  *)
(* permutation in section order that keeps both lane bounds.               *)
LEMMA ClpmFacts ==
    ASSUME NEW q, NEW S, NEW hit, NEW ts, Queued(q, S, hit, ts), NEW share, IsShare(share),
           NEW group_major \in BOOLEAN, NEW A, A = LaneAOf(q, hit, ts, group_major),
           NEW B, B = LaneB(q, hit, ts), NEW t, t = ClpmOrder(q, hit, ts, share, group_major)
    PROVE  /\ IsLane(t, S, SectionsOf(q, hit)) /\ Len(t) = Len(q) /\ Len(A) = Len(q)
           /\ Fair(t, A, B, share)
<1>1. PICK sec : sec = SectionsOf(q, hit)
  OBVIOUS
<1>2. IsLane(A, S, sec) /\ Len(A) = Len(q)
  <2>1. CASE group_major = TRUE
    BY <1>1, <2>1, LaneGFacts DEF LaneAOf
  <2>2. CASE group_major = FALSE
    BY <1>1, <2>2, LaneAFacts DEF LaneAOf
  <2> QED
    BY <2>1, <2>2
<1>3. IsLane(B, S, sec) /\ Len(B) = Len(q)
  BY <1>1, LaneBFacts
<1>4. S \in SUBSET Rid /\ sec \in [S -> {0, 1, 2}]
  BY <1>1, RoleFacts DEF Queued
<1>5. Lanes(A, B, S, sec)
  BY <1>2, <1>3, <1>4 DEF Lanes, InSections
<1>6. Enumerates(A, S) /\ Enumerates(B, S)
  BY <1>2, <1>3 DEF IsLane
<1>7. PICK big \in Nat, small \in Nat, of \in Nat :
         /\ share.big = big /\ share.of = of /\ share.of - share.big = small
         /\ of = big + small /\ of > 0
  BY DEF IsShare
<1>8. t = CASE big = of -> A [] big = 0 -> B [] OTHER -> StrideInterleave(A, B, share)
  BY <1>7, Zenon DEF ClpmOrder, LaneAOf
<1>9. CASE big = of
  <2>1. t = A /\ small = 0
    BY <1>7, <1>8, <1>9
  <2>2. ASSUME NEW k \in 1..Len(A) PROVE IsWithin(A, t, k, (k * of + big - 1) \div big)
    <3>1. (k * of + big - 1) \div big = k
      BY <1>7, <1>9, Whole
    <3>2. IsWithin(A, A, k, k)
      BY <1>6, OneLane
    <3> QED
      BY <2>1, <3>1, <3>2
  <2>3. Fair(t, A, B, share)
    BY <1>7, <2>1, <2>2 DEF Fair
  <2> QED
    BY <1>1, <1>2, <2>1, <2>3
<1>10. CASE big = 0
  <2>1. t = B /\ small = of
    BY <1>7, <1>8, <1>10
  <2>2. ASSUME NEW k \in 1..Len(A) PROVE IsWithin(B, t, k, (k * of) \div small)
    <3>1. (k * of) \div small = k
      BY <1>7, <2>1, Whole
    <3>2. IsWithin(B, B, k, k)
      BY <1>2, <1>3, <1>6, OneLane
    <3> QED
      BY <2>1, <3>1, <3>2
  <2>3. Fair(t, A, B, share)
    BY <1>7, <1>10, <2>1, <2>2 DEF Fair
  <2> QED
    BY <1>1, <1>2, <1>3, <2>1, <2>3
<1>11. CASE big # of /\ big # 0
  <2>1. t = StrideInterleave(A, B, share)
    BY <1>8, <1>11
  <2>2. Split(share, big, small)
    BY <1>7 DEF Split
  <2>3. Interleaved(t, A, B, S, sec, big, small)
    BY <1>5, <2>1, <2>2, StrideFacts
  <2>4. IsLane(t, S, sec) /\ Len(t) = Len(A)
    BY <2>3 DEF Interleaved
  <2>5. ASSUME NEW k \in 1..Len(A)
        PROVE  /\ small > 0 => IsWithin(B, t, k, (k * of) \div small)
               /\ big > 0   => IsWithin(A, t, k, (k * of + big - 1) \div big)
    BY <1>5, <1>7, <2>3, InterleavedBounds
  <2>6. Fair(t, A, B, share)
    BY <1>7, <2>5 DEF Fair
  <2> QED
    BY <1>1, <1>2, <2>4, <2>6
<1> QED
  BY <1>9, <1>10, <1>11

-----------------------------------------------------------------------------
(* The order on pairs.                                                     *)
LEMMA PairLess ==
    ASSUME NEW a \in Int, NEW b \in Int, NEW c \in Int, NEW d \in Int
    PROVE  LexLess(<<a, b>>, <<c, d>>) <=> a < c \/ (a = c /\ b < d)
<1>1. PICK s, t : s = <<a, b>> /\ t = <<c, d>>
  OBVIOUS
<1>2. s \in Tuples(2) /\ t \in Tuples(2) /\ s[1] = a /\ s[2] = b /\ t[1] = c /\ t[2] = d
  BY <1>1 DEF Tuples
<1>3. LexLess(s, t) <=> \E k \in 1..2 : Differs(s, t, k)
  BY <1>2, LexDef
<1>4. Differs(s, t, 1) <=> a < c
  BY <1>2 DEF Differs
<1>5. Differs(s, t, 2) <=> a = c /\ b < d
  BY <1>2 DEF Differs
<1>6. \A k \in 1..2 : k = 1 \/ k = 2
  OBVIOUS
<1>7. 1 \in 1..2 /\ 2 \in 1..2
  OBVIOUS
<1> QED
  BY <1>1, <1>3, <1>4, <1>5, <1>6, <1>7

LpmKey(q, hit) ==
    [i \in DOMAIN q |-> IF Deprioritized(q, hit, i) THEN <<1, 0>> ELSE <<0, -hit[q[i]]>>]

LpmFirst(q, hit, depr, i, j) ==
    \/ LpmBefore(hit[q[i]], depr[i], hit[q[j]], depr[j])
    \/ ~LpmBefore(hit[q[j]], depr[j], hit[q[i]], depr[i]) /\ i < j

KeyFirst(key, i, j) == LexLess(key[i], key[j]) \/ (key[i] = key[j] /\ i < j)

(* The comparison sort of lpm_sort_order and the stock sort, which has one *)
(* infinite key for the deprioritized, give the same order.                *)
LEMMA LpmOrderFacts ==
    ASSUME NEW q, NEW S, NEW hit, NEW ts, Queued(q, S, hit, ts)
    PROVE  /\ LpmOrder(q, hit) = StockLpmOrder(q, hit)
           /\ Enumerates(StockLpmOrder(q, hit), S)
<1>1. /\ Enumerates(q, S) /\ Len(q) \in Nat /\ DOMAIN q = 1..Len(q)
      /\ \A i \in 1..Len(q) : hit[q[i]] \in Nat
  BY QueuedFacts
<1>2. PICK D : D = DOMAIN q
  OBVIOUS
<1>3. PICK key : key = LpmKey(q, hit)
  OBVIOUS
<1>4. PICK depr : depr = [i \in D |-> Deprioritized(q, hit, i)]
  OBVIOUS
<1>5. \A i \in D : depr[i] <=> Deprioritized(q, hit, i)
  BY <1>4, Zenon
<1>6. \A i \in D : key[i] = IF Deprioritized(q, hit, i) THEN <<1, 0>> ELSE <<0, -hit[q[i]]>>
  BY <1>2, <1>3, Zenon DEF LpmKey
<1>7. Keys(key, q, 2)
  <2>1. ASSUME NEW i \in D PROVE key[i] \in Tuples(2)
    <3>1. PICK h \in Int : h = -hit[q[i]]
      BY <1>1, <1>2
    <3>2. <<1, 0>> \in Tuples(2) /\ <<0, h>> \in Tuples(2)
      BY DEF Tuples
    <3>3. key[i] = <<1, 0>> \/ key[i] = <<0, h>>
      BY <1>6, <3>1, Zenon
    <3> QED
      BY <3>2, <3>3
  <2>2. key = [i \in D |-> key[i]]
    BY <1>2, <1>3, Zenon DEF LpmKey
  <2>3. key \in [D -> Tuples(2)]
    BY <2>1, <2>2
  <2> QED
    BY <1>1, <1>2, <2>3 DEF Keys
<1>8. Evaluated(key) = key
  <2>1. key \in Seq(Tuples(2)) /\ Len(key) = Len(q)
    BY <1>1, <1>7, SeqIntro DEF Keys
  <2> QED
    BY <2>1 DEF Evaluated
<1>9. Evaluated(depr) = depr
  <2>1. PICK T : T = {depr[i] : i \in D}
    OBVIOUS
  <2>2. depr \in [1..Len(q) -> T]
    <3>1. depr = [i \in D |-> depr[i]]
      BY <1>4, Zenon
    <3>2. \A i \in D : depr[i] \in T
      BY <2>1, Zenon
    <3> QED
      BY <1>1, <1>2, <3>1, <3>2, Zenon
  <2>3. depr \in Seq(T) /\ Len(depr) = Len(q)
    BY <1>1, <2>2, SeqIntro, Zenon
  <2> QED
    BY <2>3 DEF Evaluated
<1>10. ASSUME NEW i \in D, NEW j \in D PROVE LpmFirst(q, hit, depr, i, j) <=> KeyFirst(key, i, j)
  <2>1. PICK m \in Nat : m = hit[q[i]]
    BY <1>1, <1>2
  <2>2. PICK n \in Nat : n = hit[q[j]]
    BY <1>1, <1>2
  <2>3. i \in Nat /\ j \in Nat
    BY <1>1, <1>2
  <2>4. /\ LpmBefore(m, depr[i], n, depr[j]) <=>
              \/ ~Deprioritized(q, hit, i) /\ Deprioritized(q, hit, j)
              \/ ~Deprioritized(q, hit, i) /\ ~Deprioritized(q, hit, j) /\ m > n
        /\ LpmBefore(n, depr[j], m, depr[i]) <=>
              \/ ~Deprioritized(q, hit, j) /\ Deprioritized(q, hit, i)
              \/ ~Deprioritized(q, hit, j) /\ ~Deprioritized(q, hit, i) /\ n > m
    BY <1>5, Zenon DEF LpmBefore
  <2>5. /\ LexLess(<<1, 0>>, <<1, 0>>) <=> FALSE
        /\ LexLess(<<1, 0>>, <<0, -n>>) <=> FALSE
        /\ LexLess(<<0, -m>>, <<1, 0>>) <=> TRUE
        /\ LexLess(<<0, -m>>, <<0, -n>>) <=> -m < -n
    BY PairLess
  <2>6. LpmFirst(q, hit, depr, i, j) <=>
           LpmBefore(m, depr[i], n, depr[j]) \/ (~LpmBefore(n, depr[j], m, depr[i]) /\ i < j)
    BY <2>1, <2>2, Zenon DEF LpmFirst
  <2>7. key[i] = (IF Deprioritized(q, hit, i) THEN <<1, 0>> ELSE <<0, -m>>)
        /\ key[j] = (IF Deprioritized(q, hit, j) THEN <<1, 0>> ELSE <<0, -n>>)
    BY <1>6, <2>1, <2>2, Zenon
  <2>8. CASE Deprioritized(q, hit, i) /\ Deprioritized(q, hit, j)
    <3>1. key[i] = <<1, 0>> /\ key[j] = <<1, 0>>
      BY <2>7, <2>8
    <3> QED
      BY <3>1, <2>4, <2>5, <2>6, <2>8 DEF KeyFirst
  <2>9. CASE Deprioritized(q, hit, i) /\ ~Deprioritized(q, hit, j)
    <3>1. key[i] = <<1, 0>> /\ key[j] = <<0, -n>>
      BY <2>7, <2>9
    <3>2. <<1, 0>> # <<0, -n>>
      OBVIOUS
    <3> QED
      BY <3>1, <3>2, <2>4, <2>5, <2>6, <2>9 DEF KeyFirst
  <2>10. CASE ~Deprioritized(q, hit, i) /\ Deprioritized(q, hit, j)
    <3>1. key[i] = <<0, -m>> /\ key[j] = <<1, 0>>
      BY <2>7, <2>10
    <3> QED
      BY <3>1, <2>4, <2>5, <2>6, <2>10 DEF KeyFirst
  <2>11. CASE ~Deprioritized(q, hit, i) /\ ~Deprioritized(q, hit, j)
    <3>1. key[i] = <<0, -m>> /\ key[j] = <<0, -n>>
      BY <2>7, <2>11
    <3>2. <<0, -m>> = <<0, -n>> <=> m = n
      OBVIOUS
    <3>3. KeyFirst(key, i, j) <=> m > n \/ (m = n /\ i < j)
      BY <3>1, <3>2, <2>5 DEF KeyFirst
    <3>4. LpmFirst(q, hit, depr, i, j) <=> m > n \/ (~(n > m) /\ i < j)
      BY <2>4, <2>6, <2>11, Zenon
    <3> QED
      BY <3>3, <3>4
  <2> QED
    BY <2>8, <2>9, <2>10, <2>11
<1>11. PICK R1 : R1 = {p \in D \X D : LpmFirst(q, hit, depr, p[1], p[2])}
  OBVIOUS
<1>12. PICK R2 : R2 = {p \in D \X D : KeyFirst(key, p[1], p[2])}
  OBVIOUS
<1>13. R1 = R2
  BY <1>10, <1>11, <1>12
<1>14. LpmOrder(q, hit) = Evaluated(At(q, InOrder(D, R1)))
  BY <1>2, <1>4, <1>9, <1>11, Zenon DEF LpmOrder, LpmFirst
<1>15. StockLpmOrder(q, hit) = SortedBy(q, key)
  BY <1>3, Zenon DEF StockLpmOrder, LpmKey
<1>16. SortedBy(q, key) = Evaluated(At(q, InOrder(D, R2)))
  BY <1>2, <1>8, <1>12, Zenon DEF SortedBy, KeyFirst
<1>17. Enumerates(SortedBy(q, key), S)
  BY <1>1, <1>7, SortFacts
<1> QED
  BY <1>13, <1>14, <1>15, <1>16, <1>17

-----------------------------------------------------------------------------
(* The inductive invariant: nobody waits twice, everybody has a stamp.     *)
TypeOK == queue \in Seq(Rid) /\ stamp \in [ToSet(queue) -> Nat]
NoRepeats == IsInjective(queue)
IInv == TypeOK /\ NoRepeats

(* A queue of the model is one the lemmas above are about.                 *)
LEMMA HitsFacts ==
    ASSUME NEW q, NEW ts, q \in Seq(Rid), IsInjective(q), ts \in [ToSet(q) -> Nat],
           NEW hit \in HitsOf(q)
    PROVE  Queued(q, ToSet(q), hit, ts)
<1>1. PICK S : S = ToSet(q)
  OBVIOUS
<1>2. Enumerates(q, S)
  BY <1>1, EnumSelf
<1>3. S \in SUBSET Rid
  BY <1>1 DEF ToSet
<1>4. IsFiniteSet(S)
  BY <1>2, EnumLength
<1>5. hit \in [S -> Hits]
  BY <1>1, Zenon DEF HitsOf
<1>6. Hits \subseteq Nat
  BY QueueAssumption
<1>7. hit \in [S -> Nat]
  BY <1>5, <1>6
<1> QED
  BY <1>1, <1>2, <1>3, <1>4, <1>7, Zenon DEF Queued

(* Whatever the configuration, sorting permutes the waiting queue.         *)
LEMMA SortedFacts ==
    ASSUME IInv, NEW hit \in HitsOf(queue), NEW share \in Shares
    PROVE  Enumerates(Sorted(hit, share), ToSet(queue))
<1>1. PICK S : S = ToSet(queue)
  OBVIOUS
<1>2. Queued(queue, S, hit, stamp)
  BY <1>1, HitsFacts DEF IInv, TypeOK, NoRepeats
<1>3. Enumerates(queue, S)
  BY <1>2, QueuedFacts
<1>4. IsShare(share)
  BY QueueAssumption, Zenon DEF IsShare
<1>5. ASSUME NEW group_major \in BOOLEAN
      PROVE  Enumerates(ClpmOrder(queue, hit, stamp, share, group_major), S)
  BY <1>2, <1>4, ClpmFacts DEF IsLane
<1>6. Enumerates(LpmOrder(queue, hit), S)
  BY <1>2, LpmOrderFacts
<1>7. Policy \in {"clpm", "clpm_group", "lpm"}
  BY QueueAssumption
<1> QED
  BY <1>1, <1>3, <1>5, <1>6, <1>7 DEF Sorted

(* The empty queue satisfies the invariant.                                *)
LEMMA InitInv == Init => IInv
<1> SUFFICES ASSUME Init PROVE IInv
  OBVIOUS
<1>1. queue = <<>> /\ stamp = [r \in {} |-> 0]
  BY DEF Init
<1>2. ToSet(<<>>) = {}
  BY DEF ToSet
<1>3. queue \in Seq(Rid) /\ stamp \in [ToSet(queue) -> Nat]
  BY <1>1, <1>2
<1>4. IsInjective(<<>>)
  BY DEF IsInjective
<1> QED
  BY <1>1, <1>3, <1>4 DEF IInv, TypeOK, NoRepeats

(* Arrivals keep it.                                                       *)
LEMMA ArriveInv ==
    ASSUME IInv, NEW new \in Seq(Rid), Arrive(new)
    PROVE  IInv'
<1>1. /\ IsInjective(new) /\ ToSet(new) \cap ToSet(queue) = {}
      /\ queue' = queue \o new
  BY DEF Arrive
<1>2. stamp' = [r \in ToSet(queue') |-> IF r \in ToSet(new) THEN Cardinality(Range(stamp)) ELSE stamp[r]]
  BY DEF Arrive
<1>3. queue \in Seq(Rid) /\ IsInjective(queue) /\ stamp \in [ToSet(queue) -> Nat]
  BY DEF IInv, TypeOK, NoRepeats
<1>4. Enumerates(queue, ToSet(queue)) /\ Enumerates(new, ToSet(new))
  BY <1>1, <1>3, EnumSelf
<1>5. PICK S, T, U : S = ToSet(queue) /\ T = ToSet(new) /\ U = S \cup T
  OBVIOUS
<1>6. Enumerates(queue \o new, U)
  <2>1. S \cap T = {}
    BY <1>1, <1>5
  <2> QED
    BY <1>4, <1>5, <2>1, EnumConcat
<1>7. ToSet(queue') = U /\ IsInjective(queue')
  BY <1>1, <1>6 DEF Enumerates
<1>8. queue' \in Seq(Rid)
  BY <1>1, <1>3
<1>9. Cardinality(Range(stamp)) \in Nat
  <2>1. PICK R : R = {stamp[x] : x \in S}
    OBVIOUS
  <2>2. Range(stamp) = R
    BY <1>3, <1>5, <2>1 DEF Range
  <2>3. IsFiniteSet(S)
    BY <1>4, <1>5, EnumLength
  <2>4. IsFiniteSet(R)
    BY <2>1, <2>3, ImageFinite
  <2> QED
    BY <2>2, <2>4, FS_CardinalityType
<1>10. stamp' \in [ToSet(queue') -> Nat]
  <2>1. PICK c \in Nat : c = Cardinality(Range(stamp))
    BY <1>9
  <2>2. stamp' = [r \in U |-> IF r \in T THEN c ELSE stamp[r]]
    BY <1>2, <1>5, <1>7, <2>1
  <2>3. stamp \in [S -> Nat]
    BY <1>3, <1>5
  <2>4. stamp' \in [U -> Nat]
    BY <1>5, <2>2, <2>3
  <2> QED
    BY <1>7, <2>4
<1> QED
  BY <1>7, <1>8, <1>10 DEF IInv, TypeOK, NoRepeats

(* Renumbering the stamps gives every waiting request one.                 *)
LEMMA RenumberedType ==
    ASSUME NEW q, NEW s, IsFiniteSet(ToSet(q))
    PROVE  Renumbered(q, s) \in [ToSet(q) -> Nat]
<1>1. PICK S : S = ToSet(q)
  OBVIOUS
<1>2. ASSUME NEW r \in S PROVE Cardinality({s[x] : x \in {y \in S : s[y] < s[r]}}) \in Nat
  <2>1. PICK Y : Y = {y \in S : s[y] < s[r]}
    OBVIOUS
  <2>2. PICK T : T = {s[x] : x \in Y}
    OBVIOUS
  <2>3. Y \in SUBSET S
    BY <2>1
  <2>4. IsFiniteSet(Y)
    BY <1>1, <2>3, FS_Subset
  <2>5. IsFiniteSet(T)
    BY <2>2, <2>4, ImageFinite
  <2>6. Cardinality(T) \in Nat
    BY <2>5, FS_CardinalityType
  <2> QED
    BY <2>1, <2>2, <2>6
<1>3. Renumbered(q, s) = [r \in S |-> Cardinality({s[x] : x \in {y \in S : s[y] < s[r]}})]
  BY <1>1, Zenon DEF Renumbered
<1> QED
  BY <1>1, <1>2, <1>3, Zenon

(* What is left of a queue whose head was admitted.                        *)
LEMMA SuffixFacts ==
    ASSUME NEW S, NEW t, Enumerates(t, S), NEW n \in Nat, NEW u, u = SubSeq(t, n + 1, Len(t))
    PROVE  u \in Seq(S) /\ IsInjective(u)
<1>1. t \in Seq(S) /\ Len(t) \in Nat /\ \A i, j \in 1..Len(t) : t[i] = t[j] => i = j
  BY EnumFacts
<1>2. u \in Seq(S)
  BY <1>1
<1>3. CASE n < Len(t)
  <2>1. PICK N \in Nat : N = Len(t)
    BY <1>1
  <2>2. DOMAIN u = 1..(N - n)
    BY <1>1, <1>3, <2>1
  <2>3. \A i \in 1..(N - n) : u[i] = t[n + i]
    BY <1>1, <1>3, <2>1
  <2>4. \A i \in 1..(N - n) : n + i \in 1..N
    BY <1>3, <2>1
  <2>5. \A i, j \in 1..(N - n) : u[i] = u[j] => i = j
    <3> SUFFICES ASSUME NEW i \in 1..(N - n), NEW j \in 1..(N - n), u[i] = u[j] PROVE i = j
      OBVIOUS
    <3>1. n + i \in 1..Len(t) /\ n + j \in 1..Len(t) /\ t[n + i] = t[n + j]
      BY <2>1, <2>3, <2>4
    <3>2. n + i = n + j
      BY <1>1, <3>1
    <3> QED
      BY <3>2
  <2> QED
    BY <1>2, <2>2, <2>5 DEF IsInjective
<1>4. CASE ~(n < Len(t))
  <2>1. u = <<>>
    BY <1>1, <1>4
  <2> QED
    BY <1>2, <2>1 DEF IsInjective
<1> QED
  BY <1>3, <1>4

(* A scheduling tick (sort, admit the first n, renumber) keeps it.         *)
LEMMA TickInv ==
    ASSUME IInv, NEW n \in Nat, Tick(n)
    PROVE  IInv'
<1>1. PICK hit \in HitsOf(queue), share \in Shares :
         queue' = SubSeq(Sorted(hit, share), n + 1, Len(queue))
  BY Zenon DEF Tick
<1>2. stamp' = Renumbered(queue', stamp)
  BY DEF Tick
<1>3. PICK t : t = Sorted(hit, share)
  OBVIOUS
<1>4. PICK S : S = ToSet(queue)
  OBVIOUS
<1>5. Enumerates(t, S)
  BY <1>3, <1>4, SortedFacts
<1>6. S \in SUBSET Rid
  BY <1>4 DEF IInv, TypeOK, ToSet
<1>7. PICK u : u = SubSeq(t, n + 1, Len(t)) /\ u = queue'
  <2>1. Enumerates(queue, S)
    BY <1>4, EnumSelf DEF IInv, TypeOK, NoRepeats
  <2>2. Len(queue) = Len(t)
    BY <1>5, <2>1, EnumLength
  <2> QED
    BY <1>1, <1>3, <2>2
<1>8. u \in Seq(S) /\ IsInjective(u)
  BY <1>5, <1>7, SuffixFacts
<1>9. u \in Seq(Rid)
  BY <1>6, <1>8
<1>10. IsFiniteSet(ToSet(u))
  <2>1. Enumerates(u, ToSet(u))
    BY <1>8, EnumSelf
  <2> QED
    BY <2>1, EnumLength
<1>11. Renumbered(u, stamp) \in [ToSet(u) -> Nat]
  BY <1>10, RenumberedType
<1> QED
  BY <1>2, <1>7, <1>8, <1>9, <1>11 DEF IInv, TypeOK, NoRepeats

(* Nobody waits twice and everybody who waits has an arrival stamp, after  *)
(* any arrivals and any number of the sorts of lpm_integration.py.         *)
THEOREM QueueInvariant == Spec => []IInv
<1>1. IInv /\ [Next]_vars => IInv'
  <2> SUFFICES ASSUME IInv, [Next]_vars PROVE IInv'
    OBVIOUS
  <2>1. ASSUME NEW r \in Rid, Arrive(<<r>>) PROVE IInv'
    <3>1. <<r>> \in Seq(Rid)
      OBVIOUS
    <3> QED
      BY <2>1, <3>1, ArriveInv
  <2>2. ASSUME NEW r \in Rid, NEW s \in Rid, Arrive(<<r, s>>) PROVE IInv'
    <3>1. <<r, s>> \in Seq(Rid)
      OBVIOUS
    <3> QED
      BY <2>2, <3>1, ArriveInv
  <2>3. CASE Tick(0)
    BY <2>3, TickInv
  <2>4. CASE Tick(Admit)
    BY <2>4, TickInv, QueueAssumption
  <2>5. CASE UNCHANGED vars
    BY <2>5 DEF vars, IInv, TypeOK, NoRepeats
  <2> QED
    BY <2>1, <2>2, <2>3, <2>4, <2>5 DEF Next
<1> QED
  BY <1>1, InitInv, PTL DEF Spec

(* compute_in_batch_deprioritize and peek_clpm_sort_inplace agree from one *)
(* tick to the next: in the sorted queue the warm come first, then the     *)
(* pioneers, then the deprioritized, and judging the sorted queue again    *)
(* gives every request the same role, for queues of any length, any        *)
(* prompts, hits, lane share and threshold.                                *)
THEOREM QueuePioneersKeepLead == Spec => []PioneersKeepLead
<1>1. IInv => PioneersKeepLead
  <2> SUFFICES ASSUME IInv, NEW hit \in HitsOf(queue), NEW share \in Shares, NEW group_major \in BOOLEAN,
                      NEW order, order = ClpmOrder(queue, hit, stamp, share, group_major),
                      NEW sec, sec = SectionsOf(queue, hit)
               PROVE  /\ IsInjective(order) /\ ToSet(order) = ToSet(queue)
                      /\ \A i, j \in DOMAIN order : i < j => sec[order[i]] <= sec[order[j]]
                      /\ SectionsOf(order, hit) = sec
    BY DEF PioneersKeepLead
  <2>1. PICK S : S = ToSet(queue)
    OBVIOUS
  <2>2. Queued(queue, S, hit, stamp)
    BY <2>1, HitsFacts DEF IInv, TypeOK, NoRepeats
  <2>3. IsShare(share)
    BY QueueAssumption, Zenon DEF IsShare
  <2>4. IsLane(order, S, sec)
    BY <2>2, <2>3, ClpmFacts
  <2>5. Enumerates(order, S) /\ \A i, j \in 1..Len(order) : i < j => sec[order[i]] <= sec[order[j]]
    BY <2>4 DEF IsLane
  <2>6. IsInjective(order) /\ ToSet(order) = ToSet(queue) /\ DOMAIN order = 1..Len(order)
    BY <2>1, <2>5, EnumFacts DEF Enumerates
  <2>7. Queued(order, S, hit, stamp)
    BY <2>2, <2>5 DEF Queued
  <2>8. SectionsOf(order, hit) = sec
    BY <2>2, <2>4, <2>7, RolesKept
  <2> QED
    BY <2>5, <2>6, <2>8
<1> QED
  BY <1>1, QueueInvariant, PTL

(* The stride scheduler of peek_clpm_sort_inplace starves no lane: the     *)
(* first k of a lane are served within the number of places its share      *)
(* promises, for every k and every share.                                  *)
THEOREM QueueLaneBounds == Spec => []LaneBounds
<1>1. ASSUME IInv, NEW hit \in HitsOf(queue), NEW share \in Shares, NEW group_major \in BOOLEAN,
             NEW order, order = ClpmOrder(queue, hit, stamp, share, group_major),
             NEW a, a = LaneAOf(queue, hit, stamp, group_major),
             NEW b, b = LaneB(queue, hit, stamp),
             NEW k \in DOMAIN queue
      PROVE  /\ share.of - share.big > 0 =>
                   IsWithin(b, order, k, (k * share.of) \div (share.of - share.big))
             /\ share.big > 0 =>
                   IsWithin(a, order, k, (k * share.of + share.big - 1) \div share.big)
  <2>1. PICK S : S = ToSet(queue)
    OBVIOUS
  <2>2. Queued(queue, S, hit, stamp)
    BY <1>1, <2>1, HitsFacts DEF IInv, TypeOK, NoRepeats
  <2>3. IsShare(share)
    BY QueueAssumption, Zenon DEF IsShare
  <2>4. Len(a) = Len(queue) /\ Fair(order, a, b, share)
    BY <1>1, <2>2, <2>3, ClpmFacts
  <2>5. DOMAIN queue = 1..Len(queue)
    BY <2>2, QueuedFacts
  <2> QED
    BY <2>4, <2>5, Zenon DEF Fair
<1>2. IInv => LaneBounds
  <2> SUFFICES ASSUME IInv, NEW hit \in HitsOf(queue), NEW share \in Shares, NEW group_major \in BOOLEAN
               PROVE  LET order == ClpmOrder(queue, hit, stamp, share, group_major)
                          a     == IF group_major THEN LaneAByGroup(queue, hit, stamp)
                                                  ELSE LaneA(queue, hit, stamp)
                          b     == LaneB(queue, hit, stamp)
                          small == share.of - share.big
                          Within(lane, k, n) ==
                             ToSet(SubSeq(lane, 1, k)) \subseteq ToSet(SubSeq(order, 1, Min({n, Len(order)})))
                      IN \A k \in DOMAIN queue :
                            /\ small > 0     => Within(b, k, (k * share.of) \div small)
                            /\ share.big > 0 => Within(a, k, (k * share.of + share.big - 1) \div share.big)
    BY Zenon DEF LaneBounds
  <2>1. ASSUME NEW k \in DOMAIN queue
        PROVE  /\ share.of - share.big > 0 =>
                     IsWithin(LaneB(queue, hit, stamp), ClpmOrder(queue, hit, stamp, share, group_major),
                              k, (k * share.of) \div (share.of - share.big))
               /\ share.big > 0 =>
                     IsWithin(LaneAOf(queue, hit, stamp, group_major),
                              ClpmOrder(queue, hit, stamp, share, group_major),
                              k, (k * share.of + share.big - 1) \div share.big)
    BY <1>1
  <2> QED
    BY <2>1, Zenon DEF IsWithin, LaneAOf
<1> QED
  BY <1>2, QueueInvariant, PTL

(* peek_sort_inplace of lpm_integration.py orders every queue exactly as   *)
(* the stock LPM policy of sglang's schedule_policy.py.                    *)
THEOREM QueueLpmIsStock == Spec => []LpmIsStock
<1>1. IInv => LpmIsStock
  <2> SUFFICES ASSUME IInv, NEW hit \in HitsOf(queue) PROVE LpmOrder(queue, hit) = StockLpmOrder(queue, hit)
    BY DEF LpmIsStock
  <2>1. PICK S : S = ToSet(queue)
    OBVIOUS
  <2>2. Queued(queue, S, hit, stamp)
    BY <2>1, HitsFacts DEF IInv, TypeOK, NoRepeats
  <2> QED
    BY <2>2, LpmOrderFacts
<1> QED
  BY <1>1, QueueInvariant, PTL

-----------------------------------------------------------------------------
(* Groups.                                                                 *)
AtMost(s, t) == LexLess(s, t) \/ s = t

(* A tuple between two that agree on the first c numbers agrees with them. *)
LEMMA LexBetween ==
    ASSUME NEW m \in Nat, NEW s \in Tuples(m), NEW t \in Tuples(m), NEW u \in Tuples(m),
           AtMost(s, t), AtMost(t, u), NEW c \in 0..m, \A k \in 1..c : s[k] = u[k]
    PROVE  \A k \in 1..c : t[k] = s[k]
<1>1. \A k \in 1..m : s[k] \in Int /\ t[k] \in Int /\ u[k] \in Int
  BY LexDef
<1>2. PICK Bad : Bad = {k \in 1..c : t[k] # s[k]}
  OBVIOUS
<1> SUFFICES ASSUME Bad # {} PROVE FALSE
  BY <1>2
<1>3. Bad \in SUBSET Nat
  BY <1>2
<1>4. PICK k \in Bad : \A j \in Bad : k <= j
  BY <1>3, LeastNat
<1>5. k \in 1..c /\ k \in 1..m /\ t[k] # s[k]
  BY <1>2
<1>6. \A j \in 1..(k - 1) : t[j] = s[j] /\ s[j] = u[j]
  <2> SUFFICES ASSUME NEW j \in 1..(k - 1) PROVE t[j] = s[j] /\ s[j] = u[j]
    OBVIOUS
  <2>1. j \in 1..c /\ ~(k <= j)
    BY <1>5
  <2>2. j \notin Bad
    BY <1>4, <2>1
  <2> QED
    BY <1>2, <2>1, <2>2
<1>7. LexLess(s, t)
  BY <1>5 DEF AtMost
<1>8. PICK d \in 1..m : Differs(s, t, d)
  BY <1>7, LexDef
<1>9. s[k] < t[k]
  BY <1>1, <1>5, <1>6, <1>8 DEF Differs
<1>10. Differs(u, t, k)
  BY <1>5, <1>6, <1>9 DEF Differs
<1>11. LexLess(u, t)
  BY <1>5, <1>10, LexDef
<1> QED
  BY <1>11, LexTotal DEF AtMost

(* Groups are equivalence classes: a member of my group has my group, my   *)
(* depth and my cluster size.                                              *)
LEMMA SameGroup ==
    ASSUME NEW q, NEW S, NEW hit, NEW ts, Queued(q, S, hit, ts), NEW i \in 1..Len(q),
           NEW j \in Group(q, hit, i)
    PROVE  /\ Group(q, hit, j) = Group(q, hit, i)
           /\ Section(q, hit, j) = Section(q, hit, i) /\ Depth(q, q[j]) = Depth(q, q[i])
           /\ ClusterSize(q, q[j]) = ClusterSize(q, q[i])
<1>1. CASE i = j
  BY <1>1
<1>2. CASE i # j
  <2>1. j \in 1..Len(q)
    BY GroupFacts
  <2>2. PICK r \in S, s \in S : r = q[i] /\ s = q[j]
    BY <2>1, QueuedFacts
  <2>3. Section(q, hit, j) = Section(q, hit, i) /\ s \in Cluster(q, r) /\ Depth(q, s) = Depth(q, r)
    BY <1>2, <2>1, <2>2, GroupFacts
  <2>4. PICK d \in Nat : d = Depth(q, r)
    BY DepthFacts
  <2>5. d # 0 /\ Shared(r, s) >= d
    BY <2>3, <2>4, ClusterFacts
  <2>6. \A x \in S : x \in Rid
    BY QueuedFacts
  <2>7. Shared(r, s) = Shared(s, r) /\ Shared(r, s) \in Nat
    BY <2>6, SharedUltrametric
  <2>8. d <= Shared(r, s) /\ d <= Shared(s, r)
    BY <2>5, <2>7
  <2>9. ASSUME NEW x \in S PROVE Shared(r, x) >= d <=> Shared(s, x) >= d
    <3>1. Shared(r, x) \in Nat /\ Shared(s, x) \in Nat
      BY <2>6, SharedFacts
    <3>2. d <= Shared(s, r) /\ d <= Shared(r, x) => d <= Shared(s, x)
      BY <2>6, SharedUltrametric
    <3>3. d <= Shared(r, s) /\ d <= Shared(s, x) => d <= Shared(r, x)
      BY <2>6, SharedUltrametric
    <3> QED
      BY <2>8, <3>1, <3>2, <3>3
  <2>10. Cluster(q, s) = Cluster(q, r)
    <3>1. \A x : x \in Cluster(q, r) <=> x \in S /\ Shared(r, x) >= d
      BY <2>4, <2>5, ClusterFacts
    <3>2. \A x : x \in Cluster(q, s) <=> x \in S /\ Shared(s, x) >= d
      BY <2>3, <2>4, <2>5, ClusterFacts
    <3> QED
      BY <2>9, <3>1, <3>2
  <2>11. r \in Cluster(q, s)
    BY <2>3, <2>4, <2>5, <2>8, <2>7, ClusterFacts
  <2>12. ASSUME NEW l \in 1..Len(q) PROVE l \in Group(q, hit, j) <=> l \in Group(q, hit, i)
    <3>1. CASE l = i
      <4>1. i \in Group(q, hit, j)
        BY <1>2, <2>1, <2>2, <2>3, <2>11, GroupFacts
      <4>2. i \in Group(q, hit, i)
        BY GroupFacts
      <4> QED
        BY <3>1, <4>1, <4>2
    <3>2. CASE l = j
      <4>1. j \in Group(q, hit, j)
        BY <2>1, GroupFacts
      <4> QED
        BY <3>2, <4>1
    <3>3. CASE l # i /\ l # j
      <4>1. l \in Group(q, hit, i) <=>
              /\ Section(q, hit, l) = Section(q, hit, i) /\ q[l] \in Cluster(q, r)
              /\ Depth(q, q[l]) = Depth(q, r)
        BY <3>3, <2>2, GroupFacts
      <4>2. l \in Group(q, hit, j) <=>
              /\ Section(q, hit, l) = Section(q, hit, j) /\ q[l] \in Cluster(q, s)
              /\ Depth(q, q[l]) = Depth(q, s)
        BY <3>3, <2>1, <2>2, GroupFacts
      <4> QED
        BY <4>1, <4>2, <2>3, <2>10
    <3> QED
      BY <3>1, <3>2, <3>3
  <2>13. Group(q, hit, i) \in SUBSET (1..Len(q)) /\ Group(q, hit, j) \in SUBSET (1..Len(q))
    BY <2>1, GroupFacts
  <2>14. Group(q, hit, j) = Group(q, hit, i)
    BY <2>12, <2>13
  <2> QED
    BY <2>2, <2>3, <2>10, <2>14 DEF ClusterSize
<1> QED
  BY <1>1, <1>2

(* The first four numbers of the group-major key identify the group.       *)
LEMMA GroupKey ==
    ASSUME NEW q, NEW S, NEW hit, NEW ts, Queued(q, S, hit, ts), NEW key, key = KeyG(q, hit, ts),
           NEW i \in 1..Len(q), NEW j \in 1..Len(q)
    PROVE  j \in Group(q, hit, i) <=> \A k \in 1..4 : key[j][k] = key[i][k]
<1>1. ASSUME NEW l \in 1..Len(q)
      PROVE  /\ key[l][1] = Section(q, hit, l)
             /\ key[l][2] = -(Depth(q, q[l]) * ClusterSize(q, q[l]))
             /\ key[l][3] = Min({ts[q[n]] : n \in Group(q, hit, l)})
             /\ key[l][4] = Min(Group(q, hit, l))
  <2>1. GroupPart(key, q, hit, ts, l)
    BY KeyGFacts
  <2> QED
    BY <2>1, Zenon DEF GroupPart
<1>2. ASSUME j \in Group(q, hit, i) PROVE \A k \in 1..4 : key[j][k] = key[i][k]
  <2>1. /\ Group(q, hit, j) = Group(q, hit, i)
        /\ Section(q, hit, j) = Section(q, hit, i) /\ Depth(q, q[j]) = Depth(q, q[i])
        /\ ClusterSize(q, q[j]) = ClusterSize(q, q[i])
    BY <1>2, SameGroup
  <2>2. key[j][1] = key[i][1]
    BY <1>1, <2>1
  <2>3. key[j][2] = key[i][2]
    BY <1>1, <2>1, Zenon
  <2>4. key[j][3] = key[i][3]
    BY <1>1, <2>1, Zenon
  <2>5. key[j][4] = key[i][4]
    BY <1>1, <2>1, Zenon
  <2>6. \A k \in 1..4 : k = 1 \/ k = 2 \/ k = 3 \/ k = 4
    OBVIOUS
  <2> QED
    BY <2>2, <2>3, <2>4, <2>5, <2>6, Zenon
<1>3. ASSUME key[j][4] = key[i][4] PROVE j \in Group(q, hit, i)
  <2>1. PICK m : m = Min(Group(q, hit, i)) /\ m = Min(Group(q, hit, j))
    BY <1>1, <1>3
  <2>2. m \in Group(q, hit, i) /\ m \in Group(q, hit, j)
    BY <2>1, GroupMins
  <2>3. Group(q, hit, m) = Group(q, hit, i) /\ Group(q, hit, m) = Group(q, hit, j)
    BY <2>2, SameGroup
  <2>4. j \in Group(q, hit, j)
    BY GroupFacts
  <2> QED
    BY <2>3, <2>4
<1>4. 4 \in 1..4
  OBVIOUS
<1> QED
  BY <1>2, <1>3, <1>4

(* A finite set of numbers without a gap.                                  *)
LEMMA NoGap ==
    ASSUME NEW P \in SUBSET Nat, IsFiniteSet(P), P # {},
           \A a, c \in P : \A b \in Nat : a < b /\ b < c => b \in P
    PROVE  Max(P) - Min(P) = Cardinality(P) - 1
<1>1. P \in SUBSET Int
  OBVIOUS
<1>2. PICK lo \in P, hi \in P : lo = Min(P) /\ hi = Max(P) /\ \A i \in P : lo <= i /\ i <= hi
  BY <1>1, MaxMinFacts
<1>3. P = lo..hi
  <2>1. ASSUME NEW b \in lo..hi PROVE b \in P
    <3>1. b \in Nat /\ (b = lo \/ b = hi \/ (lo < b /\ b < hi))
      OBVIOUS
    <3> QED
      BY <3>1, <1>2
  <2>2. ASSUME NEW b \in P PROVE b \in lo..hi
    BY <1>2
  <2> QED
    BY <2>1, <2>2
<1>4. lo \in Int /\ hi \in Int /\ lo <= hi
  BY <1>2
<1>5. Cardinality(lo..hi) = hi - lo + 1
  BY <1>4, FS_Interval
<1> QED
  BY <1>2, <1>3, <1>4, <1>5

(* The group-major lane A of peek_clpm_sort_inplace never splits a group:  *)
(* the members of a group stand next to each other, for queues of any      *)
(* length and any prompts.                                                 *)
THEOREM QueueGroupsContiguous == Spec => []GroupsContiguous
<1>1. ASSUME IInv, NEW hit \in HitsOf(queue), NEW order, order = LaneAByGroup(queue, hit, stamp),
             NEW i \in DOMAIN queue, NEW places,
             places = {CHOOSE p \in DOMAIN order : order[p] = queue[j] : j \in Group(queue, hit, i)}
      PROVE  Max(places) - Min(places) = Cardinality(places) - 1
  <2>1. PICK S : S = ToSet(queue)
    OBVIOUS
  <2>2. Queued(queue, S, hit, stamp)
    BY <1>1, <2>1, HitsFacts DEF IInv, TypeOK, NoRepeats
  <2>3. PICK key : key = KeyG(queue, hit, stamp)
    OBVIOUS
  <2>4. order = SortedBy(queue, key)
    BY <1>1, <2>3, Zenon DEF KeyG, LaneAByGroup
  <2>5. Keys(key, queue, 6)
    BY <2>2, <2>3, KeyGFacts
  <2>6. Enumerates(queue, S) /\ Len(queue) \in Nat /\ DOMAIN queue = 1..Len(queue)
    BY <2>2, QueuedFacts
  <2>7. PICK is : IsSort(order, is, queue, key)
    BY <2>4, <2>5, <2>6, SortFacts
  <2>8. Enumerates(order, S) /\ Len(order) = Len(queue)
    BY <2>4, <2>5, <2>6, SortFacts
  <2>9. PICK N \in Nat : N = Len(queue)
    BY <2>6
  <2>10. DOMAIN order = 1..N
    BY <2>8, <2>9, EnumFacts
  <2>11. /\ \A p \in 1..N : is[p] \in 1..N /\ order[p] = queue[is[p]]
         /\ \A j \in 1..N : \E p \in 1..N : is[p] = j
         /\ \A p, r \in 1..N : is[p] = is[r] => p = r
    <3>1. Enumerates(is, 1..N) /\ Len(is) = N /\ \A p \in 1..N : order[p] = queue[is[p]]
      BY <2>6, <2>7, <2>9 DEF IsSort
    <3>2. PICK D : D = 1..N
      OBVIOUS
    <3>3. Enumerates(is, D)
      BY <3>1, <3>2
    <3>4. PICK M : M = Len(is)
      OBVIOUS
    <3>5. \A p \in 1..M : is[p] \in D
      BY <3>3, <3>4, EnumFacts
    <3>6. \A j \in D : \E p \in 1..M : is[p] = j
      BY <3>3, <3>4, EnumFacts
    <3>7. \A p, r \in 1..M : is[p] = is[r] => p = r
      BY <3>3, <3>4, EnumFacts
    <3> QED
      BY <3>1, <3>2, <3>4, <3>5, <3>6, <3>7
  <2>12. \A j, l \in 1..N : queue[j] = queue[l] => j = l
    BY <2>6, <2>9, EnumFacts
  <2>13. PICK G : G = Group(queue, hit, i)
    OBVIOUS
  <2>14. G \in SUBSET (1..N) /\ i \in G /\ IsFiniteSet(G)
    BY <2>2, <2>6, <2>9, <2>13, GroupFacts
  <2>15. PICK at : at = [j \in G |-> CHOOSE p \in DOMAIN order : order[p] = queue[j]]
    OBVIOUS
  <2>16. places = {at[j] : j \in G}
    BY <1>1, <2>13, <2>15, Zenon
  <2>17. ASSUME NEW j \in G PROVE at[j] \in 1..N /\ is[at[j]] = j
    <3>1. PICK p \in 1..N : is[p] = j
      BY <2>11, <2>14
    <3>2. p \in DOMAIN order /\ order[p] = queue[j]
      BY <2>10, <2>11, <3>1
    <3>3. at[j] = CHOOSE x \in DOMAIN order : order[x] = queue[j]
      BY <2>15, Zenon
    <3>4. at[j] \in DOMAIN order /\ order[at[j]] = queue[j]
      BY <3>2, <3>3, Zenon
    <3>5. at[j] \in 1..N /\ queue[is[at[j]]] = queue[j] /\ is[at[j]] \in 1..N
      BY <2>10, <2>11, <3>4
    <3> QED
      BY <2>12, <2>14, <3>5
  <2>18. \A p \in 1..N : p \in places <=> is[p] \in G
    BY <2>11, <2>16, <2>17
  <2>19. places \in SUBSET (1..N) /\ places # {}
    BY <2>14, <2>16, <2>17
  <2>20. IsFiniteSet(places)
    BY <2>14, <2>16, ImageFinite
  <2>21. ASSUME NEW a \in places, NEW c \in places, NEW b \in Nat, a < b, b < c PROVE b \in places
    <3>1. a \in 1..N /\ b \in 1..N /\ c \in 1..N
      BY <2>19, <2>21
    <3>2. PICK x, y, z : x = is[a] /\ y = is[b] /\ z = is[c]
      OBVIOUS
    <3>3. x \in 1..N /\ y \in 1..N /\ z \in 1..N /\ x \in G /\ z \in G
      BY <2>11, <2>18, <3>1, <3>2
    <3>4. AtMost(key[x], key[y]) /\ AtMost(key[y], key[z])
      BY <2>7, <2>9, <2>21, <3>1, <3>2 DEF IsSort, AtMost
    <3>5. key[x] \in Tuples(6) /\ key[y] \in Tuples(6) /\ key[z] \in Tuples(6)
      BY <2>5, <2>9, <3>3 DEF Keys
    <3>6. \A k \in 1..4 : key[x][k] = key[i][k] /\ key[z][k] = key[i][k]
      BY <2>2, <2>3, <2>6, <2>9, <2>13, <3>3, GroupKey
    <3>7. \A k \in 1..4 : key[x][k] = key[z][k]
      BY <3>6
    <3>8. 6 \in Nat /\ 4 \in 0..6
      OBVIOUS
    <3>9. \A k \in 1..4 : key[y][k] = key[x][k]
      BY <3>4, <3>5, <3>7, <3>8, LexBetween
    <3>10. \A k \in 1..4 : key[y][k] = key[i][k]
      BY <3>6, <3>9
    <3>11. y \in G
      BY <2>2, <2>3, <2>6, <2>9, <2>13, <3>3, <3>10, GroupKey
    <3> QED
      BY <2>18, <3>1, <3>2, <3>11
  <2>22. places \in SUBSET Nat
    BY <2>19
  <2> QED
    BY <2>19, <2>20, <2>21, <2>22, NoGap
<1>2. IInv => GroupsContiguous
  <2> SUFFICES ASSUME IInv, NEW hit \in HitsOf(queue), NEW i \in DOMAIN queue
               PROVE  LET order == LaneAByGroup(queue, hit, stamp)
                          Place(j) == CHOOSE p \in DOMAIN order : order[p] = queue[j]
                          places == {Place(j) : j \in Group(queue, hit, i)}
                      IN Max(places) - Min(places) = Cardinality(places) - 1
    BY Zenon DEF GroupsContiguous
  <2>1. PICK order : order = LaneAByGroup(queue, hit, stamp)
    OBVIOUS
  <2>2. PICK places :
          places = {CHOOSE p \in DOMAIN order : order[p] = queue[j] : j \in Group(queue, hit, i)}
    OBVIOUS
  <2>3. Max(places) - Min(places) = Cardinality(places) - 1
    BY <1>1, <2>1, <2>2
  <2> QED
    BY <2>1, <2>2, <2>3, Zenon
<1> QED
  BY <1>2, QueueInvariant, PTL

=============================================================================
