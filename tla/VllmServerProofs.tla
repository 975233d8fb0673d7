--------------------------- MODULE VllmServerProofs ---------------------------
(***************************************************************************)
(* The block pool and the queue of VllmServer, for any blocks, hashes,     *)
(* requests and workloads: that no block is lost or handed out twice       *)
(* whichever victim selection is in force, that reordering keeps the       *)
(* queue, which victims are chosen, and what the reference counts are.     *)
(***************************************************************************)
EXTENDS VllmServer, OrderingProofs

FreeBlocks(rf) == {b \in Block : rf[b] = 0}
Holders(hd, b) == {r \in Req : b \in ToSet(hd[r])}
In(s, state) == {r \in Req : s[r] = state}

(* The free queue lists the blocks without a holder, and ref_cnt counts    *)
(* the holders.                                                            *)
FreeExact(fr, rf) == Enumerates(fr, FreeBlocks(rf))
RefExact(rf, hd) == \A b \in Block : rf[b] = Cardinality(Holders(hd, b))

(* Only running requests hold blocks, each block once; and a block for     *)
(* every hash of the prompt and one more.                                  *)
HeldExact(hd, s) ==
    \A r \in Req : /\ IsInjective(hd[r])
                   /\ IF s[r] = "running" THEN Len(hd[r]) = Len(BlockHashes[r]) + 1 ELSE hd[r] = <<>>

(* A block is cached in one place.                                         *)
CachedOnce(ca) ==
    /\ \A h \in Hash : IsInjective(ca[h])
    /\ \A g, h \in Hash : g # h => ToSet(ca[g]) \cap ToSet(ca[h]) = {}

(* A running request finds the blocks of its prompt cached.                *)
PromptsCached(ca, hd, s) ==
    \A r \in In(s, "running") :
        \A i \in DOMAIN BlockHashes[r] : hd[r][i] \in ToSet(ca[BlockHashes[r][i]])

QueuesExact(w, ru, s) == Enumerates(w, In(s, "waiting")) /\ Enumerates(ru, In(s, "running"))

IInv ==
    /\ TypeOK
    /\ FreeExact(free, ref) /\ RefExact(ref, held) /\ HeldExact(held, st)
    /\ CachedOnce(cached) /\ PromptsCached(cached, held, st)
    /\ QueuesExact(waiting, running, st)

-----------------------------------------------------------------------------
(* Taking blocks out of the free queue leaves the others, each once.       *)
LEMMA DetachFacts ==
    ASSUME NEW Q, NEW q, Enumerates(q, Q), NEW out, NEW T, T = Q \ ToSet(out)
    PROVE  Enumerates(Detach(q, out), T)
<1>1. PICK I : I = {i \in DOMAIN q : q[i] \notin ToSet(out)}
  OBVIOUS
<1>2. \A i \in DOMAIN q : q[i] \in Q
  BY EnumFacts
<1>3. Enumerates(Subsequence(q, I), T)
  BY <1>1, <1>2, EnumFilter
<1> QED
  BY <1>1, <1>3 DEF Detach

(* The cached prefix of a list of hashes is cached.                        *)
LEMMA PrefixLengthFacts ==
    ASSUME NEW hs \in Seq(Hash), NEW n, n = CachedPrefixLength(hs)
    PROVE  /\ n \in 0..Len(hs)
           /\ \A i \in 1..n : IsCached(hs[i])
<1>1. PICK I : I = {m \in 0..Len(hs) : \A i \in 1..m : IsCached(hs[i])}
  OBVIOUS
<1>2. Len(hs) \in Nat
  OBVIOUS
<1>3. 0 \in I
  BY <1>1, <1>2
<1>4. IsFiniteSet(0..Len(hs))
  BY <1>2, FS_Interval
<1>5. I \in SUBSET (0..Len(hs)) /\ I \in SUBSET Int
  BY <1>1, <1>2
<1>6. IsFiniteSet(I)
  BY <1>4, <1>5, FS_Subset
<1>7. Max(I) \in I
  BY <1>3, <1>5, <1>6, MaxMinFacts
<1>8. n = Max(I)
  BY <1>1 DEF CachedPrefixLength
<1> QED
  BY <1>1, <1>7, <1>8

(* The cached blocks a request finds are those of its first hashes, all    *)
(* different.                                                              *)
LEMMA HitFacts ==
    ASSUME TypeOK, CachedOnce(cached), NEW r \in Req, NEW hit, hit = HitBlocks(r)
    PROVE  /\ hit \in Seq(Block) /\ IsInjective(hit)
           /\ Len(hit) \in Nat /\ Len(hit) <= Len(BlockHashes[r])
           /\ \A i \in 1..Len(hit) : hit[i] \in ToSet(cached[BlockHashes[r][i]])
<1>1. PICK hs : hs = BlockHashes[r]
  OBVIOUS
<1>2. hs \in Seq(Hash) /\ IsInjective(hs)
  BY <1>1, ServerAssumption
<1>3. PICK n : n = CachedPrefixLength(hs)
  OBVIOUS
<1>4. n \in 0..Len(hs) /\ \A i \in 1..n : IsCached(hs[i])
  BY <1>2, <1>3, PrefixLengthFacts
<1>5. n \in Nat /\ Len(hs) \in Nat /\ n <= Len(hs) /\ \A i \in 1..n : i \in 1..Len(hs)
  BY <1>2, <1>4
<1>6. CachedPrefix(r) = SubSeq(hs, 1, n)
  BY <1>1, <1>3 DEF CachedPrefix
<1>7. /\ Len(SubSeq(hs, 1, n)) = n /\ DOMAIN SubSeq(hs, 1, n) = 1..n
      /\ \A i \in 1..n : SubSeq(hs, 1, n)[i] = hs[i]
  BY <1>2, <1>5
<1>8. hit = [i \in 1..n |-> Head(cached[hs[i]])]
  BY <1>6, <1>7 DEF HitBlocks, GetCachedBlock
<1>9. ASSUME NEW i \in 1..n
      PROVE  hs[i] \in Hash /\ hit[i] \in ToSet(cached[hs[i]]) /\ hit[i] \in Block
  <2>1. hs[i] \in Hash
    BY <1>2, <1>5
  <2>2. PICK c : c = cached[hs[i]]
    OBVIOUS
  <2>3. c \in Seq(Block) /\ c # <<>>
    BY <1>4, <2>1, <2>2 DEF TypeOK, IsCached
  <2>4. 1 \in DOMAIN c /\ Head(c) = c[1] /\ c[1] \in Block
    BY <2>3
  <2>5. hit[i] = c[1]
    BY <1>8, <2>2, <2>4
  <2>6. hit[i] \in ToSet(c)
    BY <2>4, <2>5 DEF ToSet
  <2> QED
    BY <2>1, <2>2, <2>4, <2>5, <2>6
<1>10. hit \in [1..n -> Block]
  BY <1>8, <1>9
<1>11. hit \in Seq(Block) /\ Len(hit) = n
  BY <1>5, <1>10, SeqIntro
<1>12. ASSUME NEW i \in 1..n, NEW j \in 1..n, hit[i] = hit[j] PROVE i = j
  <2>1. hs[i] = hs[j]
    BY <1>9, <1>12 DEF CachedOnce
  <2>2. i \in DOMAIN hs /\ j \in DOMAIN hs
    BY <1>2, <1>5
  <2> QED
    BY <1>2, <2>1, <2>2 DEF IsInjective
<1>13. IsInjective(hit)
  <2>1. DOMAIN hit = 1..n
    BY <1>10
  <2> QED
    BY <1>12, <2>1 DEF IsInjective
<1>14. \A i \in 1..Len(hit) : hit[i] \in ToSet(cached[BlockHashes[r][i]])
  BY <1>1, <1>9, <1>11
<1>15. Len(hit) \in Nat /\ Len(hit) <= Len(BlockHashes[r])
  BY <1>1, <1>5, <1>11
<1> QED
  BY <1>11, <1>13, <1>14, <1>15

-----------------------------------------------------------------------------
(* A product of positive numbers is positive.                              *)
LEMMA PositiveProduct == \A a, b \in Nat : a > 0 /\ b > 0 => a * b \in Nat /\ a * b > 0
OBVIOUS

(* A block is worth something exactly when a waiting request wants it.     *)
LEMMA PriorityFacts ==
    ASSUME TypeOK, NEW b \in Block
    PROVE  Priority(b) \in Nat /\ (Priority(b) > 0 <=> WantedAs(b) # {})
<1>1. PICK W : W = WantedAs(b)
  OBVIOUS
<1>2. PICK f : f = [h \in W |-> demand[h] * (IF mode = "cluster" THEN 1 + depth[h] ELSE 1)]
  OBVIOUS
<1>3. PICK I : I = {f[h] : h \in W}
  OBVIOUS
<1>4. W \in SUBSET Hash /\ \A h \in W : demand[h] > 0
  BY <1>1 DEF WantedAs
<1>5. \A h \in W : f[h] \in Nat /\ f[h] > 0
  <2> SUFFICES ASSUME NEW h \in W PROVE f[h] \in Nat /\ f[h] > 0
    OBVIOUS
  <2>1. PICK x : x = IF mode = "cluster" THEN 1 + depth[h] ELSE 1
    OBVIOUS
  <2>2. x \in Nat /\ x > 0 /\ demand[h] \in Nat /\ demand[h] > 0
    BY <1>4, <2>1 DEF TypeOK
  <2>3. f[h] = demand[h] * x
    BY <1>2, <2>1
  <2> QED
    BY <2>2, <2>3, PositiveProduct
<1>6. IsFiniteSet(W)
  BY <1>4, PoolAssumption, FS_Subset
<1>7. f \in Surjection(W, I)
  BY <1>2, <1>3 DEF Surjection
<1>8. IsFiniteSet(I)
  BY <1>6, <1>7, FS_Surjection
<1>9. PICK J : J = I \cup {0}
  OBVIOUS
<1>10. IsFiniteSet(J) /\ J \in SUBSET Int /\ J # {}
  BY <1>3, <1>5, <1>8, <1>9, FS_AddElement
<1>11. Max(J) \in J /\ \A i \in J : i <= Max(J)
  BY <1>10, MaxMinFacts
<1>12. Priority(b) = Max(J)
  <2>1. {0} \cup {demand[h] * (IF mode = "cluster" THEN 1 + depth[h] ELSE 1) : h \in WantedAs(b)} = J
    BY <1>1, <1>2, <1>3, <1>9
  <2> QED
    BY <2>1 DEF Priority
<1>13. Max(J) \in Nat
  BY <1>3, <1>5, <1>9, <1>11
<1>14. CASE W = {}
  BY <1>1, <1>3, <1>9, <1>11, <1>12, <1>13, <1>14
<1>15. CASE W # {}
  <2>1. PICK h : h \in W
    BY <1>15
  <2>2. f[h] \in J /\ f[h] \in Nat /\ f[h] > 0
    BY <1>3, <1>5, <1>9, <2>1
  <2>3. Max(J) > 0
    BY <1>11, <1>13, <2>2
  <2> QED
    BY <1>1, <1>12, <1>13, <1>15, <2>3
<1> QED
  BY <1>14, <1>15

(* The scan cap of the victim selection is a natural number.               *)
LEMMA CapFacts ==
    ASSUME TypeOK, NEW n \in Nat
    PROVE  Cap(n) \in Nat
<1>1. ScanCap[mode] \in Nat /\ MinScanCap \in Nat
  BY PoolAssumption DEF TypeOK
<1>2. Max({4 * n, MinScanCap}) = IF 4 * n >= MinScanCap THEN 4 * n ELSE MinScanCap
  BY <1>1, MaxOfTwo
<1>3. Max({4 * n, MinScanCap}) \in Nat
  BY <1>1, <1>2
<1> QED
  BY <1>1, <1>3 DEF Cap

-----------------------------------------------------------------------------
(* out is n blocks of the queue q, which are the cheapest of its first L   *)
(* if those are enough.                                                    *)
Picks(out, n, q, L, wt) ==
    \E J \in SUBSET (DOMAIN q) :
        /\ Enumerates(out, ElementsAt(q, J)) /\ Len(out) = n
        /\ n <= L => /\ J \in SUBSET (1..L)
                     /\ \A i \in J, j \in (1..L) \ J : Before(wt, q, i, j)

(* The stock popleft_n takes the first n of the free queue.                *)
LEMMA StockPicks ==
    ASSUME NEW Q, NEW q, Enumerates(q, Q), NEW n \in 0..Len(q), NEW L \in 0..Len(q),
           NEW wt, n <= L => \A x \in Q : wt[x] = 0
    PROVE  Picks(StockVictims(q, n), n, q, L, wt)
<1>1. Len(q) \in Nat /\ DOMAIN q = 1..Len(q) /\ \A i \in DOMAIN q : q[i] \in Q
  BY EnumFacts
<1>2. PICK J : J = 1..n
  OBVIOUS
<1>3. J \in SUBSET (DOMAIN q)
  BY <1>1, <1>2
<1>4. PICK T : T = {q[i] : i \in 1..n}
  OBVIOUS
<1>5. Enumerates(SubSeq(q, 1, n), T) /\ Len(SubSeq(q, 1, n)) = n
  BY <1>4, EnumPrefix
<1>6. ASSUME n <= L PROVE J \in SUBSET (1..L) /\ \A i \in J, j \in (1..L) \ J : Before(wt, q, i, j)
  <2>1. J \in SUBSET (1..L)
    BY <1>1, <1>2, <1>6
  <2>2. \A i \in J, j \in (1..L) \ J : i < j /\ q[i] \in Q /\ q[j] \in Q
    BY <1>1, <1>2, <1>3
  <2> QED
    BY <1>6, <2>1, <2>2 DEF Before
<1>7. T = ElementsAt(q, J)
  BY <1>2, <1>4 DEF ElementsAt
<1> QED
  BY <1>3, <1>5, <1>6, <1>7 DEF Picks, StockVictims

(* The scan over 1..L stops when n members of U are found: it finds them   *)
(* all or exactly n, and the first ones.                                   *)
FirstOf(D, U) == \A i, j \in U : i \in D /\ j \notin D => i < j
ScanOf(U, L, n) == {i \in 1..L : Cardinality({j \in U : j < i}) < n}

(* A scan that stops at the n-th useful place has seen the first n of      *)
(* them, or everything.                                                    *)
LEMMA ScanStops ==
    ASSUME NEW L \in Nat, NEW U \in SUBSET (1..L), NEW n \in Nat, NEW D, D = ScanOf(U, L, n),
           NEW c, c = Cardinality(U \cap D)
    PROVE  /\ c \in Nat /\ c <= n
           /\ FirstOf(D, U)
           /\ c < n => D = 1..L
<1>1. PICK below : below = [i \in 1..L |-> {j \in U : j < i}]
  OBVIOUS
<1>2. \A i \in 1..L : below[i] = {j \in U : j < i} /\ below[i] \in SUBSET U
  BY <1>1
<1>3. D = {i \in 1..L : Cardinality(below[i]) < n}
  BY <1>2 DEF ScanOf
<1>4. IsFiniteSet(1..L)
  BY FS_Interval
<1>5. IsFiniteSet(U)
  BY <1>4, FS_Subset
<1>6. \A i \in 1..L : IsFiniteSet(below[i]) /\ Cardinality(below[i]) \in Nat
  BY <1>2, <1>5, FS_Subset, FS_CardinalityType
<1>7. ASSUME NEW i \in 1..L, NEW j \in 1..L, j <= i
      PROVE  Cardinality(below[j]) <= Cardinality(below[i])
  <2>1. \A x \in U : x < j => x < i
    BY <1>7
  <2>2. below[j] \in SUBSET below[i]
    BY <1>2, <2>1
  <2> QED
    BY <1>6, <2>2, FS_Subset
<1>8. \A i \in U : i \in 1..L /\ i \in Int
  OBVIOUS
<1>9. ASSUME NEW i \in U, NEW j \in U, i \in D, j \notin D PROVE i < j
  <2>1. Cardinality(below[i]) < n /\ ~(Cardinality(below[j]) < n)
    BY <1>3, <1>8, <1>9
  <2>2. ~(j <= i)
    BY <1>6, <1>7, <1>8, <2>1
  <2> QED
    BY <1>8, <2>2
<1>10. PICK E : E = U \cap D
  OBVIOUS
<1>11. E \in SUBSET U /\ E \in SUBSET Int /\ IsFiniteSet(E)
  BY <1>5, <1>8, <1>10, FS_Subset
<1>12. c \in Nat
  BY <1>10, <1>11, FS_CardinalityType
<1>13. c <= n
  <2>1. CASE E = {}
    <3>1. c = 0
      BY <1>10, <1>11, <2>1, FS_EmptySet
    <3> QED
      BY <3>1
  <2>2. CASE E # {}
    <3>1. PICK m \in E : \A i \in E : i <= m
      BY <1>11, <2>2, MaxMinFacts
    <3>2. m \in U /\ m \in D /\ m \in 1..L /\ Cardinality(below[m]) < n
      BY <1>3, <1>8, <1>10
    <3>3. PICK F : F = below[m] \cup {m}
      OBVIOUS
    <3>4. m \notin below[m]
      BY <1>2, <3>2
    <3>5. IsFiniteSet(F) /\ Cardinality(F) = Cardinality(below[m]) + 1
      BY <1>6, <3>2, <3>3, <3>4, FS_AddElement
    <3>6. E \in SUBSET F
      <4> SUFFICES ASSUME NEW i \in E PROVE i \in F
        OBVIOUS
      <4>1. i \in U /\ i \in Int /\ m \in Int /\ i <= m
        BY <1>8, <1>11, <3>1
      <4>2. i = m \/ i < m
        BY <4>1
      <4> QED
        BY <1>2, <3>2, <3>3, <4>1, <4>2
    <3>7. Cardinality(E) <= Cardinality(F)
      BY <3>5, <3>6, FS_Subset
    <3> QED
      BY <1>6, <1>10, <1>12, <3>2, <3>5, <3>7
  <2> QED
    BY <2>1, <2>2
<1>14. ASSUME D # 1..L PROVE ~(c < n)
  <2>1. PICK B : B = (1..L) \ D
    OBVIOUS
  <2>2. B \in SUBSET Nat /\ B # {}
    BY <1>3, <1>14, <2>1
  <2>3. PICK i \in B : \A k \in B : i <= k
    BY <2>2, LeastNat
  <2>4. i \in 1..L /\ ~(Cardinality(below[i]) < n)
    BY <1>3, <2>1
  <2>5. below[i] \in SUBSET E
    <3> SUFFICES ASSUME NEW j \in below[i] PROVE j \in E
      OBVIOUS
    <3>1. j \in U /\ j < i /\ j \in 1..L
      BY <1>2, <1>8, <2>4
    <3>2. ~(i <= j)
      BY <2>4, <3>1
    <3>3. j \notin B
      BY <2>3, <3>2
    <3> QED
      BY <1>10, <2>1, <3>1, <3>3
  <2>6. Cardinality(below[i]) <= Cardinality(E)
    BY <1>11, <2>5, FS_Subset
  <2> QED
    BY <1>6, <1>10, <1>12, <2>4, <2>6
<1> QED
  BY <1>9, <1>12, <1>13, <1>14 DEF FirstOf

(* Two disjoint picks from a queue, one after the other.                   *)
LEMMA ConcatPicks ==
    ASSUME NEW Q, NEW q, Enumerates(q, Q), NEW I \in SUBSET (DOMAIN q), NEW K \in SUBSET (DOMAIN q),
           I \cap K = {}, NEW s, Enumerates(s, ElementsAt(q, I)),
           NEW t, Enumerates(t, ElementsAt(q, K)), NEW J, J = I \cup K
    PROVE  Enumerates(s \o t, ElementsAt(q, J)) /\ Len(s \o t) = Len(s) + Len(t)
<1>1. PICK S : S = ElementsAt(q, I)
  OBVIOUS
<1>2. PICK T : T = ElementsAt(q, K)
  OBVIOUS
<1>3. PICK U : U = ElementsAt(q, J)
  OBVIOUS
<1>4. U = S \cup T
  BY <1>1, <1>2, <1>3 DEF ElementsAt
<1>5. S \cap T = {}
  BY <1>1, <1>2 DEF Enumerates, IsInjective, ElementsAt
<1>6. Enumerates(s, S) /\ Enumerates(t, T)
  BY <1>1, <1>2
<1>7. Enumerates(s \o t, U)
  BY <1>4, <1>5, <1>6, EnumConcat
<1>8. s \in Seq(U) /\ t \in Seq(U)
  BY <1>4, <1>6 DEF Enumerates
<1>9. Len(s \o t) = Len(s) + Len(t)
  BY <1>8, ConcatProperties
<1> QED
  BY <1>3, <1>7, <1>9

(* The online hook's selection, whatever the scan cap.                     *)
Window(q, n) == Min({Cap(n), Len(q)})
Priorities == [b \in Block |-> Priority(b)]

(* The online selection hands out n blocks, the cheapest of its window.    *)
LEMMA OnlinePicks ==
    ASSUME TypeOK, NEW Q \in SUBSET Block, NEW q, Enumerates(q, Q), NEW n \in 0..Len(q),
           NEW L, L = Window(q, n), NEW wt, wt = Priorities
    PROVE  Picks(OnlineVictims(q, n), n, q, L, wt)
<1>1. Len(q) \in Nat /\ DOMAIN q = 1..Len(q) /\ \A i \in DOMAIN q : q[i] \in Q
  BY EnumFacts
<1>2. n \in Nat /\ Cap(n) \in Nat
  BY <1>1, CapFacts
<1>3. L = IF Cap(n) <= Len(q) THEN Cap(n) ELSE Len(q)
  BY <1>1, <1>2, MinOfTwo DEF Window
<1>4. L \in 0..Len(q) /\ L \in Nat /\ \A i \in 1..L : i \in DOMAIN q
  BY <1>1, <1>2, <1>3
<1>5. PICK U : U = {i \in 1..L : WantedAs(q[i]) = {}}
  OBVIOUS
<1>6. PICK D : D = ScanOf(U, L, n)
  OBVIOUS
<1>7. PICK c : c = Cardinality(U \cap D)
  OBVIOUS
<1>8. U \in SUBSET (1..L) /\ D \in SUBSET (1..L)
  BY <1>5, <1>6 DEF ScanOf
<1>9. c \in Nat /\ c <= n
  BY <1>2, <1>4, <1>6, <1>7, <1>8, ScanStops
<1>10. FirstOf(D, U)
  BY <1>2, <1>4, <1>6, <1>7, <1>8, ScanStops
<1>11. c < n => D = 1..L
  BY <1>2, <1>4, <1>6, <1>7, <1>8, ScanStops
<1>12. PICK picked : picked = Subsequence(q, U \cap D)
  OBVIOUS
<1>13. PICK aside : aside = Subsequence(q, D \ U)
  OBVIOUS
<1>14. Scan(q, n) = [picked |-> picked, aside |-> aside]
  <2>1. Min({Len(q), Cap(n)}) = L
    <3>1. {Len(q), Cap(n)} = {Cap(n), Len(q)}
      OBVIOUS
    <3> QED
      BY <3>1 DEF Window
  <2> QED
    BY <1>5, <1>6, <1>12, <1>13, <2>1 DEF Scan, ScanOf
<1>15. (U \cap D) \in SUBSET (DOMAIN q) /\ (D \ U) \in SUBSET (DOMAIN q)
  BY <1>4, <1>8
<1>16. Enumerates(picked, ElementsAt(q, U \cap D)) /\ Len(picked) = c
  <2>1. PICK I : I = U \cap D
    OBVIOUS
  <2>2. PICK T : T = ElementsAt(q, I)
    OBVIOUS
  <2>3. Enumerates(picked, T) /\ Len(picked) = Cardinality(I)
    BY <1>12, <1>15, <2>1, <2>2, SubsequenceFacts DEF ElementsAt
  <2> QED
    BY <1>7, <2>1, <2>2, <2>3
<1>17. Len(aside) \in Nat /\ Len(aside) = Cardinality(D \ U)
  <2>1. PICK I : I = D \ U
    OBVIOUS
  <2>2. PICK T : T = ElementsAt(q, I)
    OBVIOUS
  <2>3. Enumerates(aside, T) /\ Len(aside) = Cardinality(I)
    BY <1>13, <1>15, <2>1, <2>2, SubsequenceFacts DEF ElementsAt
  <2> QED
    BY <2>1, <2>3, EnumFacts
<1>18. \A b \in Block : wt[b] = Priority(b) /\ wt[b] \in Nat /\ (wt[b] > 0 <=> WantedAs(b) # {})
  BY PriorityFacts DEF Priorities
<1>19. PICK need : need = n - c
  OBVIOUS
<1>20. need \in Nat
  BY <1>2, <1>9, <1>19
<1>21. OnlineVictims(q, n) = IF (\A h \in Hash : demand[h] = 0) \/ need > Len(aside) THEN StockVictims(q, n)
                            ELSE picked \o SubSeq(Cheapest(aside), 1, need)
  BY <1>14, <1>16, <1>19 DEF OnlineVictims
<1>22. CASE \A h \in Hash : demand[h] = 0
  <2>1. \A x \in Q : wt[x] = 0
    <3> SUFFICES ASSUME NEW x \in Q PROVE wt[x] = 0
      OBVIOUS
    <3>1. WantedAs(x) = {}
      BY <1>22 DEF WantedAs
    <3> QED
      BY <1>18, <3>1
  <2>2. Picks(StockVictims(q, n), n, q, L, wt)
    BY <1>4, <2>1, StockPicks
  <2> QED
    BY <1>21, <1>22, <2>2
<1>23. CASE need > Len(aside)
  <2>1. D = 1..L
    BY <1>2, <1>9, <1>11, <1>17, <1>19, <1>23
  <2>2. IsFiniteSet(1..L) /\ Cardinality(1..L) = L
    BY <1>4, UpTo
  <2>3. (1..L) \cap U = U /\ U \cap D = U
    BY <1>8, <2>1
  <2>4. Cardinality((1..L) \ U) = Cardinality(1..L) - Cardinality((1..L) \cap U)
    BY <2>2, FS_Difference
  <2>5. Len(aside) = L - c
    BY <1>7, <1>17, <2>1, <2>2, <2>3, <2>4
  <2>6. ~(n <= L)
    BY <1>2, <1>4, <1>9, <1>19, <1>23, <2>5
  <2>7. Picks(StockVictims(q, n), n, q, L, wt)
    BY <1>4, <2>6, StockPicks
  <2> QED
    BY <1>21, <1>23, <2>7
<1>24. CASE ~(\A h \in Hash : demand[h] = 0) /\ ~(need > Len(aside))
  <2>1. PICK P : P = D \ U
    OBVIOUS
  <2>2. PICK R : R = {p \in (DOMAIN aside) \X (DOMAIN aside) :
                        \/ Priority(aside[p[1]]) < Priority(aside[p[2]])
                        \/ ~(Priority(aside[p[2]]) < Priority(aside[p[1]])) /\ p[1] < p[2]}
    OBVIOUS
  <2>3. PICK u : u = At(aside, InOrder(DOMAIN aside, R))
    OBVIOUS
  <2>4. Cheapest(aside) = u
    BY <2>2, <2>3 DEF Cheapest, StableSort
  <2>5. PICK T : T = ElementsAt(q, P)
    OBVIOUS
  <2>6. P \in SUBSET (DOMAIN q) /\ aside = Subsequence(q, P)
    BY <1>13, <1>15, <2>1
  <2>7. Enumerates(aside, T)
    BY <2>5, <2>6, SubsequenceFacts DEF ElementsAt
  <2>8. \A i \in DOMAIN aside : aside[i] \in Block
    <3>1. T \in SUBSET Block
      BY <1>1, <2>5, <2>6 DEF ElementsAt
    <3> QED
      BY <2>7, <3>1, EnumFacts
  <2>9. ByWeight(R, aside, wt)
    BY <1>18, <2>2, <2>8 DEF ByWeight
  <2>10. need \in 0..Len(aside)
    BY <1>17, <1>20, <1>24
  <2>11. \A x \in Q : wt[x] \in Nat
    BY <1>18
  <2>12. Lightest(u, need, q, P, wt)
    BY <2>3, <2>6, <2>9, <2>10, <2>11, LightestPlaces
  <2>13. PICK K \in SUBSET P : /\ Enumerates(SubSeq(u, 1, need), ElementsAt(q, K))
                              /\ \A i \in K, j \in P \ K : Before(wt, q, i, j)
    BY <2>12 DEF Lightest
  <2>14. Len(u) = Len(aside)
    BY <2>3, <2>6, <2>9, <2>10, <2>11, LightestPlaces
  <2>15. Enumerates(u, T)
    BY <2>3, <2>5, <2>6, <2>9, <2>10, <2>11, LightestPlaces
  <2>16. Len(SubSeq(u, 1, need)) = need
    BY <2>10, <2>14, <2>15, EnumPrefix
  <2>17. PICK J : J = (U \cap D) \cup K
    OBVIOUS
  <2>18. J \in SUBSET (1..L) /\ J \in SUBSET (DOMAIN q) /\ K \in SUBSET (DOMAIN q) /\ (U \cap D) \cap K = {}
    BY <1>4, <1>8, <2>1, <2>13, <2>17
  <2>19. PICK v : v = SubSeq(u, 1, need)
    OBVIOUS
  <2>20. Enumerates(v, ElementsAt(q, K)) /\ Len(v) = need
    BY <2>13, <2>16, <2>19
  <2>21. PICK I : I = U \cap D
    OBVIOUS
  <2>22. I \in SUBSET (DOMAIN q) /\ I \cap K = {} /\ J = I \cup K /\ Enumerates(picked, ElementsAt(q, I))
    BY <1>15, <1>16, <2>17, <2>18, <2>21
  <2>23. Enumerates(picked \o v, ElementsAt(q, J)) /\ Len(picked \o v) = Len(picked) + Len(v)
    BY <2>18, <2>20, <2>22, ConcatPicks
  <2>24. ASSUME NEW i \in J, NEW j \in (1..L) \ J PROVE Before(wt, q, i, j)
    <3>1. /\ i \in 1..L /\ q[i] \in Block /\ q[j] \in Block
          /\ wt[q[i]] \in Nat /\ wt[q[j]] \in Nat
          /\ (wt[q[i]] > 0 <=> WantedAs(q[i]) # {}) /\ (wt[q[j]] > 0 <=> WantedAs(q[j]) # {})
      BY <1>1, <1>4, <1>18, <2>18
    <3>2. CASE i \in U \cap D
      <4>1. wt[q[i]] = 0
        BY <1>5, <3>1, <3>2
      <4>2. CASE j \in U
        <5>1. j \notin D
          BY <2>17, <4>2
        <5>2. i < j
          BY <1>10, <3>2, <4>2, <5>1 DEF FirstOf
        <5>3. wt[q[j]] = 0
          BY <1>5, <3>1, <4>2
        <5> QED
          BY <4>1, <5>2, <5>3 DEF Before
      <4>3. CASE j \notin U
        <5>1. wt[q[j]] > 0
          BY <1>5, <3>1, <4>3
        <5> QED
          BY <4>1, <5>1 DEF Before
      <4> QED
        BY <4>2, <4>3
    <3>3. CASE i \in K
      <4>1. need # 0
        <5>1. q[i] \in ElementsAt(q, K)
          BY <3>3 DEF ElementsAt
        <5>2. DOMAIN v = 1..need /\ q[i] \in ToSet(v)
          BY <2>20, <5>1 DEF Enumerates
        <5> QED
          BY <5>2 DEF ToSet
      <4>2. D = 1..L
        BY <1>2, <1>9, <1>11, <1>19, <1>20, <4>1
      <4>3. j \in P \ K
        BY <2>1, <2>17, <4>2
      <4> QED
        BY <2>13, <3>3, <4>3
    <3> QED
      BY <2>17, <3>2, <3>3
  <2>25. Len(picked) + need = n
    BY <1>2, <1>9, <1>16, <1>19
  <2>26. Picks(picked \o SubSeq(u, 1, need), n, q, L, wt)
    BY <2>18, <2>23, <2>24, <2>25, <2>19, <2>20 DEF Picks
  <2> QED
    BY <1>21, <1>24, <2>4, <2>26
<1> QED
  BY <1>22, <1>23, <1>24

(* The offline selection.                                                  *)
LEMMA QueueAwarePicks ==
    ASSUME TypeOK, NEW Q \in SUBSET Block, NEW q, Enumerates(q, Q), NEW n \in 0..Len(q)
    PROVE  Picks(PopleftQueueAware(q, n), n, q, Len(q), qref)
<1>1. Len(q) \in Nat /\ DOMAIN q = 1..Len(q) /\ \A i \in DOMAIN q : q[i] \in Q
  BY EnumFacts
<1>2. n \in Nat /\ n <= Len(q) /\ Len(q) \in 0..Len(q)
  BY <1>1
<1>3. \A x \in Q : qref[x] \in Nat
  BY DEF TypeOK
<1>4. PICK Z : Z = {i \in DOMAIN q : qref[q[i]] = 0}
  OBVIOUS
<1>5. PICK P : P = {i \in DOMAIN q : qref[q[i]] > 0}
  OBVIOUS
<1>6. /\ Z \in SUBSET (DOMAIN q) /\ P \in SUBSET (DOMAIN q) /\ Z \cap P = {} /\ Z \cup P = 1..Len(q)
      /\ \A i \in Z : qref[q[i]] = 0
      /\ \A i \in P : qref[q[i]] > 0
  BY <1>1, <1>3, <1>4, <1>5
<1>7. PICK free0 : free0 = Subsequence(q, Z)
  OBVIOUS
<1>8. PICK protected : protected = Subsequence(q, P)
  OBVIOUS
<1>9. Enumerates(free0, ElementsAt(q, Z))
  BY <1>6, <1>7, SubsequenceFacts DEF ElementsAt
<1>10. Enumerates(protected, ElementsAt(q, P))
  BY <1>6, <1>8, SubsequenceFacts DEF ElementsAt
<1>11. PICK R : R = {p \in (DOMAIN protected) \X (DOMAIN protected) :
                       \/ qref[protected[p[1]]] < qref[protected[p[2]]]
                       \/ ~(qref[protected[p[2]]] < qref[protected[p[1]]]) /\ p[1] < p[2]}
  OBVIOUS
<1>12. PICK u : u = At(protected, InOrder(DOMAIN protected, R))
  OBVIOUS
<1>13. PopleftQueueAware(q, n) = IF protected = <<>> THEN StockVictims(q, n)
                                ELSE SubSeq(free0 \o u, 1, n)
  BY <1>4, <1>5, <1>7, <1>8, <1>11, <1>12 DEF PopleftQueueAware, StableSort
<1>14. ByWeight(R, protected, qref)
  BY <1>11 DEF ByWeight
<1>15. Len(free0) \in Nat /\ Len(protected) \in Nat
  BY <1>9, <1>10, EnumFacts
<1>16. 0 \in 0..Len(protected)
  BY <1>15
<1>17. Enumerates(u, ElementsAt(q, P)) /\ Len(u) = Len(protected)
  BY <1>3, <1>6, <1>8, <1>12, <1>14, <1>16, LightestPlaces
<1>18. Len(free0 \o u) = Len(q) /\ Len(free0) + Len(u) = Len(q)
  <2>1. PICK A : A = DOMAIN q
    OBVIOUS
  <2>2. A = Z \cup P
    BY <1>1, <1>6, <2>1
  <2>3. Enumerates(free0 \o u, ElementsAt(q, A)) /\ Len(free0 \o u) = Len(free0) + Len(u)
    <3>1. Z \in SUBSET (DOMAIN q) /\ P \in SUBSET (DOMAIN q) /\ Z \cap P = {}
      BY <1>6
    <3> QED
      BY <1>9, <1>17, <2>2, <3>1, ConcatPicks
  <2>4. ElementsAt(q, A) = Q
    BY <2>1 DEF ElementsAt, Enumerates, ToSet
  <2>5. Len(free0 \o u) = Cardinality(Q) /\ Len(q) = Cardinality(Q)
    BY <2>3, <2>4, EnumLength
  <2> QED
    BY <2>3, <2>5
<1>19. CASE protected = <<>>
  <2>1. P = {}
    <3>1. ElementsAt(q, P) = {}
      BY <1>10, <1>19 DEF Enumerates, ToSet
    <3> QED
      BY <3>1 DEF ElementsAt
  <2>2. ASSUME NEW x \in Q PROVE qref[x] = 0
    <3>1. PICK i \in DOMAIN q : q[i] = x
      BY Zenon DEF Enumerates, ToSet
    <3> QED
      BY <1>1, <1>6, <2>1, <3>1
  <2>3. Picks(StockVictims(q, n), n, q, Len(q), qref)
    BY <1>2, <2>2, StockPicks
  <2> QED
    BY <1>13, <1>19, <2>3
<1>20. free0 \in Seq(Q) /\ u \in Seq(Q)
  <2>1. ElementsAt(q, Z) \in SUBSET Q /\ ElementsAt(q, P) \in SUBSET Q
    BY <1>1, <1>6 DEF ElementsAt
  <2> QED
    BY <1>9, <1>17, <2>1 DEF Enumerates
<1>21. n \in 0..(Len(free0) + Len(u))
  BY <1>2, <1>18
<1>22. CASE protected # <<>> /\ n <= Len(free0)
  <2>1. SubSeq(free0 \o u, 1, n) = SubSeq(free0, 1, n)
    BY <1>20, <1>21, <1>22, PrefixOfConcat
  <2>2. n \in 0..Len(free0)
    BY <1>2, <1>15, <1>22
  <2>3. PICK K \in SUBSET Z : /\ Enumerates(SubSeq(free0, 1, n), ElementsAt(q, K))
                             /\ \A i \in K, j \in Z \ K : i < j
    BY <1>6, <1>7, <2>2, FirstPlaces
  <2>4. Len(SubSeq(free0, 1, n)) = n
    BY <1>9, <2>2, EnumPrefix
  <2>5. ASSUME NEW i \in K, NEW j \in (1..Len(q)) \ K PROVE Before(qref, q, i, j)
    <3>1. qref[q[i]] = 0 /\ (j \in Z \/ j \in P)
      BY <1>6, <2>3
    <3>2. CASE j \in Z
      BY <1>6, <2>3, <3>1, <3>2 DEF Before
    <3>3. CASE j \in P
      BY <1>6, <3>1, <3>3 DEF Before
    <3> QED
      BY <3>1, <3>2, <3>3
  <2>6. K \in SUBSET (DOMAIN q) /\ K \in SUBSET (1..Len(q))
    BY <1>1, <1>6, <2>3
  <2> QED
    BY <1>13, <1>22, <2>1, <2>3, <2>4, <2>5, <2>6 DEF Picks
<1>23. CASE protected # <<>> /\ ~(n <= Len(free0))
  <2>1. PICK m : m = n - Len(free0)
    OBVIOUS
  <2>2. m \in 0..Len(protected) /\ n >= Len(free0) /\ Len(free0) + m = n
    BY <1>2, <1>15, <1>17, <1>18, <1>23, <2>1
  <2>3. SubSeq(free0 \o u, 1, n) = free0 \o SubSeq(u, 1, n - Len(free0))
    BY <1>20, <1>21, <2>2, PrefixOfConcat
  <2>4. Lightest(u, m, q, P, qref)
    BY <1>3, <1>6, <1>8, <1>12, <1>14, <2>2, LightestPlaces
  <2>5. PICK K \in SUBSET P : /\ Enumerates(SubSeq(u, 1, m), ElementsAt(q, K))
                             /\ \A i \in K, j \in P \ K : Before(qref, q, i, j)
    BY <2>4 DEF Lightest
  <2>6. PICK v : v = SubSeq(u, 1, m)
    OBVIOUS
  <2>7. Enumerates(v, ElementsAt(q, K)) /\ Len(v) = m
    BY <1>17, <2>2, <2>5, <2>6, EnumPrefix
  <2>8. PICK J : J = Z \cup K
    OBVIOUS
  <2>9. K \in SUBSET (DOMAIN q) /\ Z \cap K = {} /\ J \in SUBSET (DOMAIN q) /\ J \in SUBSET (1..Len(q))
    BY <1>1, <1>6, <2>5, <2>8
  <2>10. Enumerates(free0 \o v, ElementsAt(q, J)) /\ Len(free0 \o v) = Len(free0) + Len(v)
    <3>1. Z \in SUBSET (DOMAIN q)
      BY <1>6
    <3> QED
      BY <1>9, <2>7, <2>8, <2>9, <3>1, ConcatPicks
  <2>11. ASSUME NEW i \in J, NEW j \in (1..Len(q)) \ J PROVE Before(qref, q, i, j)
    <3>1. j \in P \ K
      BY <1>6, <2>8
    <3>2. CASE i \in Z
      BY <1>6, <3>1, <3>2 DEF Before
    <3>3. CASE i \in K
      BY <2>5, <3>1, <3>3
    <3> QED
      BY <2>8, <3>2, <3>3
  <2> QED
    BY <1>13, <1>23, <2>1, <2>2, <2>3, <2>6, <2>7, <2>9, <2>10, <2>11 DEF Picks
<1> QED
  BY <1>19, <1>22, <1>23

(* The worth of a block and the part of the queue that is looked at, as    *)
(* VictimsAreCheapest has them.                                            *)
Worth ==
    [x \in Block |-> CASE mode \in {"plain", "cluster"} -> Priority(x)
                       [] mode \in {"refs", "engine"}   -> qref[x]
                       [] mode = "off"                  -> 0]

Seen(q, n) == IF mode \in {"plain", "cluster"} THEN Min({Cap(n), Len(q)}) ELSE Len(q)

(* Every selection hands out as many blocks as asked, all different and    *)
(* from the queue, and the cheapest it sees.                               *)
LEMMA VictimPicks ==
    ASSUME TypeOK, NEW Q \in SUBSET Block, NEW q, Enumerates(q, Q), NEW n \in 0..Len(q)
    PROVE  Picks(GetNewBlocks(q, n), n, q, Seen(q, n), Worth)
<1>1. mode \in {"off", "plain", "cluster", "refs", "engine"}
  BY PoolAssumption DEF TypeOK
<1>2. CASE mode \in {"plain", "cluster"}
  <2>1. GetNewBlocks(q, n) = OnlineVictims(q, n)
    BY <1>2 DEF GetNewBlocks
  <2>2. Worth = Priorities
    BY <1>2 DEF Worth, Priorities
  <2>3. Seen(q, n) = Window(q, n)
    BY <1>2 DEF Seen, Window
  <2> QED
    BY <2>1, <2>2, <2>3, OnlinePicks
<1>3. CASE mode \in {"refs", "engine"}
  <2>1. GetNewBlocks(q, n) = PopleftQueueAware(q, n)
    BY <1>3 DEF GetNewBlocks
  <2>2. Worth = qref
    <3>1. qref = [x \in Block |-> qref[x]]
      BY DEF TypeOK
    <3>2. Worth = [x \in Block |-> qref[x]]
      BY <1>3 DEF Worth
    <3> QED
      BY <3>1, <3>2
  <2>3. Seen(q, n) = Len(q)
    BY <1>3 DEF Seen
  <2> QED
    BY <2>1, <2>2, <2>3, QueueAwarePicks
<1>4. CASE mode = "off"
  <2>1. GetNewBlocks(q, n) = StockVictims(q, n)
    BY <1>4 DEF GetNewBlocks
  <2>2. \A x \in Q : Worth[x] = 0
    BY <1>4 DEF Worth
  <2>3. Seen(q, n) = Len(q) /\ Len(q) \in 0..Len(q)
    BY <1>4, EnumFacts DEF Seen
  <2> QED
    BY <2>1, <2>2, <2>3, StockPicks
<1> QED
  BY <1>1, <1>2, <1>3, <1>4

-----------------------------------------------------------------------------
(* What the admission of the first waiting request takes.                  *)
Admission(r, hit, rest, n, out) ==
    /\ r = Head(waiting) /\ hit = HitBlocks(r) /\ rest = Detach(free, hit)
    /\ n = NewBlocks(r) /\ out = GetNewBlocks(rest, n)

(* The blocks hit and out are all different; out is n blocks that were     *)
(* free and are no hits.                                                   *)
Taken(r, hit, rest, n, out, H, O, F) ==
    /\ r \in Req /\ st[r] = "waiting" /\ held[r] = <<>>
    /\ Enumerates(hit, H) /\ H \in SUBSET Block
    /\ Enumerates(rest, F) /\ n \in 0..Len(rest)
    /\ Enumerates(out, O) /\ Len(out) = n /\ O \in SUBSET F
    /\ Len(hit) + n = Len(BlockHashes[r]) + 1
    /\ Picks(out, n, rest, Seen(rest, n), Worth)

(* What an admission takes: the hit blocks out of the free queue, then n   *)
(* victims of the rest.                                                    *)
LEMMA AdmissionFacts ==
    ASSUME IInv, waiting # <<>>, Fits(Head(waiting)),
           NEW r, NEW hit, NEW rest, NEW n, NEW out, Admission(r, hit, rest, n, out),
           NEW H, H = ToSet(hit), NEW O, O = ToSet(out), NEW F, F = FreeBlocks(ref) \ H
    PROVE  Taken(r, hit, rest, n, out, H, O, F)
<1>1. TypeOK /\ CachedOnce(cached) /\ FreeExact(free, ref)
  BY DEF IInv
<1>2. Enumerates(waiting, In(st, "waiting"))
  BY DEF IInv, QueuesExact
<1>3. r \in In(st, "waiting")
  BY <1>2, EnumTail DEF Admission
<1>4. r \in Req /\ st[r] = "waiting"
  BY <1>3 DEF In
<1>5. held[r] = <<>>
  BY <1>4 DEF IInv, HeldExact
<1>6. /\ hit \in Seq(Block) /\ IsInjective(hit)
      /\ Len(hit) \in Nat /\ Len(hit) <= Len(BlockHashes[r])
  BY <1>1, <1>4, HitFacts DEF Admission
<1>7. Enumerates(hit, H)
  BY <1>6, EnumSelf
<1>8. H \in SUBSET Block
  BY <1>6 DEF ToSet
<1>9. PICK B : B = FreeBlocks(ref)
  OBVIOUS
<1>10. Enumerates(free, B) /\ F = B \ ToSet(hit)
  BY <1>1, <1>9 DEF FreeExact
<1>11. Enumerates(rest, F)
  BY <1>10, DetachFacts DEF Admission
<1>12. Len(BlockHashes[r]) \in Nat
  BY <1>4, ServerAssumption
<1>13. n \in Nat /\ Len(hit) + n = Len(BlockHashes[r]) + 1
  BY <1>6, <1>12 DEF Admission, NewBlocks
<1>14. n <= Len(rest)
  <2>1. Len(free) = Cardinality(B) /\ IsFiniteSet(B)
    BY <1>10, EnumLength
  <2>2. Len(rest) = Cardinality(F)
    BY <1>11, EnumLength
  <2>3. Cardinality(B \ H) = Cardinality(B) - Cardinality(B \cap H)
    BY <2>1, FS_Difference
  <2>4. {b \in ToSet(HitBlocks(r)) : ref[b] = 0} = B \cap H
    BY <1>8, <1>9 DEF Admission, FreeBlocks
  <2>5. NewBlocks(r) + Cardinality(B \cap H) <= Len(free)
    BY <2>4 DEF Fits, Admission
  <2>6. IsFiniteSet(B \cap H)
    BY <2>1, FS_Intersection
  <2>7. Cardinality(B \cap H) \in Nat /\ Cardinality(B) \in Nat
    BY <2>1, <2>6, FS_CardinalityType
  <2>8. n = NewBlocks(r)
    BY DEF Admission
  <2> QED
    BY <1>9, <1>13, <2>1, <2>2, <2>3, <2>5, <2>7, <2>8
<1>15. Len(rest) \in Nat /\ n \in 0..Len(rest)
  BY <1>11, <1>13, <1>14, EnumFacts
<1>16. F \in SUBSET Block
  BY <1>9, <1>10 DEF FreeBlocks
<1>17. Picks(out, n, rest, Seen(rest, n), Worth)
  BY <1>1, <1>11, <1>15, <1>16, VictimPicks DEF Admission
<1>18. PICK J \in SUBSET (DOMAIN rest) : Enumerates(out, ElementsAt(rest, J)) /\ Len(out) = n
  BY <1>17 DEF Picks
<1>19. ElementsAt(rest, J) = O
  BY <1>18 DEF Enumerates
<1>20. O \in SUBSET F
  BY <1>11, <1>18, <1>19, EnumFacts DEF ElementsAt
<1>21. Enumerates(out, O) /\ Len(out) = n
  BY <1>18, <1>19
<1> QED
  BY <1>4, <1>5, <1>7, <1>8, <1>11, <1>13, <1>15, <1>17, <1>20, <1>21 DEF Taken

-----------------------------------------------------------------------------
(* An empty server satisfies the invariant.                                *)
LEMMA InitInv == Init => IInv
<1> SUFFICES ASSUME Init PROVE IInv
  OBVIOUS
<1> USE DEF Init, PoolInit
<1>1. Enumerates(free, Block)
  BY PoolAssumption, EnumSetToSeq
<1>2. TypeOK
  <2>1. free \in Seq(Block)
    BY <1>1 DEF Enumerates
  <2>2. 0 \in 0..MaxPreempt
    BY ServerAssumption
  <2> QED
    BY <2>1, <2>2 DEF TypeOK
<1>3. FreeExact(free, ref)
  <2>1. FreeBlocks(ref) = Block
    BY DEF FreeBlocks
  <2> QED
    BY <1>1, <2>1 DEF FreeExact
<1>4. RefExact(ref, held)
  <2>1. \A b \in Block : Holders(held, b) = {}
    BY DEF Holders, ToSet
  <2>2. Cardinality({}) = 0
    BY FS_EmptySet
  <2> QED
    BY <2>1, <2>2 DEF RefExact
<1>5. HeldExact(held, st)
  BY DEF HeldExact, IsInjective
<1>6. CachedOnce(cached)
  BY DEF CachedOnce, IsInjective, ToSet
<1>7. PromptsCached(cached, held, st)
  BY DEF PromptsCached, In
<1>8. QueuesExact(waiting, running, st)
  <2>1. In(st, "waiting") = {} /\ In(st, "running") = {}
    BY DEF In
  <2> QED
    BY <2>1, EnumEmpty DEF QueuesExact
<1> QED
  BY <1>2, <1>3, <1>4, <1>5, <1>6, <1>7, <1>8 DEF IInv

(* The demand of any queue is a function into the numbers.                 *)
LEMMA SyncType ==
    ASSUME NEW w, ToSet(w) \in SUBSET Req, OnlineSync(w), depth \in [Hash -> Nat]
    PROVE  demand' \in [Hash -> Nat] /\ depth' \in [Hash -> Nat]
<1>1. PICK through : through = [h \in Hash |-> {r \in ToSet(w) : h \in ToSet(BlockHashes[r])}]
  OBVIOUS
<1>2. \A h \in Hash : through[h] \in SUBSET Req
  BY <1>1
<1>3. \A h \in Hash : Cardinality(through[h]) \in Nat
  BY <1>2, ServerAssumption, FS_Subset, FS_CardinalityType
<1>4. demand' = [h \in Hash |-> Cardinality(through[h])]
  BY <1>1 DEF OnlineSync
<1>5. PICK I : I = [h \in Hash |-> {n \in 1..Cardinality(Hash) :
                   \E r \in through[h] : n \in DOMAIN BlockHashes[r] /\ BlockHashes[r][n] = h}]
  OBVIOUS
<1>6. depth' = [h \in Hash |-> IF through[h] = {} THEN 0 ELSE Max({depth[h]} \cup I[h])]
  BY <1>1, <1>5 DEF OnlineSync
<1>7. ASSUME NEW h \in Hash PROVE Max({depth[h]} \cup I[h]) \in Nat
  <2>1. Cardinality(Hash) \in Nat
    BY PoolAssumption, FS_CardinalityType
  <2>2. PICK N : N = 1..Cardinality(Hash)
    OBVIOUS
  <2>3. IsFiniteSet(N) /\ N \in SUBSET Nat
    BY <2>1, <2>2, FS_Interval
  <2>4. PICK X : X = {depth[h]} \cup I[h]
    OBVIOUS
  <2>5. I[h] \in SUBSET N /\ depth[h] \in Nat
    BY <1>5, <2>2
  <2>6. IsFiniteSet(I[h])
    BY <2>3, <2>5, FS_Subset
  <2>7. IsFiniteSet(X) /\ X # {} /\ X \in SUBSET Nat
    <3>1. X = I[h] \cup {depth[h]}
      BY <2>4
    <3> QED
      BY <2>3, <2>5, <2>6, <3>1, FS_AddElement
  <2>8. Max(X) \in X
    BY <2>7, MaxMinFacts
  <2> QED
    BY <2>4, <2>7, <2>8
<1> QED
  BY <1>3, <1>4, <1>6, <1>7

(* An arrival keeps it.                                                    *)
LEMMA ArriveInv ==
    ASSUME IInv, NEW r \in Req, Arrive(r)
    PROVE  IInv'
<1>1. /\ st[r] = "new" /\ st' = [st EXCEPT ![r] = "waiting"] /\ waiting' = Append(waiting, r)
      /\ IF mode \in {"plain", "cluster"} THEN OnlineSync(waiting') ELSE UNCHANGED <<demand, depth>>
      /\ UNCHANGED <<mode, free, ref, cached, qref, phase, running, held, preempts>>
  BY DEF Arrive
<1>2. TypeOK
  BY DEF IInv
<1>3. st \in [Req -> {"new", "waiting", "running", "done"}]
  BY <1>2 DEF TypeOK
<1>4. /\ In(st', "waiting") = In(st, "waiting") \cup {r} /\ r \notin In(st, "waiting")
      /\ In(st', "running") = In(st, "running")
  BY <1>1, <1>3 DEF In
<1>5. Enumerates(waiting', In(st', "waiting"))
  BY <1>1, <1>4, EnumAppend DEF IInv, QueuesExact
<1>6. waiting' \in Seq(Req) /\ ToSet(waiting') \in SUBSET Req
  <2>1. In(st', "waiting") \in SUBSET Req
    BY DEF In
  <2> QED
    BY <1>5, <2>1 DEF Enumerates
<1>7. demand' \in [Hash -> Nat] /\ depth' \in [Hash -> Nat]
  <2>1. CASE mode \in {"plain", "cluster"}
    <3>1. OnlineSync(waiting')
      BY <1>1, <2>1
    <3>2. depth \in [Hash -> Nat]
      BY <1>2 DEF TypeOK
    <3> QED
      BY <1>6, <3>1, <3>2, SyncType
  <2>2. CASE ~(mode \in {"plain", "cluster"})
    BY <1>1, <1>2, <2>2 DEF TypeOK
  <2> QED
    BY <2>1, <2>2
<1>8. TypeOK'
  BY <1>1, <1>2, <1>6, <1>7 DEF TypeOK
<1>9. HeldExact(held', st')
  BY <1>1, <1>3 DEF IInv, HeldExact
<1>10. PromptsCached(cached', held', st')
  BY <1>1, <1>4 DEF IInv, PromptsCached
<1>11. QueuesExact(waiting', running', st')
  BY <1>1, <1>4, <1>5 DEF IInv, QueuesExact
<1>12. FreeExact(free', ref') /\ RefExact(ref', held') /\ CachedOnce(cached')
  BY <1>1 DEF IInv
<1> QED
  BY <1>8, <1>9, <1>10, <1>11, <1>12 DEF IInv

-----------------------------------------------------------------------------
(* The new block that is cached under h, if h is a hash the prompt hs has  *)
(* after its first k.                                                      *)
Full(out, k, hs, h) ==
    {out[i] : i \in {i \in DOMAIN out : k + i \in DOMAIN hs /\ hs[k + i] = h}}

Recached(ca, out, k, hs) ==
    [h \in Hash |-> Detach(ca[h], out) \o SetToSeq(Full(out, k, hs, h))]
RecachedSets(cb, ca, O, out, k, hs) ==
    \A h \in Hash : ToSet(cb[h]) = (ToSet(ca[h]) \ O) \cup Full(out, k, hs, h)

(* Evicting the victims' hashes and caching the new ones leaves every      *)
(* block with one hash at most.                                            *)
LEMMA AdmitCached ==
    ASSUME NEW ca, ca \in [Hash -> Seq(Block)], CachedOnce(ca),
           NEW O \in SUBSET Block, NEW out, Enumerates(out, O),
           NEW k \in Nat, NEW hs \in Seq(Hash),
           NEW cb, cb = Recached(ca, out, k, hs)
    PROVE  cb \in [Hash -> Seq(Block)] /\ CachedOnce(cb) /\ RecachedSets(cb, ca, O, out, k, hs)
<1>1. \A h \in Hash : Full(out, k, hs, h) \in SUBSET O
  BY EnumFacts DEF Full
<1>2. \A h \in Hash : ca[h] \in Seq(Block) /\ IsInjective(ca[h])
  BY DEF CachedOnce
<1>3. ASSUME NEW h \in Hash
      PROVE  /\ Enumerates(cb[h], (ToSet(ca[h]) \ O) \cup Full(out, k, hs, h))
             /\ cb[h] \in Seq(Block)
             /\ ToSet(cb[h]) = (ToSet(ca[h]) \ O) \cup Full(out, k, hs, h)
             /\ IsInjective(cb[h])
  <2>1. Enumerates(ca[h], ToSet(ca[h])) /\ ToSet(ca[h]) \in SUBSET Block
    <3>1. PICK c : c = ca[h]
      OBVIOUS
    <3>2. c \in Seq(Block) /\ IsInjective(c)
      BY <1>2, <3>1
    <3>3. Enumerates(c, ToSet(c))
      BY <3>2, EnumSelf
    <3>4. ToSet(c) \in SUBSET Block
      BY <3>2 DEF ToSet
    <3> QED
      BY <3>1, <3>3, <3>4
  <2>2. PICK D : D = ToSet(ca[h]) \ O
    OBVIOUS
  <2>3. PICK G : G = Full(out, k, hs, h)
    OBVIOUS
  <2>4. ToSet(out) = O /\ IsFiniteSet(O)
    BY EnumLength DEF Enumerates
  <2>5. Enumerates(Detach(ca[h], out), D)
    BY <2>1, <2>2, <2>4, DetachFacts
  <2>6. G \in SUBSET O
    BY <1>1, <2>3
  <2>7. IsFiniteSet(G)
    BY <2>4, <2>6, FS_Subset
  <2>8. Enumerates(SetToSeq(G), G)
    BY <2>7, EnumSetToSeq
  <2>9. PICK U : U = D \cup G
    OBVIOUS
  <2>10. D \cap G = {} /\ U \in SUBSET Block
    BY <2>1, <2>2, <2>6, <2>9
  <2>11. Enumerates(Detach(ca[h], out) \o SetToSeq(G), U)
    BY <2>5, <2>8, <2>9, <2>10, EnumConcat
  <2>12. cb[h] = Detach(ca[h], out) \o SetToSeq(G)
    BY <2>3 DEF Recached
  <2>13. Enumerates(cb[h], U)
    BY <2>11, <2>12
  <2>14. cb[h] \in Seq(U) /\ IsInjective(cb[h]) /\ ToSet(cb[h]) = U
    BY <2>13 DEF Enumerates
  <2>15. cb[h] \in Seq(Block)
    BY <2>10, <2>14
  <2> QED
    BY <2>2, <2>3, <2>9, <2>13, <2>14, <2>15
<1>4. cb \in [Hash -> Seq(Block)]
  <2>1. cb = [h \in Hash |-> cb[h]]
    BY DEF Recached
  <2> QED
    BY <1>3, <2>1
<1>5. ASSUME NEW g \in Hash, NEW h \in Hash, g # h, NEW x \in ToSet(cb[g]), x \in ToSet(cb[h])
      PROVE  FALSE
  <2>1. x \in (ToSet(ca[g]) \ O) \cup Full(out, k, hs, g)
    BY <1>3, <1>5
  <2>2. x \in (ToSet(ca[h]) \ O) \cup Full(out, k, hs, h)
    BY <1>3, <1>5
  <2>3. CASE x \notin O
    <3>1. x \in ToSet(ca[g]) /\ x \in ToSet(ca[h])
      BY <1>1, <2>1, <2>2, <2>3
    <3> QED
      BY <1>5, <3>1 DEF CachedOnce
  <2>4. CASE x \in O
    <3>1. x \in Full(out, k, hs, g) /\ x \in Full(out, k, hs, h)
      BY <2>1, <2>2, <2>4
    <3>2. PICK i \in DOMAIN out : x = out[i] /\ hs[k + i] = g
      BY <3>1 DEF Full
    <3>3. PICK j \in DOMAIN out : x = out[j] /\ hs[k + j] = h
      BY <3>1 DEF Full
    <3>4. i = j
      BY <3>2, <3>3 DEF Enumerates, IsInjective
    <3> QED
      BY <1>5, <3>2, <3>3, <3>4
  <2> QED
    BY <2>3, <2>4
<1>6. CachedOnce(cb)
  BY <1>3, <1>5 DEF CachedOnce
<1>7. RecachedSets(cb, ca, O, out, k, hs)
  BY <1>3 DEF RecachedSets
<1> QED
  BY <1>4, <1>6, <1>7

(* An admission keeps the invariant.                                       *)
LEMMA AdmitInv ==
    ASSUME IInv, Admit
    PROVE  IInv'
<1>1. PICK r : r = Head(waiting)
  OBVIOUS
<1>2. PICK hit : hit = HitBlocks(r)
  OBVIOUS
<1>3. PICK rest : rest = Detach(free, hit)
  OBVIOUS
<1>4. PICK n : n = NewBlocks(r)
  OBVIOUS
<1>5. PICK out : out = GetNewBlocks(rest, n)
  OBVIOUS
<1>6. PICK H : H = ToSet(hit)
  OBVIOUS
<1>7. PICK O : O = ToSet(out)
  OBVIOUS
<1>8. PICK F : F = FreeBlocks(ref) \ H
  OBVIOUS
<1>9. Admission(r, hit, rest, n, out)
  BY <1>1, <1>2, <1>3, <1>4, <1>5 DEF Admission
<1>10. waiting # <<>> /\ Fits(Head(waiting))
  BY DEF Admit
<1>11. Taken(r, hit, rest, n, out, H, O, F)
  BY <1>6, <1>7, <1>8, <1>9, <1>10, AdmissionFacts
<1>12. r \in Req /\ st[r] = "waiting" /\ held[r] = <<>>
  BY <1>11 DEF Taken
<1>13. Enumerates(hit, H) /\ H \in SUBSET Block /\ Enumerates(rest, F) /\ O \in SUBSET F
  BY <1>11 DEF Taken
<1>14. Enumerates(out, O) /\ Len(out) = n
  BY <1>11 DEF Taken
<1>15. Len(hit) + n = Len(BlockHashes[r]) + 1
  BY <1>11 DEF Taken
<1>16. free' = Detach(rest, out)
  BY <1>1, <1>2, <1>3, <1>4, <1>5 DEF Admit
<1>17. ref' = [b \in Block |-> IF b \in H \cup O THEN ref[b] + 1 ELSE ref[b]]
  BY <1>1, <1>2, <1>3, <1>4, <1>5, <1>6, <1>7 DEF Admit
<1>18. cached' = Recached(cached, out, Len(hit), BlockHashes[r])
  BY <1>1, <1>2, <1>3, <1>4, <1>5 DEF Admit, Full, Recached
<1>19. held' = [held EXCEPT ![r] = hit \o out]
  BY <1>1, <1>2, <1>3, <1>4, <1>5 DEF Admit
<1>20. /\ waiting' = Tail(waiting) /\ running' = Append(running, r)
       /\ st' = [st EXCEPT ![r] = "running"] /\ phase' = "more"
       /\ UNCHANGED <<mode, qref, demand, depth, preempts>>
  BY <1>1 DEF Admit
<1>21. TypeOK
  BY DEF IInv
<1>22. /\ st \in [Req -> {"new", "waiting", "running", "done"}] /\ ref \in [Block -> Nat]
       /\ held \in [Req -> Seq(Block)] /\ cached \in [Hash -> Seq(Block)]
  BY <1>21 DEF TypeOK
<1>23. O \in SUBSET Block /\ O \cap H = {} /\ \A b \in O : ref[b] = 0
  BY <1>8, <1>13 DEF FreeBlocks
<1>24. PICK T : T = H \cup O
  OBVIOUS
<1>25. Enumerates(hit \o out, T) /\ T \in SUBSET Block
  BY <1>13, <1>14, <1>23, <1>24, EnumConcat
<1>26. /\ hit \o out \in Seq(Block) /\ IsInjective(hit \o out) /\ ToSet(hit \o out) = T
       /\ Len(hit \o out) = Len(BlockHashes[r]) + 1
  <2>1. hit \in Seq(T) /\ out \in Seq(T)
    BY <1>13, <1>14, <1>24 DEF Enumerates
  <2>2. Len(hit \o out) = Len(hit) + Len(out)
    BY <2>1, ConcatProperties
  <2>3. hit \o out \in Seq(T)
    BY <1>25 DEF Enumerates
  <2>4. hit \o out \in Seq(Block)
    BY <1>25, <2>3
  <2> QED
    BY <1>14, <1>15, <1>25, <2>2, <2>4 DEF Enumerates
<1>27. /\ In(st, "waiting") \ {r} = In(st', "waiting")
       /\ In(st', "running") = In(st, "running") \cup {r} /\ r \notin In(st, "running")
  BY <1>12, <1>20, <1>22 DEF In
<1>28. QueuesExact(waiting', running', st')
  <2>1. Enumerates(waiting, In(st, "waiting")) /\ Enumerates(running, In(st, "running"))
    BY DEF IInv, QueuesExact
  <2>2. Enumerates(waiting', In(st', "waiting"))
    BY <1>1, <1>10, <1>20, <1>27, <2>1, EnumTail
  <2>3. Enumerates(running', In(st', "running"))
    BY <1>20, <1>27, <2>1, EnumAppend
  <2> QED
    BY <2>2, <2>3 DEF QueuesExact
<1>29. FreeExact(free', ref')
  <2>1. PICK G : G = F \ ToSet(out)
    OBVIOUS
  <2>2. Enumerates(free', G)
    BY <1>13, <1>16, <2>1, DetachFacts
  <2>3. G = FreeBlocks(ref')
    <3>1. \A b \in Block : ref[b] \in Nat
      BY <1>22
    <3>2. \A b \in Block : ref'[b] = 0 <=> ref[b] = 0 /\ b \notin H /\ b \notin O
      BY <1>17, <3>1
    <3> QED
      BY <1>7, <1>8, <2>1, <3>2 DEF FreeBlocks
  <2> QED
    BY <2>2, <2>3 DEF FreeExact
<1>30. RefExact(ref', held')
  <2> SUFFICES ASSUME NEW b \in Block PROVE ref'[b] = Cardinality(Holders(held', b))
    BY DEF RefExact
  <2>1. IsFiniteSet(Holders(held, b)) /\ ref[b] = Cardinality(Holders(held, b))
    <3>1. Holders(held, b) \in SUBSET Req
      BY DEF Holders
    <3>2. IsFiniteSet(Holders(held, b))
      BY <3>1, ServerAssumption, FS_Subset
    <3> QED
      BY <3>2 DEF IInv, RefExact
  <2>2. r \notin Holders(held, b)
    BY <1>12 DEF Holders, ToSet
  <2>3. ToSet(held'[r]) = T /\ \A q \in Req : q # r => held'[q] = held[q]
    BY <1>12, <1>19, <1>22, <1>26
  <2>4. CASE b \in T
    <3>1. Holders(held', b) = Holders(held, b) \cup {r}
      BY <1>12, <2>3, <2>4 DEF Holders
    <3>2. Cardinality(Holders(held, b) \cup {r}) = Cardinality(Holders(held, b)) + 1
      BY <2>1, <2>2, FS_AddElement
    <3> QED
      BY <1>17, <1>24, <2>1, <2>4, <3>1, <3>2
  <2>5. CASE b \notin T
    <3>1. Holders(held', b) = Holders(held, b)
      BY <2>2, <2>3, <2>5 DEF Holders
    <3> QED
      BY <1>17, <1>24, <2>1, <2>5, <3>1
  <2> QED
    BY <2>4, <2>5
<1>31. HeldExact(held', st')
  <2> SUFFICES ASSUME NEW q \in Req
               PROVE  /\ IsInjective(held'[q])
                      /\ IF st'[q] = "running" THEN Len(held'[q]) = Len(BlockHashes[q]) + 1
                         ELSE held'[q] = <<>>
    BY DEF HeldExact
  <2>1. CASE q = r
    BY <1>12, <1>19, <1>20, <1>22, <1>26, <2>1
  <2>2. CASE q # r
    <3>1. held'[q] = held[q] /\ st'[q] = st[q]
      BY <1>19, <1>20, <1>22, <2>2
    <3> QED
      BY <3>1 DEF IInv, HeldExact
  <2> QED
    BY <2>1, <2>2
<1>32. BlockHashes[r] \in Seq(Hash) /\ Len(hit) \in Nat
  BY <1>12, <1>13, ServerAssumption, EnumFacts
<1>33. CachedOnce(cached)
  BY DEF IInv
<1>34. cached' \in [Hash -> Seq(Block)] /\ CachedOnce(cached')
  BY <1>14, <1>18, <1>22, <1>23, <1>32, <1>33, AdmitCached
<1>35. \A h \in Hash : ToSet(cached'[h]) = (ToSet(cached[h]) \ O) \cup Full(out, Len(hit), BlockHashes[r], h)
  <2>1. RecachedSets(cached', cached, O, out, Len(hit), BlockHashes[r])
    BY <1>14, <1>18, <1>22, <1>23, <1>32, <1>33, AdmitCached
  <2> QED
    BY <2>1 DEF RecachedSets
<1>36. PromptsCached(cached', held', st')
  <2> SUFFICES ASSUME NEW q \in In(st', "running"), NEW i \in DOMAIN BlockHashes[q]
               PROVE  held'[q][i] \in ToSet(cached'[BlockHashes[q][i]])
    BY DEF PromptsCached
  <2>1. q \in Req /\ BlockHashes[q] \in Seq(Hash) /\ DOMAIN BlockHashes[q] = 1..Len(BlockHashes[q])
    BY ServerAssumption DEF In
  <2>2. PICK h : h = BlockHashes[q][i]
    OBVIOUS
  <2>3. h \in Hash
    BY <2>1, <2>2
  <2>4. CASE q # r
    <3>1. q \in In(st, "running") /\ held'[q] = held[q]
      BY <1>19, <1>22, <1>27, <2>1, <2>4
    <3>2. held[q][i] \in ToSet(cached[h])
      BY <2>2, <3>1 DEF IInv, PromptsCached
    <3>3. Len(held[q]) = Len(BlockHashes[q]) + 1 /\ held[q] \in Seq(Block)
      BY <1>22, <2>1, <3>1 DEF IInv, HeldExact, In
    <3>4. i \in DOMAIN held[q] /\ held[q][i] \in Block
      BY <2>1, <3>3
    <3>5. PICK b : b = held[q][i]
      OBVIOUS
    <3>6. b \in Block /\ q \in Holders(held, b)
      BY <2>1, <3>4, <3>5 DEF Holders, ToSet
    <3>7. IsFiniteSet(Holders(held, b))
      <4>1. Holders(held, b) \in SUBSET Req
        BY DEF Holders
      <4> QED
        BY <4>1, ServerAssumption, FS_Subset
    <3>8. Cardinality(Holders(held, b)) # 0
      BY <3>6, <3>7, FS_EmptySet
    <3>9. b \notin O
      BY <1>23, <3>6, <3>8 DEF IInv, RefExact
    <3> QED
      BY <1>35, <2>2, <2>3, <3>1, <3>2, <3>5, <3>9
  <2>5. CASE q = r
    <3>1. held'[r] = hit \o out
      BY <1>12, <1>19, <1>22
    <3>2. hit \in Seq(Block) /\ out \in Seq(Block)
      BY <1>13, <1>14, <1>23 DEF Enumerates
    <3>3. Len(hit) \in Nat /\ Len(out) \in Nat /\ Len(hit) + Len(out) = Len(BlockHashes[r]) + 1
      BY <1>14, <1>15, <3>2
    <3>4. i \in 1..(Len(hit) + Len(out)) /\ i \in 1..Len(BlockHashes[r])
      BY <2>1, <2>5, <3>3
    <3>5. (hit \o out)[i] = IF i <= Len(hit) THEN hit[i] ELSE out[i - Len(hit)]
      BY <3>2, <3>4, ConcatProperties
    <3>6. CASE i <= Len(hit)
      <4>1. i \in 1..Len(hit)
        BY <3>3, <3>4, <3>6
      <4>2. hit[i] \in ToSet(cached[h])
        <5>1. \A j \in 1..Len(hit) : hit[j] \in ToSet(cached[BlockHashes[r][j]])
          BY <1>2, <1>12, <1>21, <1>33, HitFacts
        <5> QED
          BY <2>2, <2>5, <4>1, <5>1
      <4>3. hit[i] \in H
        BY <1>13, <4>1, EnumFacts
      <4> QED
        BY <1>23, <1>35, <2>2, <2>3, <2>5, <3>1, <3>5, <3>6, <4>2, <4>3
    <3>7. CASE ~(i <= Len(hit))
      <4>1. PICK j : j = i - Len(hit)
        OBVIOUS
      <4>2. j \in 1..Len(out) /\ Len(hit) + j = i
        BY <3>3, <3>4, <3>7, <4>1
      <4>3. j \in DOMAIN out
        BY <3>2, <4>2
      <4>4. out[j] \in Full(out, Len(hit), BlockHashes[r], h)
        BY <2>1, <2>2, <2>5, <4>2, <4>3 DEF Full
      <4> QED
        BY <1>35, <2>2, <2>3, <2>5, <3>1, <3>5, <3>7, <4>1, <4>4
    <3> QED
      BY <3>6, <3>7
  <2> QED
    BY <2>4, <2>5
<1>37. TypeOK'
  <2>1. free' \in Seq(Block)
    <3>1. FreeBlocks(ref') \in SUBSET Block
      BY DEF FreeBlocks
    <3> QED
      BY <1>29, <3>1 DEF FreeExact, Enumerates
  <2>2. held' \in [Req -> Seq(Block)]
    BY <1>12, <1>19, <1>22, <1>26
  <2>3. ref' \in [Block -> Nat]
    BY <1>17, <1>22
  <2>4. waiting' \in Seq(Req) /\ running' \in Seq(Req)
    <3>1. In(st', "waiting") \in SUBSET Req /\ In(st', "running") \in SUBSET Req
      BY DEF In
    <3> QED
      BY <1>28, <3>1 DEF QueuesExact, Enumerates
  <2>5. st' \in [Req -> {"new", "waiting", "running", "done"}]
    BY <1>20, <1>22
  <2> QED
    BY <1>20, <1>21, <1>34, <2>1, <2>2, <2>3, <2>4, <2>5 DEF TypeOK
<1> QED
  BY <1>28, <1>29, <1>30, <1>31, <1>34, <1>36, <1>37 DEF IInv

-----------------------------------------------------------------------------
(* A running request gives its blocks back.                                *)
LEMMA ReleaseInv ==
    ASSUME IInv, NEW r \in Req, st[r] = "running", Release(r),
           NEW v \in {"waiting", "done"}, st' = [st EXCEPT ![r] = v], UNCHANGED cached
    PROVE  /\ FreeExact(free', ref') /\ RefExact(ref', held') /\ HeldExact(held', st')
           /\ CachedOnce(cached') /\ PromptsCached(cached', held', st')
           /\ Enumerates(running', In(st', "running"))
           /\ ref' \in [Block -> Nat] /\ held' \in [Req -> Seq(Block)]
<1>1. /\ st \in [Req -> {"new", "waiting", "running", "done"}] /\ ref \in [Block -> Nat]
      /\ held \in [Req -> Seq(Block)]
  BY DEF IInv, TypeOK
<1>2. PICK H : H = ToSet(held[r])
  OBVIOUS
<1>3. held[r] \in Seq(Block) /\ IsInjective(held[r])
  BY <1>1 DEF IInv, HeldExact
<1>4. Enumerates(held[r], H) /\ H \in SUBSET Block
  <2>1. PICK h : h = held[r]
    OBVIOUS
  <2>2. Enumerates(h, ToSet(h))
    BY <1>3, <2>1, EnumSelf
  <2>3. ToSet(h) \in SUBSET Block
    BY <1>3, <2>1 DEF ToSet
  <2> QED
    BY <1>2, <2>1, <2>2, <2>3
<1>5. ref' = [b \in Block |-> IF b \in H THEN ref[b] - 1 ELSE ref[b]]
  BY <1>2 DEF Release
<1>6. held' = [held EXCEPT ![r] = <<>>]
  BY DEF Release
<1>7. \A b \in Block : IsFiniteSet(Holders(held, b)) /\ ref[b] = Cardinality(Holders(held, b))
  <2>1. \A b \in Block : Holders(held, b) \in SUBSET Req
    BY DEF Holders
  <2>2. \A b \in Block : IsFiniteSet(Holders(held, b))
    BY <2>1, ServerAssumption, FS_Subset
  <2> QED
    BY <2>2 DEF IInv, RefExact
<1>8. \A b \in H : b \in Block /\ r \in Holders(held, b)
  BY <1>2, <1>4 DEF Holders
<1>9. \A b \in H : ref[b] # 0
  BY <1>7, <1>8, FS_EmptySet
<1>10. ref' \in [Block -> Nat]
  <2>1. \A b \in Block : ref[b] \in Nat
    BY <1>1
  <2>2. \A b \in Block : (IF b \in H THEN ref[b] - 1 ELSE ref[b]) \in Nat
    BY <1>9, <2>1
  <2> QED
    BY <1>5, <2>2
<1>11. held' \in [Req -> Seq(Block)]
  BY <1>1, <1>6
<1>12. FreeExact(free', ref')
  <2>1. PICK back : back = Reverse(held[r])
    OBVIOUS
  <2>2. Enumerates(back, H)
    BY <1>4, <2>1, EnumReverse
  <2>3. PICK I : I = {i \in DOMAIN back : ref[back[i]] = 1}
    OBVIOUS
  <2>4. PICK T : T = {b \in H : ref[b] = 1}
    OBVIOUS
  <2>5. I \in SUBSET (DOMAIN back) /\ T \in SUBSET H /\ \A i \in DOMAIN back : i \in I <=> back[i] \in T
    BY <2>2, <2>3, <2>4, EnumFacts
  <2>6. Enumerates(Subsequence(back, I), T)
    BY <2>2, <2>5, EnumFilter
  <2>7. free' = free \o Subsequence(back, I)
    BY <2>1, <2>3 DEF Release
  <2>8. PICK S : S = FreeBlocks(ref)
    OBVIOUS
  <2>9. Enumerates(free, S)
    BY <2>8 DEF IInv, FreeExact
  <2>10. PICK U : U = FreeBlocks(ref')
    OBVIOUS
  <2>11. S \cap T = {}
    BY <2>4, <2>8 DEF FreeBlocks
  <2>12. U = S \cup T
    <3>1. \A b \in Block : ref'[b] = 0 <=> ref[b] = 0 \/ (b \in H /\ ref[b] = 1)
      <4>1. \A b \in Block : ref[b] \in Nat
        BY <1>1
      <4> QED
        BY <1>5, <1>9, <4>1
    <3> QED
      BY <1>4, <2>4, <2>8, <2>10, <3>1 DEF FreeBlocks
  <2>13. Enumerates(free', U)
    BY <2>6, <2>7, <2>9, <2>11, <2>12, EnumConcat
  <2> QED
    BY <2>10, <2>13 DEF FreeExact
<1>13. RefExact(ref', held')
  <2> SUFFICES ASSUME NEW b \in Block PROVE ref'[b] = Cardinality(Holders(held', b))
    BY DEF RefExact
  <2>1. held'[r] = <<>> /\ \A q \in Req : q # r => held'[q] = held[q]
    BY <1>1, <1>6
  <2>2. Holders(held', b) = Holders(held, b) \ {r}
    BY <2>1 DEF Holders, ToSet
  <2>3. r \in Holders(held, b) <=> b \in H
    BY <1>2 DEF Holders
  <2>4. Cardinality(Holders(held, b) \ {r}) =
          IF r \in Holders(held, b) THEN Cardinality(Holders(held, b)) - 1 ELSE Cardinality(Holders(held, b))
    BY <1>7, FS_RemoveElement
  <2> QED
    BY <1>5, <1>7, <2>2, <2>3, <2>4
<1>14. \A q \in Req : q # r => held'[q] = held[q] /\ st'[q] = st[q]
  BY <1>1, <1>6
<1>15. held'[r] = <<>> /\ st'[r] # "running"
  BY <1>1, <1>6
<1>16. HeldExact(held', st')
  <2> SUFFICES ASSUME NEW q \in Req
               PROVE  /\ IsInjective(held'[q])
                      /\ IF st'[q] = "running" THEN Len(held'[q]) = Len(BlockHashes[q]) + 1
                         ELSE held'[q] = <<>>
    BY DEF HeldExact
  <2>1. CASE q = r
    BY <1>15, <2>1 DEF IsInjective
  <2>2. CASE q # r
    BY <1>14, <2>2 DEF IInv, HeldExact
  <2> QED
    BY <2>1, <2>2
<1>17. In(st', "running") = In(st, "running") \ {r}
  BY <1>14, <1>15 DEF In
<1>18. PromptsCached(cached', held', st')
  BY <1>14, <1>17 DEF IInv, PromptsCached, In
<1>19. Enumerates(running', In(st', "running"))
  <2>1. PICK S : S = In(st, "running")
    OBVIOUS
  <2>2. PICK T : T = In(st', "running")
    OBVIOUS
  <2>3. Enumerates(running, S)
    BY <2>1 DEF IInv, QueuesExact
  <2>4. PICK I : I = {i \in DOMAIN running : running[i] # r}
    OBVIOUS
  <2>5. T \in SUBSET S /\ I \in SUBSET (DOMAIN running)
    BY <1>17, <2>1, <2>2, <2>4
  <2>6. \A i \in DOMAIN running : i \in I <=> running[i] \in T
    <3>1. \A i \in DOMAIN running : running[i] \in S
      BY <2>3, EnumFacts
    <3> QED
      BY <1>17, <2>1, <2>2, <2>4, <3>1
  <2>7. Enumerates(Subsequence(running, I), T)
    BY <2>3, <2>5, <2>6, EnumFilter
  <2> QED
    BY <2>2, <2>4, <2>7 DEF Release
<1>20. CachedOnce(cached')
  BY DEF IInv
<1> QED
  BY <1>10, <1>11, <1>12, <1>13, <1>16, <1>18, <1>19, <1>20

(* The free queue is a sequence of blocks.                                 *)
LEMMA FreeType ==
    ASSUME NEW fr, NEW rf, FreeExact(fr, rf)
    PROVE  fr \in Seq(Block)
<1>1. FreeBlocks(rf) \in SUBSET Block
  BY DEF FreeBlocks
<1> QED
  BY <1>1 DEF FreeExact, Enumerates

(* The queues are sequences of requests.                                   *)
LEMMA QueueType ==
    ASSUME NEW q, NEW s, NEW v, Enumerates(q, In(s, v))
    PROVE  q \in Seq(Req)
<1>1. In(s, v) \in SUBSET Req
  BY DEF In
<1> QED
  BY <1>1 DEF Enumerates

(* A request that finishes gives its blocks back: the invariant is kept.   *)
LEMMA FinishInv ==
    ASSUME IInv, NEW r \in Req, Finish(r)
    PROVE  IInv'
<1>1. /\ st[r] = "running" /\ Release(r) /\ st' = [st EXCEPT ![r] = "done"]
      /\ UNCHANGED cached /\ UNCHANGED <<mode, qref, demand, depth, phase, waiting, preempts>>
  BY DEF Finish
<1>2. FreeExact(free', ref') /\ RefExact(ref', held') /\ HeldExact(held', st')
  BY <1>1, ReleaseInv
<1>3. CachedOnce(cached') /\ PromptsCached(cached', held', st')
  BY <1>1, ReleaseInv
<1>4. Enumerates(running', In(st', "running"))
  BY <1>1, ReleaseInv
<1>5. ref' \in [Block -> Nat] /\ held' \in [Req -> Seq(Block)]
  BY <1>1, ReleaseInv
<1>6. st \in [Req -> {"new", "waiting", "running", "done"}]
  BY DEF IInv, TypeOK
<1>7. In(st', "waiting") = In(st, "waiting")
  BY <1>1, <1>6 DEF In
<1>8. QueuesExact(waiting', running', st')
  BY <1>1, <1>4, <1>7 DEF IInv, QueuesExact
<1>9. free' \in Seq(Block)
  BY <1>2, FreeType
<1>10. running' \in Seq(Req)
  BY <1>4, QueueType
<1>11. st' \in [Req -> {"new", "waiting", "running", "done"}]
  BY <1>1, <1>6
<1>12. TypeOK'
  BY <1>1, <1>5, <1>9, <1>10, <1>11 DEF IInv, TypeOK
<1> QED
  BY <1>2, <1>3, <1>8, <1>12 DEF IInv

(* So does one that is preempted.                                          *)
LEMMA PreemptInv ==
    ASSUME IInv, Preempt
    PROVE  IInv'
<1>1. PICK r : r = Last(running)
  OBVIOUS
<1>2. /\ running # <<>> /\ preempts < MaxPreempt /\ Release(r)
      /\ waiting' = <<r>> \o waiting /\ st' = [st EXCEPT ![r] = "waiting"]
      /\ preempts' = preempts + 1 /\ phase' = "idle"
      /\ UNCHANGED cached /\ UNCHANGED <<mode, qref, demand, depth>>
  BY <1>1 DEF Preempt
<1>3. Enumerates(running, In(st, "running")) /\ Enumerates(waiting, In(st, "waiting"))
  BY DEF IInv, QueuesExact
<1>4. r \in In(st, "running")
  <2>1. Len(running) \in Nat /\ running \in Seq(In(st, "running"))
    BY <1>3, EnumFacts DEF Enumerates
  <2>2. Len(running) # 0
    BY <1>2, <2>1, EmptySeq
  <2>3. Len(running) \in 1..Len(running)
    BY <2>1, <2>2
  <2>4. r = running[Len(running)]
    BY <1>1 DEF Last
  <2> QED
    BY <1>3, <2>3, <2>4, EnumFacts
<1>5. r \in Req /\ st[r] = "running"
  BY <1>4 DEF In
<1>6. FreeExact(free', ref') /\ RefExact(ref', held') /\ HeldExact(held', st')
  BY <1>2, <1>5, ReleaseInv
<1>7. CachedOnce(cached') /\ PromptsCached(cached', held', st')
  BY <1>2, <1>5, ReleaseInv
<1>8. Enumerates(running', In(st', "running"))
  BY <1>2, <1>5, ReleaseInv
<1>9. ref' \in [Block -> Nat] /\ held' \in [Req -> Seq(Block)]
  BY <1>2, <1>5, ReleaseInv
<1>10. st \in [Req -> {"new", "waiting", "running", "done"}]
  BY DEF IInv, TypeOK
<1>11. PICK S : S = In(st, "waiting")
  OBVIOUS
<1>12. PICK U : U = In(st', "waiting")
  OBVIOUS
<1>13. U = {r} \cup S /\ {r} \cap S = {}
  BY <1>2, <1>5, <1>10, <1>11, <1>12 DEF In
<1>14. Enumerates(<<r>>, {r})
  BY EnumSingle
<1>15. Enumerates(waiting', U)
  BY <1>2, <1>3, <1>11, <1>13, <1>14, EnumConcat
<1>16. QueuesExact(waiting', running', st')
  BY <1>8, <1>12, <1>15 DEF QueuesExact
<1>17. free' \in Seq(Block)
  BY <1>6, FreeType
<1>18. running' \in Seq(Req)
  BY <1>8, QueueType
<1>19. waiting' \in Seq(Req)
  BY <1>12, <1>15, QueueType
<1>20. st' \in [Req -> {"new", "waiting", "running", "done"}]
  BY <1>2, <1>10
<1>21. preempts' \in 0..MaxPreempt
  BY <1>2, ServerAssumption DEF IInv, TypeOK
<1>22. TypeOK'
  BY <1>2, <1>9, <1>17, <1>18, <1>19, <1>20, <1>21 DEF IInv, TypeOK
<1> QED
  BY <1>6, <1>7, <1>16, <1>22 DEF IInv

-----------------------------------------------------------------------------
(* num / den is a weak order where den is positive.                        *)
LEMMA Scale == \A x, y \in Int : \A k \in Nat : x <= y => x * k <= y * k
OBVIOUS

(* A positive factor cancels.                                              *)
LEMMA Unscale == \A x, y \in Int : \A k \in Nat : k > 0 /\ x * k <= y * k => x <= y
OBVIOUS

(* The order of fractions is transitive.                                   *)
LEMMA FractionOrder ==
    ASSUME NEW a \in Int, NEW b \in Nat, NEW c \in Int, NEW d \in Nat, NEW e \in Int, NEW f \in Nat,
           f > 0, a * f <= e * b, e * d <= c * f
    PROVE  a * d <= c * b
<1>1. (a * f) * d <= (e * b) * d
  BY Scale
<1>2. (e * d) * b <= (c * f) * b
  BY Scale
<1>3. (e * b) * d = (e * d) * b /\ (a * f) * d = (a * d) * f /\ (c * f) * b = (c * b) * f
  OBVIOUS
<1>4. a * d \in Int /\ c * b \in Int /\ (a * d) * f <= (c * b) * f
  BY <1>1, <1>2, <1>3
<1> QED
  BY <1>4, Unscale

Scores(t) == \A i \in DOMAIN t : t[i].num \in Int /\ t[i].den \in Nat /\ t[i].den > 0

(* The scores order the groups, with ties.                                 *)
LEMMA ScoreOrders ==
    ASSUME NEW t, Scores(t), NEW W, W = {p \in (DOMAIN t) \X (DOMAIN t) : HigherScore(t[p[1]], t[p[2]])}
    PROVE  WeaklyOrders(W, DOMAIN t)
<1>1. \A i, j \in DOMAIN t : <<i, j>> \in W <=> HigherScore(t[i], t[j])
  OBVIOUS
<1>2. ASSUME NEW i \in DOMAIN t, NEW j \in DOMAIN t, HigherScore(t[i], t[j]), HigherScore(t[j], t[i]) PROVE FALSE
  <2>1. PICK x : x = t[i].num * t[j].den
    OBVIOUS
  <2>2. PICK y : y = t[j].num * t[i].den
    OBVIOUS
  <2>3. x \in Int /\ y \in Int
    BY <2>1, <2>2 DEF Scores
  <2>4. x > y /\ y > x
    BY <1>2, <2>1, <2>2 DEF HigherScore
  <2> QED
    BY <2>3, <2>4
<1>3. ASSUME NEW i \in DOMAIN t, NEW j \in DOMAIN t, NEW k \in DOMAIN t, HigherScore(t[i], t[k]),
             ~HigherScore(t[i], t[j]), ~HigherScore(t[j], t[k])
      PROVE  FALSE
  <2>1. PICK a \in Int : a = t[i].num
    BY DEF Scores
  <2>2. PICK b \in Nat : b = t[i].den
    BY DEF Scores
  <2>3. PICK c \in Int : c = t[k].num
    BY DEF Scores
  <2>4. PICK d \in Nat : d = t[k].den
    BY DEF Scores
  <2>5. PICK e \in Int : e = t[j].num
    BY DEF Scores
  <2>6. PICK f \in Nat : f = t[j].den /\ f > 0
    BY DEF Scores
  <2>7. /\ a * d \in Int /\ c * b \in Int /\ a * f \in Int /\ e * b \in Int /\ e * d \in Int /\ c * f \in Int
    OBVIOUS
  <2>8. a * d > c * b /\ ~(a * f > e * b) /\ ~(e * d > c * f)
    BY <1>3, <2>1, <2>2, <2>3, <2>4, <2>5, <2>6 DEF HigherScore
  <2>9. a * f <= e * b /\ e * d <= c * f
    BY <2>7, <2>8
  <2>10. a * d <= c * b
    BY <2>6, <2>9, FractionOrder
  <2> QED
    BY <2>7, <2>8, <2>10
<1> QED
  BY <1>1, <1>2, <1>3 DEF WeaklyOrders

(* Sorting groups by score permutes them.                                  *)
LEMMA ScoreSort ==
    ASSUME NEW S, NEW t, Enumerates(t, S), Scores(t)
    PROVE  Enumerates(StableSort(t, HigherScore), S)
<1>1. PICK W : W = {p \in (DOMAIN t) \X (DOMAIN t) : HigherScore(t[p[1]], t[p[2]])}
  OBVIOUS
<1>2. PICK R : R = {p \in (DOMAIN t) \X (DOMAIN t) :
                      \/ HigherScore(t[p[1]], t[p[2]])
                      \/ ~HigherScore(t[p[2]], t[p[1]]) /\ p[1] < p[2]}
  OBVIOUS
<1>3. WeaklyOrders(W, DOMAIN t)
  BY <1>1, ScoreOrders
<1>4. StableBy(R, W, DOMAIN t)
  BY <1>1, <1>2 DEF StableBy
<1>5. StableSort(t, HigherScore) = At(t, InOrder(DOMAIN t, R))
  BY <1>2 DEF StableSort
<1>6. Enumerates(At(t, InOrder(DOMAIN t, R)), S)
  BY <1>3, <1>4, EnumSort
<1> QED
  BY <1>5, <1>6

(* Sorting requests by length permutes them.                               *)
LEMMA LengthSort ==
    ASSUME NEW S \in SUBSET Req, NEW t, Enumerates(t, S)
    PROVE  Enumerates(StableSort(t, LAMBDA a, b : Len(BlockHashes[a]) < Len(BlockHashes[b])), S)
<1>1. PICK wt : wt = [r \in Req |-> Len(BlockHashes[r])]
  OBVIOUS
<1>2. \A x \in S : wt[x] \in Nat
  BY <1>1, ServerAssumption
<1>3. PICK R : R = {p \in (DOMAIN t) \X (DOMAIN t) :
                      \/ Len(BlockHashes[t[p[1]]]) < Len(BlockHashes[t[p[2]]])
                      \/ ~(Len(BlockHashes[t[p[2]]]) < Len(BlockHashes[t[p[1]]])) /\ p[1] < p[2]}
  OBVIOUS
<1>4. \A i \in DOMAIN t : t[i] \in Req
  BY EnumFacts
<1>5. ByWeight(R, t, wt)
  BY <1>1, <1>3, <1>4 DEF ByWeight
<1>6. PICK W : WeaklyOrders(W, DOMAIN t) /\ StableBy(R, W, DOMAIN t)
  BY <1>2, <1>5, ByWeightStable
<1>7. Enumerates(At(t, InOrder(DOMAIN t, R)), S)
  BY <1>6, EnumSort
<1> QED
  BY <1>3, <1>7 DEF StableSort

-----------------------------------------------------------------------------
NewWaiting == {r \in In(st, "waiting") : IsNew(r)}

(* The requests the hook reorders are the waiting ones that are new.       *)
LEMMA NewReqsFacts ==
    ASSUME IInv
    PROVE  Enumerates(NewReqs, NewWaiting)
<1>1. PICK S : S = In(st, "waiting")
  OBVIOUS
<1>2. PICK T : T = NewWaiting
  OBVIOUS
<1>3. Enumerates(waiting, S)
  BY <1>1 DEF IInv, QueuesExact
<1>4. PICK I : I = {i \in DOMAIN waiting : IsNew(waiting[i])}
  OBVIOUS
<1>5. \A i \in DOMAIN waiting : waiting[i] \in S
  BY <1>3, EnumFacts
<1>6. T \in SUBSET S /\ I \in SUBSET (DOMAIN waiting) /\ \A i \in DOMAIN waiting : i \in I <=> waiting[i] \in T
  BY <1>1, <1>2, <1>4, <1>5 DEF NewWaiting
<1>7. Enumerates(Subsequence(waiting, I), T)
  BY <1>3, <1>6, EnumFilter
<1> QED
  BY <1>2, <1>4, <1>7 DEF NewReqs

(* Their prompts have at least one block.                                  *)
LEMMA NewWaitingFacts ==
    NewWaiting \in SUBSET Req /\ \A r \in NewWaiting : BlockHashes[r] \in Seq(Hash) /\ BlockHashes[r] # <<>>
BY ServerAssumption DEF NewWaiting, In, IsNew

(* gs is groups of the requests N with their scores.                       *)
GroupLists(gs) == [i \in DOMAIN gs |-> gs[i].members]
IsScored(gs, N) ==
    /\ gs = [i \in DOMAIN gs |-> gs[i]] /\ Splits(GroupLists(gs), N)
    /\ \A i \in DOMAIN gs : gs[i] = Scored(gs[i].members) /\ gs[i].members # <<>>

(* Scoring a group and sorting it by length changes no member.             *)
LEMMA ScoredMembers ==
    ASSUME NEW m
    PROVE  /\ Scored(m).members = m
           /\ ShortestFirst(Scored(m)).members =
                 StableSort(m, LAMBDA a, b : Len(BlockHashes[a]) < Len(BlockHashes[b]))
           /\ ShortestFirst(Scored(m)).hit = Scored(m).hit
BY DEF Scored, ShortestFirst

(* The scored groups split the new waiting requests.                       *)
LEMMA ScoredGroupsFacts ==
    ASSUME IInv
    PROVE  IsScored(ScoredGroups, NewWaiting)
<1>1. PICK s : s = NewReqs
  OBVIOUS
<1>2. PICK S : S = NewWaiting
  OBVIOUS
<1>3. Enumerates(s, S)
  BY <1>1, <1>2, NewReqsFacts
<1>4. Len(s) \in Nat /\ DOMAIN s = 1..Len(s)
  BY <1>3, EnumFacts
<1>5. PICK key : key = [i \in DOMAIN s |-> KeyPrefix(BlockHashes[s[i]], GroupKeyLen)]
  OBVIOUS
<1>6. PICK F : F = {i \in DOMAIN s : \A j \in 1..(i - 1) : key[j] # key[i]}
  OBVIOUS
<1>7. PICK groups : groups = [g \in DOMAIN Ascending(F) |->
                       Subsequence(s, {i \in DOMAIN s : key[i] = key[Ascending(F)[g]]})]
  OBVIOUS
<1>8. Splits(groups, S) /\ NoneEmpty(groups)
  <2>1. AreGroups(groups, F, s, key)
    BY <1>6, <1>7 DEF AreGroups
  <2> QED
    BY <1>3, <2>1, GroupsSplit
<1>9. \A g \in DOMAIN groups : groups[g] # <<>>
  BY <1>8 DEF NoneEmpty
<1>10. GroupBy(s, LAMBDA r : KeyPrefix(BlockHashes[r], GroupKeyLen)) = groups
  <2>1. F = {i \in DOMAIN s : \A j \in 1..(i - 1) :
               KeyPrefix(BlockHashes[s[j]], GroupKeyLen) # KeyPrefix(BlockHashes[s[i]], GroupKeyLen)}
    <3>1. \A i \in DOMAIN s : \A j \in 1..(i - 1) : j \in DOMAIN s
      BY <1>4
    <3> QED
      BY <1>5, <1>6, <3>1
  <2>2. PICK first : first = Ascending(F)
    OBVIOUS
  <2>3. \A g \in DOMAIN first : first[g] \in DOMAIN s
    <3>1. F \in SUBSET (1..Len(s)) /\ F \in SUBSET Int
      BY <1>4, <1>6
    <3>2. IsFiniteSet(1..Len(s))
      BY <1>4, UpTo
    <3>3. IsFiniteSet(F)
      BY <3>1, <3>2, FS_Subset
    <3>4. Enumerates(first, F)
      BY <2>2, <3>1, <3>3, AscendingFacts
    <3>5. \A g \in DOMAIN first : first[g] \in F
      BY <3>4, EnumFacts
    <3> QED
      BY <1>4, <3>1, <3>5
  <2>4. \A g \in DOMAIN first :
          {i \in DOMAIN s : KeyPrefix(BlockHashes[s[i]], GroupKeyLen) = KeyPrefix(BlockHashes[s[first[g]]], GroupKeyLen)}
            = {i \in DOMAIN s : key[i] = key[first[g]]}
    BY <1>5, <2>3
  <2>5. GroupBy(s, LAMBDA r : KeyPrefix(BlockHashes[r], GroupKeyLen)) =
          [g \in DOMAIN first |-> Subsequence(s, {i \in DOMAIN s :
             KeyPrefix(BlockHashes[s[i]], GroupKeyLen) = KeyPrefix(BlockHashes[s[first[g]]], GroupKeyLen)})]
    BY <2>1, <2>2 DEF GroupBy
  <2> QED
    BY <1>7, <2>2, <2>4, <2>5
<1>11. ScoredGroups = [i \in DOMAIN groups |-> Scored(groups[i])]
  BY <1>1, <1>10 DEF ScoredGroups
<1>12. PICK gs : gs = ScoredGroups
  OBVIOUS
<1>13. DOMAIN gs = DOMAIN groups /\ \A i \in DOMAIN gs : gs[i] = Scored(groups[i]) /\ gs[i].members = groups[i]
  BY <1>11, <1>12, ScoredMembers
<1>14. GroupLists(gs) = groups
  BY <1>7, <1>13 DEF GroupLists
<1>15. gs = [i \in DOMAIN gs |-> gs[i]]
  BY <1>11, <1>12
<1>16. IsScored(gs, S)
  BY <1>8, <1>9, <1>13, <1>14, <1>15 DEF IsScored
<1> QED
  BY <1>2, <1>12, <1>16

(* The score of a group is a fraction with a positive denominator.         *)
LEMMA ScoreFacts ==
    ASSUME NEW m \in Seq(NewWaiting), m # <<>>
    PROVE  /\ Scored(m).num \in Int /\ Scored(m).den \in Nat /\ Scored(m).den > 0
           /\ Head(m) \in NewWaiting /\ Scored(m).hit \in 0..Len(BlockHashes[Head(m)])
<1>1. PICK hs : hs = BlockHashes[Head(m)]
  OBVIOUS
<1>2. Head(m) \in NewWaiting
  OBVIOUS
<1>3. hs \in Seq(Hash) /\ hs # <<>>
  BY <1>1, <1>2, NewWaitingFacts
<1>4. PICK hit : hit = CachedPrefixLength(hs)
  OBVIOUS
<1>5. hit \in 0..Len(hs)
  BY <1>3, <1>4, PrefixLengthFacts
<1>6. PICK total \in Nat : total = Len(hs) /\ total > 0
  BY <1>3
<1>7. PICK size \in Nat : size = Len(m)
  OBVIOUS
<1>8. size - BatchEst \in Int
  BY <1>7, ServerAssumption
<1>9. PICK rest \in Int : rest = Max({0, size - BatchEst})
  <2>1. Max({0, size - BatchEst}) = IF 0 >= size - BatchEst THEN 0 ELSE size - BatchEst
    BY <1>8, MaxOfTwo
  <2> QED
    BY <1>8, <2>1
<1>10. /\ Scored(m).num = 10000000 * hit + total * (size - 1000 * rest)
       /\ Scored(m).den = total /\ Scored(m).hit = hit
  BY <1>1, <1>4, <1>6, <1>7, <1>9 DEF Scored
<1>11. PICK k \in Int : k = size - 1000 * rest
  OBVIOUS
<1>12. PICK p \in Int : p = total * k
  OBVIOUS
<1>13. 10000000 * hit \in Int
  BY <1>5, <1>6
<1>14. 10000000 * hit + p \in Int
  BY <1>13
<1> QED
  BY <1>1, <1>2, <1>5, <1>6, <1>10, <1>11, <1>12, <1>14

(* What a scored group is.                                                 *)
LEMMA IsScoredFacts ==
    ASSUME NEW gs, NEW N, IsScored(gs, N), NEW i \in DOMAIN gs
    PROVE  /\ gs[i] = Scored(gs[i].members) /\ gs[i].members \in Seq(N) /\ gs[i].members # <<>>
           /\ IsInjective(gs[i].members)
<1>1. GroupLists(gs) \in Seq(Seq(N)) /\ \A j \in DOMAIN GroupLists(gs) : IsInjective(GroupLists(gs)[j])
  BY DEF IsScored, Splits
<1>2. i \in DOMAIN GroupLists(gs) /\ GroupLists(gs)[i] = gs[i].members
  BY DEF GroupLists
<1>3. GroupLists(gs)[i] \in Seq(N) /\ IsInjective(GroupLists(gs)[i])
  BY <1>1, <1>2
<1>4. gs[i] = Scored(gs[i].members) /\ gs[i].members # <<>>
  BY DEF IsScored
<1> QED
  BY <1>2, <1>3, <1>4

(* Its score is a fraction.                                                *)
LEMMA IsScoredScores ==
    ASSUME NEW gs, IsScored(gs, NewWaiting)
    PROVE  Scores(gs)
<1> SUFFICES ASSUME NEW i \in DOMAIN gs
             PROVE  gs[i].num \in Int /\ gs[i].den \in Nat /\ gs[i].den > 0
  BY DEF Scores
<1>1. PICK m : m = gs[i].members
  OBVIOUS
<1>2. gs[i] = Scored(m) /\ m \in Seq(NewWaiting) /\ m # <<>>
  BY <1>1, IsScoredFacts
<1> QED
  BY <1>2, ScoreFacts

(* No group comes twice.                                                   *)
LEMMA IsScoredOnce ==
    ASSUME NEW gs, NEW N, IsScored(gs, N), NEW G, G = ToSet(gs)
    PROVE  Enumerates(gs, G)
<1>1. PICK l : l = GroupLists(gs)
  OBVIOUS
<1>2. Splits(l, N)
  BY <1>1 DEF IsScored
<1>3. DOMAIN l = DOMAIN gs /\ \A i \in DOMAIN gs : l[i] = gs[i].members
  BY <1>1 DEF GroupLists
<1>4. PICK n \in Nat : DOMAIN gs = 1..n
  <2>1. l \in Seq(Seq(N))
    BY <1>2 DEF Splits
  <2> QED
    BY <1>3, <2>1
<1>5. gs \in [1..n -> G]
  <2>1. gs = [i \in 1..n |-> gs[i]]
    BY <1>4 DEF IsScored
  <2>2. \A i \in 1..n : gs[i] \in G
    BY <1>4 DEF ToSet
  <2> QED
    BY <2>1, <2>2
<1>6. \A x \in G : \E i \in 1..n : gs[i] = x
  BY <1>4 DEF ToSet
<1>7. ASSUME NEW i \in 1..n, NEW j \in 1..n, gs[i] = gs[j] PROVE i = j
  <2>1. l[i] = l[j] /\ l[i] # <<>> /\ l[i] \in Seq(N)
    BY <1>3, <1>4, <1>7, IsScoredFacts
  <2>2. Head(l[i]) \in ToSet(l[i])
    BY <2>1 DEF ToSet
  <2>3. ToSet(l[i]) \cap ToSet(l[j]) # {}
    BY <2>1, <2>2
  <2> QED
    BY <1>2, <1>3, <1>4, <2>3 DEF Splits
<1> QED
  BY <1>5, <1>6, <1>7, EnumIntro

(* Flattening the groups, in whatever order and each with its members      *)
(* sorted, gives the new requests.                                         *)
SortedLists(all) == [i \in DOMAIN all |-> ShortestFirst(all[i]).members]

(* The groups one after the other have every new waiting request once.     *)
LEMMA FlattenGroups ==
    ASSUME NEW gs, IsScored(gs, NewWaiting), NEW all, Enumerates(all, ToSet(gs))
    PROVE  Enumerates(FlattenSeq(SortedLists(all)), NewWaiting)
<1>1. PICK N : N = NewWaiting
  OBVIOUS
<1>2. PICK G : G = ToSet(gs)
  OBVIOUS
<1>3. PICK n : n = Len(all)
  OBVIOUS
<1>4. n \in Nat /\ DOMAIN all = 1..n /\ \A i \in 1..n : all[i] \in G
  BY <1>2, <1>3, EnumFacts
<1>5. \A x \in G : \E i \in 1..n : all[i] = x
  BY <1>2, <1>4 DEF Enumerates, ToSet
<1>6. \A i, j \in 1..n : all[i] = all[j] => i = j
  BY <1>2, <1>4 DEF Enumerates, IsInjective
<1>7. PICK l : l = SortedLists(all)
  OBVIOUS
<1>8. DOMAIN l = 1..n /\ \A i \in 1..n : l[i] = ShortestFirst(all[i]).members
  BY <1>4, <1>7 DEF SortedLists
<1>9. ASSUME NEW i \in 1..n
      PROVE  l[i] \in Seq(N) /\ IsInjective(l[i]) /\ ToSet(l[i]) = ToSet(all[i].members)
  <2>1. PICK k \in DOMAIN gs : all[i] = gs[k]
    BY <1>2, <1>4 DEF ToSet
  <2>2. PICK m : m = gs[k].members
    OBVIOUS
  <2>3. all[i] = Scored(m) /\ m \in Seq(N) /\ IsInjective(m)
    BY <1>1, <2>1, <2>2, IsScoredFacts
  <2>4. PICK S : S = ToSet(m)
    OBVIOUS
  <2>5. Enumerates(m, S)
    BY <2>3, <2>4, EnumSelf
  <2>6. S \in SUBSET N
    BY <2>3, <2>4 DEF ToSet
  <2>7. S \in SUBSET Req
    BY <1>1, <2>6, NewWaitingFacts
  <2>8. l[i] = StableSort(m, LAMBDA a, b : Len(BlockHashes[a]) < Len(BlockHashes[b]))
    BY <1>8, <2>3, ScoredMembers
  <2>9. Enumerates(l[i], S)
    BY <2>5, <2>7, <2>8, LengthSort
  <2>10. l[i] \in Seq(S) /\ IsInjective(l[i]) /\ ToSet(l[i]) = S
    BY <2>9 DEF Enumerates
  <2> QED
    BY <2>1, <2>2, <2>4, <2>6, <2>10
<1>10. l \in Seq(Seq(N))
  <2>1. PICK U : U = Seq(N)
    OBVIOUS
  <2>2. l = [i \in 1..n |-> l[i]]
    BY <1>4, <1>7 DEF SortedLists
  <2>3. l \in [1..n -> U]
    BY <1>9, <2>1, <2>2
  <2>4. l \in Seq(U)
    BY <1>4, <2>3, SeqIntro
  <2> QED
    BY <2>1, <2>4
<1>11. PICK g : g = GroupLists(gs)
  OBVIOUS
<1>12. Splits(g, N) /\ DOMAIN g = DOMAIN gs /\ \A k \in DOMAIN gs : g[k] = gs[k].members
  BY <1>1, <1>11 DEF IsScored, GroupLists
<1>13. ASSUME NEW i \in 1..n, NEW j \in 1..n, i # j PROVE ToSet(l[i]) \cap ToSet(l[j]) = {}
  <2>1. PICK a \in DOMAIN gs : all[i] = gs[a]
    BY <1>2, <1>4 DEF ToSet
  <2>2. PICK b \in DOMAIN gs : all[j] = gs[b]
    BY <1>2, <1>4 DEF ToSet
  <2>3. a # b
    BY <1>6, <1>13, <2>1, <2>2
  <2>4. ToSet(g[a]) \cap ToSet(g[b]) = {}
    BY <1>12, <2>3 DEF Splits
  <2> QED
    BY <1>9, <1>12, <2>1, <2>2, <2>4
<1>14. ASSUME NEW x \in N PROVE \E i \in 1..n : x \in ToSet(l[i])
  <2>1. PICK k \in DOMAIN gs : x \in ToSet(g[k])
    BY <1>12 DEF Splits
  <2>2. gs[k] \in G
    BY <1>2 DEF ToSet
  <2>3. PICK i \in 1..n : all[i] = gs[k]
    BY <1>5, <2>2
  <2> QED
    BY <1>9, <1>12, <2>1, <2>3
<1>15. Splits(l, N)
  BY <1>8, <1>9, <1>10, <1>13, <1>14 DEF Splits
<1> QED
  BY <1>1, <1>7, <1>15, EnumFlatten

(* The best groups first, buffered ones last: the order of                 *)
(* _reorder_by_score has every new request.                                *)
LEMMA ReorderFacts ==
    ASSUME NEW gs, IsScored(gs, NewWaiting), NEW ages
    PROVE  Enumerates(ReorderByScore(gs, ages), NewWaiting)
<1>1. PICK G : G = ToSet(gs)
  OBVIOUS
<1>2. Enumerates(gs, G)
  BY <1>1, IsScoredOnce
<1>3. PICK R : R = {i \in DOMAIN gs : Ready(gs[i], ages)}
  OBVIOUS
<1>4. PICK B : B = DOMAIN gs \ R
  OBVIOUS
<1>5. R \in SUBSET (DOMAIN gs) /\ B \in SUBSET (DOMAIN gs)
  BY <1>3, <1>4
<1>6. Scores(gs)
  BY IsScoredScores
<1>7. ASSUME NEW I \in SUBSET (DOMAIN gs), NEW T, T = {gs[i] : i \in I}
      PROVE  Enumerates(StableSort(Subsequence(gs, I), HigherScore), T)
  <2>1. PICK t : t = Subsequence(gs, I)
    OBVIOUS
  <2>2. Enumerates(t, T)
    BY <1>2, <1>7, <2>1, SubsequenceFacts
  <2>3. \A x \in T : x.num \in Int /\ x.den \in Nat /\ x.den > 0
    BY <1>6, <1>7 DEF Scores
  <2>4. DOMAIN t = 1..Len(t) /\ \A i \in 1..Len(t) : t[i] \in T
    BY <2>2, EnumFacts
  <2>5. Scores(t)
    BY <2>3, <2>4 DEF Scores
  <2> QED
    BY <2>1, <2>2, <2>5, ScoreSort
<1>8. PICK S : S = {gs[i] : i \in R}
  OBVIOUS
<1>9. PICK T : T = {gs[i] : i \in B}
  OBVIOUS
<1>10. PICK ready : ready = StableSort(Subsequence(gs, R), HigherScore)
  OBVIOUS
<1>11. PICK buffering : buffering = StableSort(Subsequence(gs, B), HigherScore)
  OBVIOUS
<1>12. Enumerates(ready, S)
  BY <1>5, <1>7, <1>8, <1>10
<1>13. Enumerates(buffering, T)
  BY <1>5, <1>7, <1>9, <1>11
<1>14. S \cap T = {}
  <2>1. \A i, j \in DOMAIN gs : gs[i] = gs[j] => i = j
    BY <1>2 DEF Enumerates, IsInjective
  <2> QED
    BY <1>4, <1>5, <1>8, <1>9, <2>1
<1>15. G = S \cup T
  BY <1>1, <1>4, <1>5, <1>8, <1>9 DEF ToSet
<1>16. PICK all : all = ready \o buffering
  OBVIOUS
<1>17. Enumerates(all, G)
  BY <1>12, <1>13, <1>14, <1>15, <1>16, EnumConcat
<1>18. Enumerates(FlattenSeq(SortedLists(all)), NewWaiting)
  BY <1>1, <1>17, FlattenGroups
<1>19. ReorderByScore(gs, ages) = FlattenSeq(SortedLists(all))
  BY <1>3, <1>4, <1>10, <1>11, <1>16 DEF ReorderByScore, SortedLists
<1> QED
  BY <1>18, <1>19

(* The queue that the engine leaves: the new requests in their new order,  *)
(* then the others as they were.                                           *)
LEMMA EngineQueue ==
    ASSUME IInv, NEW ages, NEW w,
           w = ReorderByScore(ScoredGroups, ages)
                 \o Subsequence(waiting, {i \in DOMAIN waiting : ~IsNew(waiting[i])})
    PROVE  Enumerates(w, In(st, "waiting"))
<1>1. PICK S : S = In(st, "waiting")
  OBVIOUS
<1>2. PICK N : N = NewWaiting
  OBVIOUS
<1>3. PICK T : T = S \ N
  OBVIOUS
<1>4. PICK I : I = {i \in DOMAIN waiting : ~IsNew(waiting[i])}
  OBVIOUS
<1>5. Enumerates(waiting, S)
  BY <1>1 DEF IInv, QueuesExact
<1>6. \A i \in DOMAIN waiting : waiting[i] \in S
  BY <1>5, EnumFacts
<1>7. I \in SUBSET (DOMAIN waiting) /\ T \in SUBSET S /\ \A i \in DOMAIN waiting : i \in I <=> waiting[i] \in T
  BY <1>1, <1>2, <1>3, <1>4, <1>6 DEF NewWaiting
<1>8. PICK others : others = Subsequence(waiting, I)
  OBVIOUS
<1>9. Enumerates(others, T)
  BY <1>5, <1>7, <1>8, EnumFilter
<1>10. PICK front : front = ReorderByScore(ScoredGroups, ages)
  OBVIOUS
<1>11. IsScored(ScoredGroups, NewWaiting)
  BY ScoredGroupsFacts
<1>12. Enumerates(front, N)
  BY <1>2, <1>10, <1>11, ReorderFacts
<1>13. N \cap T = {} /\ S = N \cup T
  BY <1>1, <1>2, <1>3 DEF NewWaiting
<1>14. Enumerates(front \o others, S)
  BY <1>9, <1>12, <1>13, EnumConcat
<1> QED
  BY <1>1, <1>4, <1>8, <1>10, <1>14

-----------------------------------------------------------------------------
(* Counting references keeps the counts natural numbers.                   *)
FiniteLists(lists) ==
    IsFiniteSet(DOMAIN lists) /\ \A i \in DOMAIN lists : IsFiniteSet(DOMAIN lists[i])

(* Counting references gives natural numbers.                              *)
LEMMA IncType ==
    ASSUME NEW q \in [Block -> Nat], NEW lists, FiniteLists(lists)
    PROVE  IncQueueRefs(q, lists) \in [Block -> Nat]
<1>1. IsFiniteSet(Places(lists))
  BY PlacesFinite DEF FiniteLists
<1>2. PICK P : P = Places(lists)
  OBVIOUS
<1>3. ASSUME NEW b \in Block
      PROVE  q[b] + Cardinality({x \in P : /\ IsCached(lists[x[1]][x[2]])
                                           /\ GetCachedBlock(lists[x[1]][x[2]]) = b}) \in Nat
  <2>1. PICK A : A = {x \in P : /\ IsCached(lists[x[1]][x[2]])
                                /\ GetCachedBlock(lists[x[1]][x[2]]) = b}
    OBVIOUS
  <2>2. A \in SUBSET P
    BY <2>1
  <2>3. IsFiniteSet(P)
    BY <1>1, <1>2
  <2>4. IsFiniteSet(A)
    BY <2>2, <2>3, FS_Subset
  <2>5. Cardinality(A) \in Nat
    BY <2>4, FS_CardinalityType
  <2> QED
    BY <2>1, <2>5
<1> QED
  BY <1>2, <1>3 DEF IncQueueRefs

(* A sequence has finitely many places.                                    *)
LEMMA SeqFinite ==
    ASSUME NEW S, NEW s \in Seq(S)
    PROVE  IsFiniteSet(DOMAIN s)
<1>1. Len(s) \in Nat /\ DOMAIN s = 1..Len(s)
  OBVIOUS
<1> QED
  BY <1>1, UpTo

(* The cached prefix of a prompt is a list of hashes.                      *)
LEMMA PrefixSeq ==
    ASSUME NEW r \in Req
    PROVE  CachedPrefix(r) \in Seq(Hash)
<1>1. PICK hs : hs = BlockHashes[r]
  OBVIOUS
<1>2. hs \in Seq(Hash)
  BY <1>1, ServerAssumption
<1>3. PICK n : n = CachedPrefixLength(hs)
  OBVIOUS
<1>4. n \in 0..Len(hs)
  BY <1>2, <1>3, PrefixLengthFacts
<1>5. SubSeq(hs, 1, n) \in Seq(Hash)
  BY <1>2, <1>4
<1> QED
  BY <1>1, <1>3, <1>5 DEF CachedPrefix

(* The reference counts of the waiting queue are natural numbers.          *)
LEMMA UpdateType ==
    ASSUME IInv
    PROVE  UpdateQueueRefCounts \in [Block -> Nat]
<1>1. PICK lists : lists = [i \in DOMAIN NewReqs |-> CachedPrefix(NewReqs[i])]
  OBVIOUS
<1>2. PICK N : N = NewWaiting
  OBVIOUS
<1>3. PICK s : s = NewReqs
  OBVIOUS
<1>4. Enumerates(s, N)
  BY <1>2, <1>3, NewReqsFacts
<1>5. s \in Seq(N) /\ N \in SUBSET Req /\ \A i \in DOMAIN s : s[i] \in N
  BY <1>2, <1>4, NewWaitingFacts DEF Enumerates
<1>6. DOMAIN lists = DOMAIN s /\ \A i \in DOMAIN s : lists[i] = CachedPrefix(s[i])
  BY <1>1, <1>3
<1>7. IsFiniteSet(DOMAIN lists)
  BY <1>5, <1>6, SeqFinite
<1>8. ASSUME NEW i \in DOMAIN lists PROVE IsFiniteSet(DOMAIN lists[i])
  <2>1. lists[i] \in Seq(Hash)
    BY <1>5, <1>6, PrefixSeq
  <2> QED
    BY <2>1, SeqFinite
<1>9. FiniteLists(lists)
  BY <1>7, <1>8 DEF FiniteLists
<1>10. ResetQueueRefCounts \in [Block -> Nat]
  BY DEF ResetQueueRefCounts
<1>11. IncQueueRefs(ResetQueueRefCounts, lists) \in [Block -> Nat]
  BY <1>9, <1>10, IncType
<1> QED
  BY <1>1, <1>11 DEF UpdateQueueRefCounts

(* A subsequence is finite and takes its elements from the sequence.       *)
LEMMA SubsequenceFinite ==
    ASSUME NEW s, NEW n \in Nat, DOMAIN s = 1..n, NEW I \in SUBSET (1..n), NEW t, t = Subsequence(s, I)
    PROVE  IsFiniteSet(DOMAIN t) /\ \A k \in DOMAIN t : \E i \in I : t[k] = s[i]
<1>1. IsFiniteSet(1..n)
  BY UpTo
<1>2. IsFiniteSet(I)
  BY <1>1, FS_Subset
<1>3. I \in SUBSET Int
  OBVIOUS
<1>4. PICK a : a = Ascending(I)
  OBVIOUS
<1>5. Enumerates(a, I)
  BY <1>2, <1>3, <1>4, AscendingFacts
<1>6. a \in Seq(I) /\ \A k \in DOMAIN a : a[k] \in I
  BY <1>5 DEF Enumerates
<1>7. IsFiniteSet(DOMAIN a)
  BY <1>6, SeqFinite
<1>8. t = [k \in DOMAIN a |-> s[a[k]]]
  BY <1>4 DEF Subsequence, At
<1> QED
  BY <1>6, <1>7, <1>8

(* The n groups that are protected from, members of each in their order.   *)
Shape(gs, n) ==
    /\ n \in Nat /\ n > 0 /\ DOMAIN gs = 1..n /\ Len(gs) = n
    /\ \A i \in 1..n : gs[i].members \in Seq(NewWaiting) /\ gs[i].members # <<>> /\ gs[i].hit \in Nat

(* The scored groups as the hint code sees them.                           *)
LEMMA GroupShape ==
    ASSUME IInv, Len(NewReqs) > 1, NEW gs, gs = [i \in DOMAIN ScoredGroups |-> ShortestFirst(ScoredGroups[i])]
    PROVE  \E n : Shape(gs, n)
<1>1. PICK sg : sg = ScoredGroups
  OBVIOUS
<1>2. IsScored(sg, NewWaiting)
  BY <1>1, ScoredGroupsFacts
<1>3. PICK G : G = ToSet(sg)
  OBVIOUS
<1>4. Enumerates(sg, G)
  BY <1>2, <1>3, IsScoredOnce
<1>5. PICK n : n = Len(sg)
  OBVIOUS
<1>6. n \in Nat /\ DOMAIN sg = 1..n
  BY <1>4, <1>5, EnumFacts
<1>7. n > 0
  <2>1. Enumerates(NewReqs, NewWaiting)
    BY NewReqsFacts
  <2>2. NewReqs[1] \in NewWaiting
    BY <2>1, EnumFacts
  <2>3. \E i \in DOMAIN GroupLists(sg) : NewReqs[1] \in ToSet(GroupLists(sg)[i])
    BY <1>2, <2>2 DEF IsScored, Splits
  <2>4. \E i : i \in DOMAIN sg
    BY <2>3 DEF GroupLists
  <2> QED
    BY <1>6, <2>4
<1>8. gs = [i \in 1..n |-> ShortestFirst(sg[i])]
  BY <1>1, <1>6
<1>9. DOMAIN gs = 1..n /\ Len(gs) = n
  <2>1. PICK T : T = {ShortestFirst(sg[i]) : i \in 1..n}
    OBVIOUS
  <2>2. gs \in [1..n -> T]
    BY <1>8, <2>1
  <2> QED
    BY <1>6, <1>8, <2>2, SeqIntro
<1>10. ASSUME NEW i \in 1..n
       PROVE  gs[i].members \in Seq(NewWaiting) /\ gs[i].members # <<>> /\ gs[i].hit \in Nat
  <2>1. PICK m : m = sg[i].members
    OBVIOUS
  <2>2. sg[i] = Scored(m) /\ m \in Seq(NewWaiting) /\ m # <<>> /\ IsInjective(m)
    BY <1>2, <1>6, <2>1, IsScoredFacts
  <2>3. gs[i] = ShortestFirst(Scored(m))
    BY <1>8, <2>2
  <2>4. PICK t : t = StableSort(m, LAMBDA a, b : Len(BlockHashes[a]) < Len(BlockHashes[b]))
    OBVIOUS
  <2>5. gs[i].members = t
    BY <2>3, <2>4, ScoredMembers
  <2>6. PICK S : S = ToSet(m)
    OBVIOUS
  <2>7. Enumerates(m, S)
    BY <2>2, <2>6, EnumSelf
  <2>8. S \in SUBSET NewWaiting /\ Head(m) \in S
    BY <2>2, <2>6 DEF ToSet
  <2>9. S \in SUBSET Req
    BY <2>8, NewWaitingFacts
  <2>10. Enumerates(t, S)
    BY <2>4, <2>7, <2>9, LengthSort
  <2>11. t \in Seq(S) /\ ToSet(t) = S
    BY <2>10 DEF Enumerates
  <2>12. t \in Seq(NewWaiting)
    BY <2>8, <2>11
  <2>13. t # <<>>
    BY <2>8, <2>11 DEF ToSet
  <2>14. Scored(m).hit \in 0..Len(BlockHashes[Head(m)]) /\ Head(m) \in NewWaiting
    BY <2>2, ScoreFacts
  <2>15. Len(BlockHashes[Head(m)]) \in Nat
    BY <2>14, NewWaitingFacts
  <2>16. ShortestFirst(Scored(m)).hit = Scored(m).hit
    BY ScoredMembers
  <2>17. gs[i].hit \in Nat
    BY <2>3, <2>14, <2>15, <2>16
  <2> QED
    BY <2>5, <2>12, <2>13, <2>17
<1> QED
  BY <1>6, <1>7, <1>9, <1>10 DEF Shape

(* A quotient of natural numbers is one.                                   *)
LEMMA NatQuotient == \A a, b \in Nat : b > 0 => a \div b \in Nat
OBVIOUS

(* The number of protected groups is at most the number of groups.         *)
LEMMA ProtectKFacts ==
    ASSUME NEW gs, NEW n, Shape(gs, n)
    PROVE  ProtectK(gs) \in 0..n
<1>1. n \in Nat /\ n > 0 /\ DOMAIN gs = 1..n /\ Len(gs) = n
  BY DEF Shape
<1>2. PICK lists : lists = [i \in DOMAIN gs |-> BlockHashes[Head(gs[i].members)]]
  OBVIOUS
<1>3. IsFiniteSet(DOMAIN lists)
  BY <1>1, <1>2, UpTo
<1>4. ASSUME NEW i \in DOMAIN lists PROVE IsFiniteSet(DOMAIN lists[i])
  <2>1. gs[i].members \in Seq(NewWaiting) /\ gs[i].members # <<>>
    BY <1>1, <1>2 DEF Shape
  <2>2. Head(gs[i].members) \in NewWaiting
    BY <2>1
  <2>3. lists[i] \in Seq(Hash)
    BY <1>2, <2>2, NewWaitingFacts
  <2> QED
    BY <2>3, SeqFinite
<1>5. PICK P : P = Places(lists)
  OBVIOUS
<1>6. IsFiniteSet(P)
  BY <1>3, <1>4, <1>5, PlacesFinite
<1>7. PICK sum \in Nat : sum = Cardinality(P)
  BY <1>6, FS_CardinalityType
<1>8. PICK mean \in Nat : mean = sum \div n
  BY <1>1, <1>7, NatQuotient
<1>9. PICK m \in Nat : m = Max({1, mean}) /\ m > 0
  <2>1. Max({1, mean}) = IF 1 >= mean THEN 1 ELSE mean
    BY <1>8, MaxOfTwo
  <2> QED
    BY <2>1
<1>10. PICK all \in Nat : all = Cardinality(Block) + 1
  <2>1. Cardinality(Block) \in Nat
    BY PoolAssumption, FS_CardinalityType
  <2> QED
    BY <2>1
<1>11. PICK capacity \in Nat : capacity = all \div m
  BY <1>9, <1>10, NatQuotient
<1>12. PICK k \in Nat : k = (capacity * 2) \div 3
  <2>1. capacity * 2 \in Nat
    OBVIOUS
  <2> QED
    BY <2>1, NatQuotient
<1>13. PICK l \in Nat : l = Max({1, k})
  <2>1. Max({1, k}) = IF 1 >= k THEN 1 ELSE k
    BY MaxOfTwo
  <2> QED
    BY <2>1
<1>14. Min({n, l}) = IF n <= l THEN n ELSE l
  <2>1. n \in Int /\ l \in Int
    BY <1>1
  <2> QED
    BY <2>1, MinOfTwo, Zenon
<1>15. ProtectK(gs) = Min({n, l})
  BY <1>1, <1>2, <1>5, <1>7, <1>8, <1>9, <1>10, <1>11, <1>12, <1>13,
     Zenon DEF ProtectK
<1> QED
  BY <1>1, <1>14, <1>15

(* What is protected is finitely many hashes.                              *)
LEMMA ProtectFinite ==
    ASSUME NEW gs, NEW n, Shape(gs, n), NEW ages, NEW lists, lists = ProtectTopGroups(gs, ages)
    PROVE  FiniteLists(lists)
<1>1. n \in Nat /\ n > 0 /\ DOMAIN gs = 1..n
  BY DEF Shape
<1>2. PICK k : k = ProtectK(gs)
  OBVIOUS
<1>3. k \in 0..n
  BY <1>2, ProtectKFacts
<1>4. PICK I : I = {i \in 1..k : ~(ages[gs[i].key] = Stale /\ Len(gs[i].members) <= 1)}
  OBVIOUS
<1>5. I \in SUBSET (1..n)
  BY <1>1, <1>3, <1>4
<1>6. PICK top : top = Subsequence(gs, I)
  OBVIOUS
<1>7. IsFiniteSet(DOMAIN top) /\ \A j \in DOMAIN top : \E i \in I : top[j] = gs[i]
  BY <1>1, <1>5, <1>6, SubsequenceFinite
<1>8. PICK key : key = [j \in DOMAIN top |-> KeyPrefix(BlockHashes[Head(top[j].members)], top[j].hit)]
  BY Zenon
<1>9. lists = [j \in DOMAIN top |-> Subsequence(key[j], {x \in DOMAIN key[j] : IsCached(key[j][x])})]
  BY <1>2, <1>4, <1>6, <1>8, Zenon DEF ProtectTopGroups
<1>10. ASSUME NEW j \in DOMAIN top PROVE IsFiniteSet(DOMAIN lists[j])
  <2>1. PICK i \in 1..n : top[j] = gs[i]
    BY <1>5, <1>7
  <2>2. gs[i].members \in Seq(NewWaiting) /\ gs[i].members # <<>> /\ gs[i].hit \in Nat
    BY DEF Shape
  <2>3. PICK hs : hs = BlockHashes[Head(gs[i].members)]
    OBVIOUS
  <2>4. Head(gs[i].members) \in NewWaiting
    BY <2>2
  <2>5. hs \in Seq(Hash)
    BY <2>3, <2>4, NewWaitingFacts
  <2>6. PICK l \in Nat : l = Len(hs)
    BY <2>5
  <2>7. PICK h \in Nat : h = gs[i].hit
    BY <2>2
  <2>8. Min({h, l}) = IF h <= l THEN h ELSE l
    BY MinOfTwo
  <2>9. Min({h, l}) \in 0..l
    BY <2>8
  <2>10. PICK p : p = SubSeq(hs, 1, Min({h, l}))
    OBVIOUS
  <2>11. p \in Seq(Hash)
    <3>1. PICK v \in 0..l : v = Min({h, l})
      BY <2>9
    <3>2. SubSeq(hs, 1, v) \in Seq(Hash)
      BY <2>5, <2>6
    <3> QED
      BY <2>10, <3>1, <3>2
  <2>12. key[j] = p
    BY <1>8, <2>1, <2>3, <2>6, <2>7, <2>10 DEF KeyPrefix
  <2>13. PICK J : J = {x \in DOMAIN p : IsCached(p[x])}
    OBVIOUS
  <2>14. Len(p) \in Nat /\ DOMAIN p = 1..Len(p) /\ J \in SUBSET (1..Len(p))
    BY <2>11, <2>13
  <2>15. IsFiniteSet(DOMAIN Subsequence(p, J))
    BY <2>14, SubsequenceFinite
  <2> QED
    BY <1>9, <2>12, <2>13, <2>15
<1>11. DOMAIN lists = DOMAIN top
  BY <1>9
<1> QED
  BY <1>7, <1>10, <1>11 DEF FiniteLists

-----------------------------------------------------------------------------
(* schedule begins: the hook may reorder and count, the pool stays.        *)
LEMMA ScheduleInv ==
    ASSUME IInv, Schedule
    PROVE  IInv'
<1>1. TypeOK
  BY DEF IInv
<1>2. phase' = "first" /\ UNCHANGED <<mode, free, ref, cached, running, held, st, preempts>>
  BY DEF Schedule
<1>3. PICK S : S = In(st, "waiting")
  OBVIOUS
<1>4. Enumerates(waiting, S) /\ S \in SUBSET Req
  BY <1>3 DEF IInv, QueuesExact, In
<1>5. /\ Enumerates(waiting', S) /\ qref' \in [Block -> Nat]
      /\ demand' \in [Hash -> Nat] /\ depth' \in [Hash -> Nat]
  <2>1. CASE /\ HookActs /\ qref' = UpdateQueueRefCounts
             /\ UNCHANGED <<waiting, first_seen, prev, demand, depth>>
    <3>1. qref' \in [Block -> Nat]
      BY <2>1, UpdateType
    <3> QED
      BY <1>1, <1>4, <2>1, <3>1 DEF TypeOK
  <2>2. CASE HookActs /\ EngineRun /\ UNCHANGED <<demand, depth>>
    <3>1. PICK gs : gs = [i \in DOMAIN ScoredGroups |-> ShortestFirst(ScoredGroups[i])]
      OBVIOUS
    <3>2. PICK ages :
            /\ waiting' = ReorderByScore(ScoredGroups, ages)
                            \o Subsequence(waiting, {i \in DOMAIN waiting : ~IsNew(waiting[i])})
            /\ qref' = IncQueueRefs(ResetQueueRefs, ProtectTopGroups(gs, ages))
      BY <2>2, <3>1 DEF EngineRun
    <3>3. Enumerates(waiting', S)
      BY <1>3, <3>2, EngineQueue
    <3>4. PICK n : Shape(gs, n)
      BY <2>2, <3>1, GroupShape DEF HookActs
    <3>5. PICK lists : lists = ProtectTopGroups(gs, ages)
      OBVIOUS
    <3>6. FiniteLists(lists)
      BY <3>4, <3>5, ProtectFinite
    <3>7. PICK q : q = ResetQueueRefs
      OBVIOUS
    <3>8. q \in [Block -> Nat]
      BY <1>1, <3>7 DEF ResetQueueRefs, ResetQueueRefCounts, TypeOK
    <3>9. IncQueueRefs(q, lists) \in [Block -> Nat]
      BY <3>6, <3>8, IncType
    <3> QED
      BY <1>1, <2>2, <3>2, <3>3, <3>5, <3>7, <3>9 DEF TypeOK
  <2>3. CASE OnlineSync(waiting) /\ waiting' \in Reorderings(waiting) /\ UNCHANGED <<qref, first_seen, prev>>
    <3>1. Enumerates(waiting', S)
      BY <1>4, <2>3, EnumReordering
    <3>2. ToSet(waiting) \in SUBSET Req
      BY <1>4 DEF Enumerates
    <3>3. demand' \in [Hash -> Nat] /\ depth' \in [Hash -> Nat]
      <4>1. depth \in [Hash -> Nat]
        BY <1>1 DEF TypeOK
      <4> QED
        BY <2>3, <3>2, <4>1, SyncType
    <3> QED
      BY <1>1, <2>3, <3>1, <3>3 DEF TypeOK
  <2>4. CASE UNCHANGED <<qref, waiting, first_seen, prev, demand, depth>>
    BY <1>1, <1>4, <2>4 DEF TypeOK
  <2> QED
    BY <2>1, <2>2, <2>3, <2>4 DEF Schedule
<1>6. waiting' \in Seq(Req)
  BY <1>3, <1>5, QueueType
<1>7. TypeOK'
  BY <1>1, <1>2, <1>5, <1>6 DEF TypeOK
<1>8. QueuesExact(waiting', running', st')
  BY <1>2, <1>3, <1>5 DEF IInv, QueuesExact
<1> QED
  BY <1>2, <1>7, <1>8 DEF IInv

(* The wrapper around schedule() (reorder, count references, publish       *)
(* hints) keeps the invariant.                                             *)
LEMMA EndScheduleInv ==
    ASSUME IInv, EndSchedule
    PROVE  IInv'
<1>1. phase' = "idle" /\ UNCHANGED <<poolVars, waiting, running, held, st, preempts>>
  BY DEF EndSchedule
<1>2. TypeOK'
  BY <1>1 DEF IInv, TypeOK, poolVars
<1> QED
  BY <1>1, <1>2 DEF IInv, poolVars

(* Doing nothing keeps it.                                                 *)
LEMMA StutterInv ==
    ASSUME IInv, UNCHANGED vars
    PROVE  IInv'
<1>1. TypeOK'
  BY DEF IInv, TypeOK, vars, poolVars
<1> QED
  BY <1>1 DEF IInv, vars, poolVars

(* IInv is invariant under the patched scheduler of patch_hook.py and its  *)
(* block pool: whatever arrives, is reordered, admitted, preempted or      *)
(* finishes.                                                               *)
THEOREM ServerInvariant == Spec => []IInv
<1>1. Init => IInv
  BY InitInv
<1>2. IInv /\ [Next]_vars => IInv'
  <2> SUFFICES ASSUME IInv, [Next]_vars PROVE IInv'
    OBVIOUS
  <2>1. ASSUME NEW r \in Req, Arrive(r) PROVE IInv'
    BY <2>1, ArriveInv
  <2>2. ASSUME NEW r \in Req, Finish(r) PROVE IInv'
    BY <2>2, FinishInv
  <2>3. CASE Schedule
    BY <2>3, ScheduleInv
  <2>4. CASE Admit
    BY <2>4, AdmitInv
  <2>5. CASE EndSchedule
    BY <2>5, EndScheduleInv
  <2>6. CASE Preempt
    BY <2>6, PreemptInv
  <2>7. CASE Wait
    BY <2>7, StutterInv DEF Wait
  <2>8. CASE UNCHANGED vars
    BY <2>8, StutterInv
  <2> QED
    BY <2>1, <2>2, <2>3, <2>4, <2>5, <2>6, <2>7, <2>8 DEF Next
<1> QED
  BY <1>1, <1>2, PTL DEF Spec

(* A set without two different elements has at most one.                   *)
LEMMA AtMostOne ==
    ASSUME NEW X, \A x, y \in X : x = y
    PROVE  Cardinality(X) <= 1
<1>1. CASE X = {}
  BY <1>1, FS_EmptySet
<1>2. CASE X # {}
  <2>1. PICK x : x \in X
    BY <1>2
  <2>2. X = {x}
    BY <2>1
  <2>3. Cardinality({x}) = 1
    BY FS_Singleton
  <2> QED
    BY <2>2, <2>3
<1> QED
  BY <1>1, <1>2

(* The block pool stays exact under the patched get_new_blocks: a block is *)
(* in the free queue, once, exactly when nobody holds it, and it is cached *)
(* under one hash at most.                                                 *)
THEOREM VllmPoolExact == Spec => []PoolExact
<1>1. IInv => PoolExact
  <2> SUFFICES ASSUME IInv PROVE PoolExact
    OBVIOUS
  <2>1. TypeOK /\ CachedOnce(cached) /\ Enumerates(free, FreeBlocks(ref)) /\ RefExact(ref, held)
    BY DEF IInv, FreeExact
  <2>2. \A i, j \in DOMAIN free : free[i] = free[j] => i = j
    BY <2>1 DEF Enumerates, IsInjective
  <2>3. ToSet(free) = {b \in Block : ref[b] = 0}
    BY <2>1 DEF Enumerates, FreeBlocks
  <2>4. ASSUME NEW b \in Block
        PROVE  /\ ref[b] = Cardinality({r \in Req : b \in ToSet(held[r])})
               /\ Cardinality({x \in Hash \X (1..Cardinality(Block)) :
                                 x[2] \in DOMAIN cached[x[1]] /\ cached[x[1]][x[2]] = b}) <= 1
    <3>1. PICK X : X = {x \in Hash \X (1..Cardinality(Block)) :
                           x[2] \in DOMAIN cached[x[1]] /\ cached[x[1]][x[2]] = b}
      OBVIOUS
    <3>2. ASSUME NEW x \in X, NEW y \in X PROVE x = y
      <4>1. /\ x = <<x[1], x[2]>> /\ x[1] \in Hash /\ x[2] \in DOMAIN cached[x[1]] /\ cached[x[1]][x[2]] = b
            /\ y = <<y[1], y[2]>> /\ y[1] \in Hash /\ y[2] \in DOMAIN cached[y[1]] /\ cached[y[1]][y[2]] = b
        BY <3>1
      <4>2. b \in ToSet(cached[x[1]]) /\ b \in ToSet(cached[y[1]])
        BY <4>1 DEF ToSet
      <4>3. x[1] = y[1]
        BY <2>1, <4>1, <4>2 DEF CachedOnce
      <4>4. x[2] = y[2]
        BY <2>1, <4>1, <4>3 DEF CachedOnce, IsInjective
      <4> QED
        BY <4>1, <4>3, <4>4
    <3>3. Cardinality(X) <= 1
      BY <3>2, AtMostOne
    <3>4. ref[b] = Cardinality({r \in Req : b \in ToSet(held[r])})
      BY <2>1 DEF RefExact, Holders
    <3> QED
      BY <3>1, <3>3, <3>4
  <2>5. \A r \in Req : st[r] = "running" =>
          \A i \in DOMAIN BlockHashes[r] : held[r][i] \in ToSet(cached[BlockHashes[r][i]])
    BY DEF IInv, PromptsCached, In
  <2> QED
    BY <2>1, <2>2, <2>3, <2>4, <2>5 DEF PoolExact
<1> QED
  BY <1>1, ServerInvariant, PTL

(* The reordering of the wrapped schedule() loses and repeats nobody: the  *)
(* queue has every waiting request once and no other.                      *)
THEOREM VllmQueueExact == Spec => []QueueExact
<1>1. IInv => QueueExact
  <2> SUFFICES ASSUME IInv, NEW r \in Req
               PROVE  Cardinality({i \in DOMAIN waiting : waiting[i] = r})
                        = IF st[r] = "waiting" THEN 1 ELSE 0
    BY DEF QueueExact
  <2>1. Enumerates(waiting, In(st, "waiting"))
    BY DEF IInv, QueuesExact
  <2>2. PICK X : X = {i \in DOMAIN waiting : waiting[i] = r}
    OBVIOUS
  <2>3. CASE st[r] = "waiting"
    <3>1. r \in ToSet(waiting)
      BY <2>1, <2>3 DEF Enumerates, In
    <3>2. PICK i \in DOMAIN waiting : waiting[i] = r
      BY <3>1 DEF ToSet
    <3>3. X = {i}
      BY <2>1, <2>2, <3>2 DEF Enumerates, IsInjective
    <3>4. Cardinality({i}) = 1
      BY FS_Singleton
    <3> QED
      BY <2>2, <2>3, <3>3, <3>4
  <2>4. CASE st[r] # "waiting"
    <3>1. r \notin ToSet(waiting)
      BY <2>1, <2>4 DEF Enumerates, In
    <3>2. X = {}
      BY <2>2, <3>1 DEF ToSet
    <3>3. Cardinality({}) = 0
      BY FS_EmptySet
    <3> QED
      BY <2>2, <2>4, <3>2, <3>3
  <2> QED
    BY <2>3, <2>4
<1> QED
  BY <1>1, ServerInvariant, PTL

-----------------------------------------------------------------------------
(* What an admission hands out, as seen from outside.                      *)
LEMMA AdmitHandsOut ==
    ASSUME IInv, Admit,
           NEW r, NEW hit, NEW rest, NEW n, NEW out, Admission(r, hit, rest, n, out)
    PROVE  /\ HandedOut = ToSet(out) /\ Cardinality(HandedOut) = n
           /\ \E F \in SUBSET Block : Enumerates(rest, F)
           /\ n \in Nat /\ Picks(out, n, rest, Seen(rest, n), Worth)
<1>1. PICK H : H = ToSet(hit)
  OBVIOUS
<1>2. PICK O : O = ToSet(out)
  OBVIOUS
<1>3. PICK F : F = FreeBlocks(ref) \ H
  OBVIOUS
<1>4. waiting # <<>> /\ Fits(Head(waiting))
  BY DEF Admit
<1>5. Taken(r, hit, rest, n, out, H, O, F)
  BY <1>1, <1>2, <1>3, <1>4, AdmissionFacts
<1>6. /\ Enumerates(rest, F) /\ n \in 0..Len(rest)
      /\ Enumerates(out, O) /\ Len(out) = n /\ O \in SUBSET F
      /\ Picks(out, n, rest, Seen(rest, n), Worth)
  BY <1>5 DEF Taken
<1>7. r = Head(waiting) /\ hit = HitBlocks(r) /\ out = GetNewBlocks(Detach(free, hit), NewBlocks(r))
  BY DEF Admission
<1>8. ref' = [b \in Block |-> IF b \in H \cup O THEN ref[b] + 1 ELSE ref[b]]
  BY <1>1, <1>2, <1>7 DEF Admit
<1>9. ref \in [Block -> Nat]
  BY DEF IInv, TypeOK
<1>10. HandedOut = {b \in Block : ref[b] = 0 /\ ref'[b] > 0 /\ b \notin H}
  BY <1>1, <1>7 DEF HandedOut
<1>11. F = {b \in Block : ref[b] = 0 /\ b \notin H}
  BY <1>3 DEF FreeBlocks
<1>12. HandedOut = O
  <2>1. ASSUME NEW b \in O PROVE b \in HandedOut
    <3>1. b \in Block /\ ref[b] = 0 /\ b \notin H
      BY <1>6, <1>11
    <3>2. ref'[b] = 1
      BY <1>8, <3>1
    <3> QED
      BY <1>10, <3>1, <3>2
  <2>2. ASSUME NEW b \in HandedOut PROVE b \in O
    BY <1>8, <1>10
  <2> QED
    BY <2>1, <2>2
<1>13. Cardinality(O) = n
  BY <1>6, EnumLength
<1>14. F \in SUBSET Block /\ n \in Nat
  BY <1>6, <1>11
<1> QED
  BY <1>2, <1>6, <1>12, <1>13, <1>14

(* How much of the free queue an allocation looks at.                      *)
LEMMA SeenFacts ==
    ASSUME TypeOK, NEW F, NEW q, Enumerates(q, F), NEW n \in Nat
    PROVE  Seen(q, n) \in 0..Len(q)
<1>1. Len(q) \in Nat
  BY EnumFacts
<1>2. Cap(n) \in Nat
  BY CapFacts
<1>3. Min({Cap(n), Len(q)}) = IF Cap(n) <= Len(q) THEN Cap(n) ELSE Len(q)
  BY <1>1, <1>2, MinOfTwo
<1> QED
  BY <1>1, <1>2, <1>3 DEF Seen

(* Before, of places, is GoesBefore, of the blocks that are there.         *)
LEMMA GoesBeforeFacts ==
    ASSUME NEW F \in SUBSET Block, NEW q, Enumerates(q, F), NEW i \in DOMAIN q, NEW j \in DOMAIN q,
           Before(Worth, q, i, j), NEW b, b = q[i], NEW c, c = q[j]
    PROVE  GoesBefore(q, b, c)
<1>1. \A k, l \in DOMAIN q : q[k] = q[l] => k = l
  BY DEF Enumerates, IsInjective
<1>2. (CHOOSE k \in DOMAIN q : q[k] = b) = i
  BY <1>1
<1>3. (CHOOSE k \in DOMAIN q : q[k] = c) = j
  BY <1>1
<1>4. b \in Block /\ c \in Block
  BY DEF Enumerates, ToSet
<1>5. PICK w : w = Worth[b]
  OBVIOUS
<1>6. PICK v : v = Worth[c]
  OBVIOUS
<1>7. w < v \/ (w = v /\ i < j)
  BY <1>5, <1>6 DEF Before
<1>8. w = CASE mode \in {"plain", "cluster"} -> Priority(b)
            [] mode \in {"refs", "engine"}   -> qref[b]
            [] mode = "off"                  -> 0
  BY <1>4, <1>5 DEF Worth
<1>9. v = CASE mode \in {"plain", "cluster"} -> Priority(c)
            [] mode \in {"refs", "engine"}   -> qref[c]
            [] mode = "off"                  -> 0
  BY <1>4, <1>6 DEF Worth
<1> QED
  BY <1>2, <1>3, <1>7, <1>8, <1>9 DEF GoesBefore

CheapestOf(X, window, q) ==
    X \subseteq window /\ \A b \in X, c \in window \ X : GoesBefore(q, b, c)

(* An admission evicts the cheapest blocks of its window.                  *)
LEMMA CheapestStep ==
    ASSUME IInv, Admit, NEW X, X = HandedOut, NEW n, n = Cardinality(X),
           NEW q, q = Detach(free, HitBlocks(Head(waiting))), NEW window,
           window = ToSet(SubSeq(q, 1, Seen(q, n))), n <= Seen(q, n)
    PROVE  CheapestOf(X, window, q)
<1>1. PICK r, hit, m, out : Admission(r, hit, q, m, out)
  BY DEF Admission
<1>2. X = ToSet(out) /\ n = m
  BY <1>1, AdmitHandsOut
<1>3. PICK F \in SUBSET Block : Enumerates(q, F)
  BY <1>1, AdmitHandsOut
<1>4. n \in Nat
  BY <1>1, <1>2, AdmitHandsOut
<1>5. Picks(out, n, q, Seen(q, n), Worth)
  BY <1>1, <1>2, AdmitHandsOut
<1>6. PICK L : L = Seen(q, n)
  OBVIOUS
<1>7. TypeOK
  BY DEF IInv
<1>8. L \in 0..Len(q)
  BY <1>3, <1>4, <1>6, <1>7, SeenFacts
<1>9. Len(q) \in Nat /\ DOMAIN q = 1..Len(q)
  BY <1>3, EnumFacts
<1>10. PICK J \in SUBSET (DOMAIN q) :
         /\ Enumerates(out, ElementsAt(q, J))
         /\ J \in SUBSET (1..L)
         /\ \A i \in J, j \in (1..L) \ J : Before(Worth, q, i, j)
  BY <1>5, <1>6 DEF Picks
<1>11. X = ElementsAt(q, J)
  BY <1>2, <1>10 DEF Enumerates
<1>12. window = ElementsAt(q, 1..L)
  <2>1. q \in Seq(F)
    BY <1>3 DEF Enumerates
  <2>2. PICK w : w = SubSeq(q, 1, L)
    OBVIOUS
  <2>3. DOMAIN w = 1..L /\ \A i \in 1..L : w[i] = q[i]
    BY <1>8, <2>1, <2>2
  <2>4. ToSet(w) = {q[i] : i \in 1..L}
    BY <2>3 DEF ToSet
  <2> QED
    BY <1>6, <2>2, <2>4 DEF ElementsAt
<1>13. X \in SUBSET window
  BY <1>10, <1>11, <1>12 DEF ElementsAt
<1>14. ASSUME NEW b \in X, NEW c \in window \ X PROVE GoesBefore(q, b, c)
  <2>1. PICK i \in J : b = q[i]
    BY <1>11 DEF ElementsAt
  <2>2. PICK j \in 1..L : c = q[j]
    BY <1>12 DEF ElementsAt
  <2>3. j \notin J
    BY <1>11, <2>2 DEF ElementsAt
  <2>4. i \in DOMAIN q /\ j \in DOMAIN q
    BY <1>8, <1>9, <1>10
  <2>5. Before(Worth, q, i, j)
    BY <1>10, <2>3
  <2> QED
    BY <1>3, <2>1, <2>2, <2>4, <2>5, GoesBeforeFacts
<1> QED
  BY <1>13, <1>14 DEF CheapestOf

(* Every get_new_blocks, of whichever victim selection, evicts the         *)
(* cheapest blocks it looks at.                                            *)
THEOREM VllmVictimsAreCheapest == Spec => VictimsAreCheapest
<1>1. IInv /\ [Next]_vars =>
        [LET n      == Cardinality(HandedOut)
             q      == Detach(free, HitBlocks(Head(waiting)))
             seen   == IF mode \in {"plain", "cluster"} THEN Min({Cap(n), Len(q)}) ELSE Len(q)
             window == ToSet(SubSeq(q, 1, seen))
         IN phase' = "more" /\ n <= seen =>
               /\ HandedOut \subseteq window
               /\ \A b \in HandedOut, c \in window \ HandedOut : GoesBefore(q, b, c)]_vars
  <2> SUFFICES ASSUME IInv, Next, phase' = "more", ~UNCHANGED vars
               PROVE  LET n      == Cardinality(HandedOut)
                          q      == Detach(free, HitBlocks(Head(waiting)))
                          seen   == IF mode \in {"plain", "cluster"} THEN Min({Cap(n), Len(q)}) ELSE Len(q)
                          window == ToSet(SubSeq(q, 1, seen))
                      IN n <= seen =>
                           /\ HandedOut \subseteq window
                           /\ \A b \in HandedOut, c \in window \ HandedOut : GoesBefore(q, b, c)
    OBVIOUS
  <2>1. Admit
    BY DEF Next, Arrive, Finish, Schedule, EndSchedule, Preempt, Wait
  <2>2. PICK X : X = HandedOut
    OBVIOUS
  <2>3. PICK n : n = Cardinality(X)
    OBVIOUS
  <2>4. PICK q : q = Detach(free, HitBlocks(Head(waiting)))
    OBVIOUS
  <2>5. PICK seen : seen = Seen(q, n)
    OBVIOUS
  <2>6. PICK window : window = ToSet(SubSeq(q, 1, seen))
    OBVIOUS
  <2>7. n <= seen => CheapestOf(X, window, q)
    BY <2>1, <2>2, <2>3, <2>4, <2>5, <2>6, CheapestStep
  <2>8. seen = IF mode \in {"plain", "cluster"} THEN Min({Cap(n), Len(q)}) ELSE Len(q)
    BY <2>5 DEF Seen
  <2> QED
    BY <2>2, <2>3, <2>4, <2>6, <2>7, <2>8 DEF CheapestOf
<1> QED
  BY <1>1, ServerInvariant, PTL DEF Spec, VictimsAreCheapest

(* Where a list of cached prefixes has the block b, and the requests that  *)
(* would reuse it.                                                         *)
PlacesOf(lists, b) ==
    {x \in Places(lists) : IsCached(lists[x[1]][x[2]]) /\ GetCachedBlock(lists[x[1]][x[2]]) = b}
Reusers(R, b) == {r \in R : b \in ToSet(HitBlocks(r))}

(* The places of a list of lists.                                          *)
LEMMA PlaceFacts ==
    ASSUME NEW lists, NEW x \in Places(lists)
    PROVE  x = <<x[1], x[2]>> /\ x[1] \in DOMAIN lists /\ x[2] \in DOMAIN lists[x[1]]
BY DEF Places

(* A place of a list of lists.                                             *)
LEMMA PlaceIntro ==
    ASSUME NEW lists, NEW i \in DOMAIN lists, NEW k \in DOMAIN lists[i]
    PROVE  <<i, k>> \in Places(lists)
<1>1. <<i, k>> \in {i} \X DOMAIN lists[i]
  OBVIOUS
<1> QED
  BY <1>1 DEF Places

(* The hashes of a cached prefix are cached.                               *)
LEMMA PrefixCached ==
    ASSUME NEW r \in Req, NEW p, p = CachedPrefix(r), NEW k \in DOMAIN p
    PROVE  IsCached(p[k])
<1>1. PICK hs : hs = BlockHashes[r]
  OBVIOUS
<1>2. hs \in Seq(Hash)
  BY <1>1, ServerAssumption
<1>3. PICK n : n = CachedPrefixLength(hs)
  OBVIOUS
<1>4. n \in 0..Len(hs) /\ \A i \in 1..n : IsCached(hs[i])
  BY <1>2, <1>3, PrefixLengthFacts
<1>5. p = SubSeq(hs, 1, n)
  BY <1>1, <1>3 DEF CachedPrefix
<1>6. DOMAIN p = 1..n /\ \A i \in 1..n : p[i] = hs[i]
  BY <1>2, <1>4, <1>5
<1> QED
  BY <1>4, <1>6

(* One reference for each request that would reuse the block.              *)
LEMMA CountRefs ==
    ASSUME TypeOK, CachedOnce(cached), NEW R \in SUBSET Req, NEW s, Enumerates(s, R), NEW b \in Block,
           NEW lists, lists = [i \in DOMAIN s |-> CachedPrefix(s[i])]
    PROVE  Cardinality(PlacesOf(lists, b)) = Cardinality(Reusers(R, b))
<1>1. PICK P : P = PlacesOf(lists, b)
  OBVIOUS
<1>2. PICK T : T = Reusers(R, b)
  OBVIOUS
<1>3. PICK f : f = [x \in P |-> s[x[1]]]
  OBVIOUS
<1>4. DOMAIN lists = DOMAIN s /\ \A i \in DOMAIN s : s[i] \in R /\ lists[i] = CachedPrefix(s[i])
  BY DEF Enumerates, ToSet
<1>5. ASSUME NEW x \in P
      PROVE  /\ x = <<x[1], x[2]>> /\ x[1] \in DOMAIN s /\ x[2] \in DOMAIN HitBlocks(s[x[1]])
             /\ HitBlocks(s[x[1]])[x[2]] = b /\ s[x[1]] \in T
  <2>1. x \in Places(lists) /\ GetCachedBlock(lists[x[1]][x[2]]) = b
    BY <1>1 DEF PlacesOf
  <2>2. x = <<x[1], x[2]>> /\ x[1] \in DOMAIN lists /\ x[2] \in DOMAIN lists[x[1]]
    BY <2>1, PlaceFacts
  <2>3. PICK r \in R : r = s[x[1]] /\ lists[x[1]] = CachedPrefix(r)
    BY <1>4, <2>2
  <2>4. x[2] \in DOMAIN HitBlocks(r) /\ HitBlocks(r)[x[2]] = b
    BY <2>1, <2>2, <2>3 DEF HitBlocks
  <2>5. b \in ToSet(HitBlocks(r))
    BY <2>4 DEF ToSet
  <2>6. r \in T
    BY <1>2, <2>5 DEF Reusers
  <2> QED
    BY <1>4, <2>2, <2>3, <2>4, <2>6
<1>6. f \in [P -> T]
  BY <1>3, <1>5
<1>7. ASSUME NEW x \in P, NEW y \in P, f[x] = f[y] PROVE x = y
  <2>1. s[x[1]] = s[y[1]]
    BY <1>3, <1>7
  <2>2. x[1] = y[1]
    BY <1>5, <2>1 DEF Enumerates, IsInjective
  <2>3. PICK r \in Req : r = s[x[1]]
    BY <1>4, <1>5
  <2>4. PICK hit : hit = HitBlocks(r)
    OBVIOUS
  <2>5. IsInjective(hit)
    BY <2>4, HitFacts
  <2>6. x[2] \in DOMAIN hit /\ y[2] \in DOMAIN hit /\ hit[x[2]] = b /\ hit[y[2]] = b
    BY <1>5, <2>1, <2>3, <2>4
  <2>7. x[2] = y[2]
    BY <2>5, <2>6 DEF IsInjective
  <2>8. x = <<x[1], x[2]>> /\ y = <<y[1], y[2]>>
    BY <1>5
  <2> QED
    BY <2>2, <2>7, <2>8
<1>8. ASSUME NEW r \in T PROVE \E x \in P : f[x] = r
  <2>1. r \in R /\ b \in ToSet(HitBlocks(r))
    BY <1>2 DEF Reusers
  <2>2. PICK i \in DOMAIN s : s[i] = r
    BY <2>1 DEF Enumerates, ToSet
  <2>3. PICK k \in DOMAIN HitBlocks(r) : HitBlocks(r)[k] = b
    BY <2>1 DEF ToSet
  <2>4. lists[i] = CachedPrefix(r)
    BY <1>4, <2>2
  <2>5. k \in DOMAIN CachedPrefix(r) /\ GetCachedBlock(CachedPrefix(r)[k]) = b
    BY <2>3 DEF HitBlocks
  <2>6. IsCached(CachedPrefix(r)[k])
    BY <2>1, <2>5, PrefixCached
  <2>7. <<i, k>> \in Places(lists)
    BY <1>4, <2>4, <2>5, PlaceIntro
  <2>8. PICK x : x = <<i, k>>
    OBVIOUS
  <2>9. x[1] = i /\ x[2] = k
    BY <2>8
  <2>10. x \in P
    BY <1>1, <2>4, <2>5, <2>6, <2>7, <2>8, <2>9 DEF PlacesOf
  <2> QED
    BY <1>3, <2>2, <2>9, <2>10
<1>9. f \in Bijection(P, T)
  BY <1>6, <1>7, <1>8 DEF Bijection, Injection, Surjection, IsInjective
<1>10. IsFiniteSet(P)
  <2>1. IsFiniteSet(DOMAIN lists)
    <3>1. s \in Seq(R)
      BY DEF Enumerates
    <3> QED
      BY <1>4, <3>1, SeqFinite
  <2>2. ASSUME NEW i \in DOMAIN lists PROVE IsFiniteSet(DOMAIN lists[i])
    <3>1. lists[i] \in Seq(Hash)
      BY <1>4, PrefixSeq
    <3> QED
      BY <3>1, SeqFinite
  <2>3. IsFiniteSet(Places(lists))
    BY <2>1, <2>2, PlacesFinite
  <2>4. P \in SUBSET Places(lists)
    BY <1>1 DEF PlacesOf
  <2> QED
    BY <2>3, <2>4, FS_Subset
<1>11. ExistsBijection(P, T)
  BY <1>9 DEF ExistsBijection
<1>12. Cardinality(T) = Cardinality(P)
  BY <1>10, <1>11, FS_Bijection
<1> QED
  BY <1>1, <1>2, <1>12

(* update_queue_ref_counts counts, for every block, the new waiting        *)
(* requests that would reuse it.                                           *)
THEOREM VllmRefsExact == Spec => RefsExact
<1>1. IInv /\ [Next]_vars =>
        [mode = "refs" /\ phase = "idle" /\ phase' = "first" /\ HookActs =>
           \A b \in Block : qref'[b] = Cardinality({r \in ToSet(NewReqs) : b \in ToSet(HitBlocks(r))})]_vars
  <2> SUFFICES ASSUME IInv, Next, mode = "refs", phase = "idle", phase' = "first", HookActs, NEW b \in Block
               PROVE  qref'[b] = Cardinality({r \in ToSet(NewReqs) : b \in ToSet(HitBlocks(r))})
    BY DEF vars
  <2>1. Schedule
    BY DEF Next, Arrive, Finish, Admit, EndSchedule, Preempt, Wait, vars
  <2>2. qref' = UpdateQueueRefCounts
    BY <2>1 DEF Schedule
  <2>3. PICK s : s = NewReqs
    OBVIOUS
  <2>4. PICK lists : lists = [i \in DOMAIN s |-> CachedPrefix(s[i])]
    OBVIOUS
  <2>5. qref'[b] = 0 + Cardinality(PlacesOf(lists, b))
    BY <2>2, <2>3, <2>4 DEF UpdateQueueRefCounts, ResetQueueRefCounts, IncQueueRefs, PlacesOf
  <2>6. PICK R : R = NewWaiting
    OBVIOUS
  <2>7. Enumerates(s, R) /\ R \in SUBSET Req
    BY <2>3, <2>6, NewReqsFacts, NewWaitingFacts
  <2>8. TypeOK /\ CachedOnce(cached)
    BY DEF IInv
  <2>9. Cardinality(PlacesOf(lists, b)) = Cardinality(Reusers(R, b))
    BY <2>4, <2>7, <2>8, CountRefs
  <2>10. R = ToSet(NewReqs)
    BY <2>3, <2>7 DEF Enumerates
  <2>11. IsFiniteSet(R)
    BY <2>7, EnumLength
  <2>12. Reusers(R, b) \in SUBSET R
    BY DEF Reusers
  <2>13. IsFiniteSet(Reusers(R, b))
    BY <2>11, <2>12, FS_Subset
  <2>14. Cardinality(Reusers(R, b)) \in Nat
    BY <2>13, FS_CardinalityType
  <2>15. qref'[b] = Cardinality(Reusers(R, b))
    BY <2>5, <2>9, <2>14
  <2> QED
    BY <2>10, <2>15 DEF Reusers
<1> QED
  BY <1>1, ServerInvariant, PTL DEF Spec, RefsExact
=============================================================================
