----------------------------- MODULE TrieProofs ------------------------------
(***************************************************************************)
(* What the operators of Trie do, for every trie, every prompt and every   *)
(* MaxDepth.  IsTrie(t, m, K) says that t is the trie of the paths m: its  *)
(* nodes are the beginnings of the paths, each with the count, the prompts *)
(* and the children it should have.  The empty trie is one; insertion and  *)
(* removal keep it so; a walk through the children in any order lists each *)
(* prompt once and keeps those that share a beginning together.            *)
(***************************************************************************)
EXTENDS Trie, OrderingProofs

(* p is the beginning of q, read token by token.                           *)
Begins(p, q) == Len(p) <= Len(q) /\ \A i \in 1..Len(p) : p[i] = q[i]

(* What begins with what, and the library's word for it.                   *)
LEMMA BeginsFacts ==
    ASSUME NEW K, NEW p \in Seq(K), NEW q \in Seq(K)
    PROVE  /\ Begins(p, p) /\ Begins(<<>>, p)
           /\ Begins(p, q) /\ Len(p) = Len(q) => p = q
           /\ IsPrefix(p, q) <=> Begins(p, q)
<1>1. Begins(p, p) /\ Begins(<<>>, p)
  BY DEF Begins
<1>2. ASSUME Begins(p, q), Len(p) = Len(q) PROVE p = q
  BY <1>2, SeqEqual DEF Begins
<1>3. PICK m, n : m = Len(p) /\ n = Len(q)
  BY Zenon
<1>4. m \in Nat /\ n \in Nat
  BY <1>3
<1>5. PICK a, b : a = SubSeq(p, 1, m) /\ b = SubSeq(q, 1, m)
  BY Zenon
<1>6. m <= n => /\ a \in Seq(K) /\ b \in Seq(K) /\ Len(a) = m /\ Len(b) = m
                /\ \A i \in 1..m : a[i] = p[i] /\ b[i] = q[i]
  <2> SUFFICES ASSUME m <= n
               PROVE  /\ a \in Seq(K) /\ b \in Seq(K) /\ Len(a) = m /\ Len(b) = m
                      /\ \A i \in 1..m : a[i] = p[i] /\ b[i] = q[i]
    OBVIOUS
  <2>1. m \in 0..Len(p) /\ m \in 0..Len(q)
    BY <1>3, <1>4
  <2> QED
    BY <1>3, <1>4, <1>5, <2>1
<1>7. m <= n => (a = b <=> \A i \in 1..m : p[i] = q[i])
  <2>1. m <= n /\ (\A i \in 1..m : p[i] = q[i]) => a = b
    BY <1>6, SeqEqual
  <2> QED
    BY <1>6, <2>1
<1>8. IsPrefix(p, q) <=> Begins(p, q)
  BY <1>3, <1>5, <1>7 DEF IsPrefix, Begins
<1> QED
  BY <1>1, <1>2, <1>8

(* Beginnings of beginnings, and of the same sequence.                     *)
LEMMA BeginsTrans ==
    ASSUME NEW K, NEW p \in Seq(K), NEW q \in Seq(K), NEW r \in Seq(K), Begins(q, r)
    PROVE  /\ Begins(p, q) => Begins(p, r)
           /\ Begins(p, r) /\ Len(p) <= Len(q) => Begins(p, q)
<1>1. PICK a, b, c : a = Len(p) /\ b = Len(q) /\ c = Len(r)
  BY Zenon
<1>2. a \in Nat /\ b \in Nat /\ c \in Nat
  BY <1>1
<1>3. b <= c /\ \A i \in 1..b : q[i] = r[i]
  BY <1>1, Zenon DEF Begins
<1>4. a <= b => a <= c /\ \A i \in 1..a : i \in 1..b
  BY <1>2, <1>3
<1> QED
  BY <1>1, <1>3, <1>4 DEF Begins

(* One token more.                                                         *)
LEMMA BeginsStep ==
    ASSUME NEW K, NEW p \in Seq(K), NEW q \in Seq(K), NEW k \in K
    PROVE  /\ Append(p, k) \in Seq(K) /\ Append(p, k) # <<>> /\ Len(Append(p, k)) = Len(p) + 1
           /\ Begins(p, Append(p, k)) /\ p # Append(p, k)
           /\ Begins(Append(p, k), q) <=> Begins(p, q) /\ Len(p) < Len(q) /\ q[Len(p) + 1] = k
<1>1. PICK m, n, a : m = Len(p) /\ n = Len(q) /\ a = Append(p, k)
  BY Zenon
<1>2. m \in Nat /\ n \in Nat
  BY <1>1
<1>3. a \in Seq(K) /\ Len(a) = m + 1 /\ a[m + 1] = k /\ \A i \in 1..m : a[i] = p[i]
  BY <1>1
<1>4. a # <<>> /\ a # p
  BY <1>1, <1>2, <1>3
<1>5. m <= m + 1 /\ (m + 1 <= n <=> m <= n /\ m < n) /\ 1..(m + 1) = 1..m \cup {m + 1}
  BY <1>2
<1>6. Begins(p, a)
  BY <1>1, <1>3, <1>5 DEF Begins
<1>7. Begins(a, q) <=> m + 1 <= n /\ \A i \in 1..(m + 1) : a[i] = q[i]
  BY <1>1, <1>3 DEF Begins
<1>8. (\A i \in 1..(m + 1) : a[i] = q[i]) <=> (\A i \in 1..m : p[i] = q[i]) /\ k = q[m + 1]
  BY <1>3, <1>5
<1>9. Begins(p, q) <=> m <= n /\ \A i \in 1..m : p[i] = q[i]
  BY <1>1 DEF Begins
<1> QED
  BY <1>1, <1>3, <1>4, <1>5, <1>6, <1>7, <1>8, <1>9

(* The nodes on the way to a path.                                         *)
LEMMA AlongFacts ==
    ASSUME NEW K, NEW q \in Seq(K)
    PROVE  /\ \A p : p \in Along(q) <=> p \in Seq(K) /\ p # <<>> /\ Begins(p, q)
           /\ IsFiniteSet(Along(q))
<1>1. PICK n : n = Len(q)
  BY Zenon
<1>2. n \in Nat
  BY <1>1
<1>3. ASSUME NEW i \in 1..n
      PROVE  /\ SubSeq(q, 1, i) \in Seq(K) /\ Len(SubSeq(q, 1, i)) = i
             /\ \A j \in 1..i : SubSeq(q, 1, i)[j] = q[j]
  BY <1>1, <1>2
<1>4. ASSUME NEW i \in 1..n PROVE SubSeq(q, 1, i) # <<>> /\ Begins(SubSeq(q, 1, i), q)
  <2>1. PICK p : p = SubSeq(q, 1, i)
    BY Zenon
  <2>2. Len(p) = i /\ \A j \in 1..i : p[j] = q[j]
    BY <1>3, <2>1
  <2>3. i <= n /\ i # 0
    BY <1>2
  <2> QED
    BY <1>1, <2>1, <2>2, <2>3 DEF Begins
<1>5. ASSUME NEW p \in Seq(K), p # <<>>, Begins(p, q) PROVE \E i \in 1..n : p = SubSeq(q, 1, i)
  <2>1. PICK i : i = Len(p)
    BY Zenon
  <2>2. i \in Nat /\ i # 0 /\ i <= n /\ \A j \in 1..i : p[j] = q[j]
    BY <1>1, <1>5, <2>1 DEF Begins
  <2>3. i \in 1..n
    BY <1>2, <2>2
  <2>4. PICK s : s = SubSeq(q, 1, i)
    BY Zenon
  <2>5. s \in Seq(K) /\ Len(s) = i /\ \A j \in 1..i : s[j] = q[j]
    BY <1>3, <2>3, <2>4
  <2>6. p = s
    BY <2>1, <2>2, <2>5, SeqEqual
  <2> QED
    BY <2>3, <2>4, <2>6
<1>6. \A p : p \in Along(q) <=> \E i \in 1..n : p = SubSeq(q, 1, i)
  BY <1>1, Zenon DEF Along
<1>7. IsFiniteSet(Along(q))
  <2>1. PICK f : f = [i \in 1..n |-> SubSeq(q, 1, i)]
    BY Zenon
  <2>2. f \in Surjection(1..n, Along(q))
    BY <1>6, <2>1 DEF Surjection
  <2>3. IsFiniteSet(1..n)
    BY <1>2, FS_Interval
  <2> QED
    BY <2>2, <2>3, FS_Surjection
<1>8. ASSUME NEW p, p \in Along(q) PROVE p \in Seq(K) /\ p # <<>> /\ Begins(p, q)
  <2>1. PICK i \in 1..n : p = SubSeq(q, 1, i)
    BY <1>6, <1>8
  <2> QED
    BY <1>3, <1>4, <2>1
<1>9. ASSUME NEW p, p \in Seq(K), p # <<>>, Begins(p, q) PROVE p \in Along(q)
  BY <1>5, <1>6, <1>9, Zenon
<1> QED
  BY <1>7, <1>8, <1>9, Zenon

(* The path of a prompt: what the trie takes of it.                        *)
LEMMA PathOfFacts ==
    ASSUME NEW K, NEW toks \in Seq(K)
    PROVE  /\ PathOf(toks) \in Seq(K) /\ Len(PathOf(toks)) <= MaxDepth
           /\ Begins(PathOf(toks), toks)
<1>1. PICK n, d, p : n = Len(toks) /\ d = Min({n, MaxDepth}) /\ p = PathOf(toks)
  BY Zenon
<1>2. n \in Nat /\ MaxDepth \in Nat
  BY <1>1, TrieAssumption
<1>3. d = IF n <= MaxDepth THEN n ELSE MaxDepth
  BY <1>1, <1>2, MinOfTwo
<1>4. d \in 0..n /\ d <= MaxDepth /\ d \in Nat
  BY <1>2, <1>3
<1>5. p = SubSeq(toks, 1, d)
  BY <1>1, Zenon DEF PathOf
<1>6. p \in Seq(K) /\ Len(p) = d /\ \A i \in 1..d : p[i] = toks[i]
  <2>1. d \in 0..Len(toks)
    BY <1>1, <1>4
  <2>2. SubSeq(toks, 1, d) \in Seq(K) /\ Len(SubSeq(toks, 1, d)) = d
    BY <2>1
  <2>3. \A i \in 1..d : SubSeq(toks, 1, d)[i] = toks[i]
    BY <2>1
  <2> QED
    BY <1>5, <2>2, <2>3
<1>7. Begins(p, toks)
  <2>1. d <= n
    BY <1>4
  <2> QED
    BY <1>1, <1>6, <2>1, Zenon DEF Begins
<1> QED
  BY <1>1, <1>4, <1>6, <1>7

(* The prompts whose path begins with p; m is the path of each index.      *)
Passing(m, p) == {i \in DOMAIN m : Begins(p, m[i])}

PathsOf(m, K) == IsFiniteSet(DOMAIN m) /\ \A i \in DOMAIN m : m[i] \in Seq(K) /\ Len(m[i]) <= MaxDepth

NodesOf(m, K) == {p \in Seq(K) : p = <<>> \/ Passing(m, p) # {}}

(* The node p has the count, the prompts and the children it should.       *)
NodeExact(t, m, K, p) ==
    /\ t[p].count = IF p = <<>> THEN 0 ELSE Cardinality(Passing(m, p))
    /\ Enumerates(t[p].idx, {i \in DOMAIN m : m[i] = p})
    /\ Enumerates(t[p].kids, {k \in K : Append(p, k) \in DOMAIN t})

(* A node is a record with a count, prompts and children.                  *)
Noded(t) == \A p \in DOMAIN t : t[p] = [count |-> t[p].count, idx |-> t[p].idx, kids |-> t[p].kids]

(* t is the trie of the paths m, over the tokens K.                        *)
IsTrie(t, m, K) ==
    /\ PathsOf(m, K) /\ DOMAIN t = NodesOf(m, K) /\ Noded(t)
    /\ \A p \in DOMAIN t : NodeExact(t, m, K, p)

(* g is m with one more prompt.                                            *)
Grown(m, i, path, g) ==
    DOMAIN g = DOMAIN m \cup {i} /\ g[i] = path /\ \A j \in DOMAIN m : g[j] = m[j]

(* The empty trie is that of no prompts.                                   *)
LEMMA EmptyIsTrie ==
    ASSUME NEW K, NEW m, DOMAIN m = {}
    PROVE  IsTrie(EmptyTrie, m, K)
<1>1. PICK t : t = EmptyTrie
  BY Zenon
<1>2. DOMAIN t = {<<>>} /\ t[<<>>] = [count |-> 0, idx |-> <<>>, kids |-> <<>>]
  BY <1>1 DEF EmptyTrie
<1>3. PathsOf(m, K) /\ \A p : Passing(m, p) = {}
  BY FS_EmptySet DEF PathsOf, Passing
<1>4. NodesOf(m, K) = {<<>>}
  <2>1. <<>> \in Seq(K)
    OBVIOUS
  <2> QED
    BY <1>3, <2>1 DEF NodesOf
<1>5. \A k \in K : Append(<<>>, k) # <<>>
  OBVIOUS
<1>6. {k \in K : Append(<<>>, k) \in DOMAIN t} = {} /\ {i \in DOMAIN m : m[i] = <<>>} = {}
  BY <1>2, <1>5
<1>7. NodeExact(t, m, K, <<>>)
  <2>1. t[<<>>].count = 0 /\ t[<<>>].idx = <<>> /\ t[<<>>].kids = <<>>
    BY <1>2
  <2> QED
    BY <1>6, <2>1, EnumEmpty, Zenon DEF NodeExact
<1> QED
  BY <1>1, <1>2, <1>3, <1>4, <1>7 DEF IsTrie, Noded

(* One more prompt passes the nodes of its path.                           *)
LEMMA PassingGrown ==
    ASSUME NEW m, NEW i, i \notin DOMAIN m, NEW path, NEW g, Grown(m, i, path, g), NEW p
    PROVE  Passing(g, p) = Passing(m, p) \cup (IF Begins(p, path) THEN {i} ELSE {})
BY DEF Grown, Passing

(* Its path and what is on the way to it become nodes.                     *)
LEMMA NodesGrown ==
    ASSUME NEW K, NEW m, NEW i, i \notin DOMAIN m, NEW path \in Seq(K), NEW g, Grown(m, i, path, g)
    PROVE  NodesOf(g, K) = NodesOf(m, K) \cup Along(path)
<1> SUFFICES ASSUME NEW p \in Seq(K)
             PROVE  p \in NodesOf(g, K) <=> p \in NodesOf(m, K) \/ p \in Along(path)
  BY AlongFacts DEF NodesOf
<1>1. p \in Along(path) <=> p # <<>> /\ Begins(p, path)
  BY AlongFacts
<1>2. Passing(g, p) # {} <=> Passing(m, p) # {} \/ Begins(p, path)
  <2>1. PICK G, M : G = Passing(g, p) /\ M = Passing(m, p)
    BY Zenon
  <2>2. G = M \cup (IF Begins(p, path) THEN {i} ELSE {})
    BY <2>1, PassingGrown
  <2> QED
    BY <2>1, <2>2
<1> QED
  BY <1>1, <1>2 DEF NodesOf

(* What is on the way to a node is one.                                    *)
LEMMA NodesClosed ==
    ASSUME NEW K, NEW m, PathsOf(m, K), NEW q \in NodesOf(m, K), NEW p \in Seq(K), Begins(p, q)
    PROVE  p \in NodesOf(m, K) /\ Passing(m, q) \subseteq Passing(m, p)
<1>1. q \in Seq(K) /\ (q = <<>> \/ Passing(m, q) # {})
  BY DEF NodesOf
<1>2. ASSUME NEW i \in Passing(m, q) PROVE i \in Passing(m, p)
  <2>1. i \in DOMAIN m /\ Begins(q, m[i]) /\ m[i] \in Seq(K)
    BY DEF Passing, PathsOf
  <2> QED
    BY <1>1, <2>1, BeginsTrans DEF Passing
<1>3. q = <<>> => p = <<>>
  <2>1. ASSUME q = <<>> PROVE Len(p) = 0
    <3>1. Len(q) = 0 /\ Len(p) \in Nat /\ Len(p) <= Len(q)
      BY <2>1 DEF Begins
    <3> QED
      BY <3>1
  <2> QED
    BY <2>1, EmptySeq
<1> QED
  BY <1>1, <1>2, <1>3 DEF NodesOf

(* A sequence has finitely many elements.                                  *)
LEMMA RangeFinite ==
    ASSUME NEW K, NEW s \in Seq(K)
    PROVE  IsFiniteSet(Range(s)) /\ Range(s) \subseteq K
<1>1. Len(s) \in Nat /\ DOMAIN s = 1..Len(s) /\ \A i \in 1..Len(s) : s[i] \in K
  OBVIOUS
<1>2. s \in [1..Len(s) -> Range(s)] /\ \A x \in Range(s) : \E i \in 1..Len(s) : s[i] = x
  BY <1>1 DEF Range
<1>3. s \in Surjection(1..Len(s), Range(s))
  BY <1>2 DEF Surjection
<1>4. IsFiniteSet(1..Len(s))
  BY <1>1, FS_Interval
<1>5. IsFiniteSet(Range(s))
  BY <1>3, <1>4, FS_Surjection
<1> QED
  BY <1>1, <1>5 DEF Range

(* What insert makes of each node.                                         *)
InsertedNode(t, path, i, new, u, p) ==
    LET old == IF p \in new THEN [count |-> 0, idx |-> <<>>, kids |-> <<>>] ELSE t[p]
    IN /\ u[p].count = old.count + (IF p \in Along(path) THEN 1 ELSE 0)
       /\ u[p].idx = IF p = path THEN Append(old.idx, i) ELSE old.idx
       /\ u[p].kids = old.kids \o SetToSeq({k \in Range(path) : Append(p, k) \in new})
       /\ u[p] = [count |-> u[p].count, idx |-> u[p].idx, kids |-> u[p].kids]

(* What an insertion makes of each node, new or not.                       *)
LEMMA InsertNodes ==
    ASSUME NEW t, NEW toks, NEW i
    PROVE  \A path, new, u :
              path = PathOf(toks) /\ new = Along(path) \ DOMAIN t /\ u = InsertPrompt(t, toks, i)
              => /\ DOMAIN u = DOMAIN t \cup new
                 /\ \A p \in DOMAIN u : InsertedNode(t, path, i, new, u, p)
<1> SUFFICES ASSUME NEW path, path = PathOf(toks), NEW new, new = Along(path) \ DOMAIN t,
                    NEW u, u = InsertPrompt(t, toks, i)
             PROVE  /\ DOMAIN u = DOMAIN t \cup new
                    /\ \A p \in DOMAIN u : InsertedNode(t, path, i, new, u, p)
  OBVIOUS
<1>1. u = [p \in DOMAIN t \cup new |->
            [count |-> (IF p \in new THEN [count |-> 0, idx |-> <<>>, kids |-> <<>>] ELSE t[p]).count
                         + (IF p \in Along(path) THEN 1 ELSE 0),
             idx   |-> IF p = path
                       THEN Append((IF p \in new THEN [count |-> 0, idx |-> <<>>, kids |-> <<>>] ELSE t[p]).idx, i)
                       ELSE (IF p \in new THEN [count |-> 0, idx |-> <<>>, kids |-> <<>>] ELSE t[p]).idx,
             kids  |-> (IF p \in new THEN [count |-> 0, idx |-> <<>>, kids |-> <<>>] ELSE t[p]).kids
                         \o SetToSeq({k \in Range(path) : Append(p, k) \in new})]]
  BY Zenon DEF InsertPrompt
<1>2. DOMAIN u = DOMAIN t \cup new
  BY <1>1
<1>3. ASSUME NEW p \in DOMAIN u PROVE InsertedNode(t, path, i, new, u, p)
  <2>1. PICK old : old = IF p \in new THEN [count |-> 0, idx |-> <<>>, kids |-> <<>>] ELSE t[p]
    BY Zenon
  <2>2. PICK s : s = SetToSeq({k \in Range(path) : Append(p, k) \in new})
    BY Zenon
  <2>3. u[p] = [count |-> old.count + (IF p \in Along(path) THEN 1 ELSE 0),
                idx |-> IF p = path THEN Append(old.idx, i) ELSE old.idx, kids |-> old.kids \o s]
    BY <1>1, <1>2, <2>1, <2>2, Zenon
  <2>4. /\ u[p].count = old.count + (IF p \in Along(path) THEN 1 ELSE 0)
        /\ u[p].idx = IF p = path THEN Append(old.idx, i) ELSE old.idx
        /\ u[p].kids = old.kids \o s
        /\ u[p] = [count |-> u[p].count, idx |-> u[p].idx, kids |-> u[p].kids]
    BY <2>3
  <2> QED
    BY <2>1, <2>2, <2>4, Zenon DEF InsertedNode
<1> QED
  BY <1>2, <1>3

(* One more prompt below a node, or none.                                  *)
LEMMA CountGrown ==
    ASSUME NEW m, IsFiniteSet(DOMAIN m), NEW i, i \notin DOMAIN m, NEW path, NEW g,
           Grown(m, i, path, g), NEW p
    PROVE  /\ Cardinality(Passing(m, p)) \in Nat /\ IsFiniteSet(Passing(m, p))
           /\ Cardinality(Passing(g, p)) = Cardinality(Passing(m, p)) + (IF Begins(p, path) THEN 1 ELSE 0)
<1>1. PICK A, B : A = Passing(m, p) /\ B = Passing(g, p)
  BY Zenon
<1>2. B = A \cup (IF Begins(p, path) THEN {i} ELSE {}) /\ A \subseteq DOMAIN m
  BY <1>1, PassingGrown DEF Passing
<1>3. IsFiniteSet(A) /\ Cardinality(A) \in Nat /\ i \notin A
  BY <1>2, FS_Subset, FS_CardinalityType
<1>4. CASE Begins(p, path)
  <2>1. B = A \cup {i}
    BY <1>2, <1>4
  <2>2. Cardinality(B) = Cardinality(A) + 1
    BY <1>3, <2>1, FS_AddElement
  <2> QED
    BY <1>1, <1>3, <1>4, <2>2
<1>5. CASE ~Begins(p, path)
  BY <1>1, <1>2, <1>3, <1>5
<1> QED
  BY <1>4, <1>5

(* Inserting a prompt gives the trie with one more.                        *)
LEMMA InsertIsTrie ==
    ASSUME NEW K, NEW t, NEW m, IsTrie(t, m, K), NEW toks \in Seq(K), NEW i, i \notin DOMAIN m,
           NEW path, path = PathOf(toks), NEW g, Grown(m, i, path, g)
    PROVE  IsTrie(InsertPrompt(t, toks, i), g, K)
<1>1. PICK new, u : new = Along(path) \ DOMAIN t /\ u = InsertPrompt(t, toks, i)
  BY Zenon
<1>2. PathsOf(m, K) /\ DOMAIN t = NodesOf(m, K) /\ \A p \in DOMAIN t : NodeExact(t, m, K, p)
  BY DEF IsTrie
<1>3. path \in Seq(K) /\ Len(path) <= MaxDepth
  BY PathOfFacts
<1>4. DOMAIN u = DOMAIN t \cup new /\ \A p \in DOMAIN u : InsertedNode(t, path, i, new, u, p)
  <2>1. \A pa, ne, uu : pa = PathOf(toks) /\ ne = Along(pa) \ DOMAIN t /\ uu = InsertPrompt(t, toks, i)
              => /\ DOMAIN uu = DOMAIN t \cup ne
                 /\ \A p \in DOMAIN uu : InsertedNode(t, pa, i, ne, uu, p)
    BY InsertNodes, Zenon
  <2> QED
    BY <1>1, <2>1, Zenon
<1>5. DOMAIN u = NodesOf(g, K)
  BY <1>1, <1>2, <1>3, <1>4, NodesGrown
<1>6. PathsOf(g, K)
  <2>1. IsFiniteSet(DOMAIN g)
    BY <1>2, FS_AddElement DEF PathsOf, Grown
  <2> QED
    BY <1>2, <1>3, <2>1 DEF PathsOf, Grown
<1>7. ASSUME NEW p \in DOMAIN u PROVE NodeExact(u, g, K, p)
  <2>1. PICK old : old = IF p \in new THEN [count |-> 0, idx |-> <<>>, kids |-> <<>>] ELSE t[p]
    BY Zenon
  <2>2. PICK E : E = {k \in Range(path) : Append(p, k) \in new}
    BY Zenon
  <2>3. /\ u[p].count = old.count + (IF p \in Along(path) THEN 1 ELSE 0)
        /\ u[p].idx = IF p = path THEN Append(old.idx, i) ELSE old.idx
        /\ u[p].kids = old.kids \o SetToSeq(E)
    BY <1>4, <2>1, <2>2, Zenon DEF InsertedNode
  <2>4. p \in Seq(K) /\ (p \in Along(path) <=> p # <<>> /\ Begins(p, path))
    BY <1>3, <1>5, AlongFacts DEF NodesOf
  <2>5. p \in new => p # <<>> /\ Passing(m, p) = {}
    BY <1>1, <1>2, <2>4 DEF NodesOf
  <2>6. p \notin new => p \in DOMAIN t
    BY <1>4
  <2>7. /\ old.count = IF p = <<>> THEN 0 ELSE Cardinality(Passing(m, p))
        /\ Enumerates(old.idx, {j \in DOMAIN m : m[j] = p})
        /\ Enumerates(old.kids, {k \in K : Append(p, k) \in DOMAIN t})
    <3>1. CASE p \notin new
      BY <1>2, <2>1, <2>6, <3>1 DEF NodeExact
    <3>2. CASE p \in new
      <4>1. old.count = 0 /\ old.idx = <<>> /\ old.kids = <<>>
        BY <2>1, <3>2
      <4>2. {j \in DOMAIN m : m[j] = p} = {}
        <5>1. ASSUME NEW j \in DOMAIN m, m[j] = p PROVE j \in Passing(m, p)
          BY <2>4, <5>1, BeginsFacts DEF Passing
        <5> QED
          BY <2>5, <3>2, <5>1
      <4>3. {k \in K : Append(p, k) \in DOMAIN t} = {}
        <5>1. ASSUME NEW k \in K, Append(p, k) \in DOMAIN t PROVE p \in DOMAIN t
          BY <1>2, <2>4, <5>1, BeginsStep, NodesClosed
        <5> QED
          BY <1>1, <3>2, <5>1
      <4> QED
        BY <2>5, <3>2, <4>1, <4>2, <4>3, EnumEmpty, FS_EmptySet
    <3> QED
      BY <3>1, <3>2
  <2>8. u[p].count = IF p = <<>> THEN 0 ELSE Cardinality(Passing(g, p))
    <3>1. IsFiniteSet(DOMAIN m)
      BY <1>2 DEF PathsOf
    <3>2. PICK a, b : a = Cardinality(Passing(m, p)) /\ b = Cardinality(Passing(g, p))
      BY Zenon
    <3>3. a \in Nat /\ b = a + (IF Begins(p, path) THEN 1 ELSE 0)
      BY <3>1, <3>2, CountGrown
    <3>4. PICK x, y : x = u[p].count /\ y = old.count
      BY Zenon
    <3>5. x = y + (IF p \in Along(path) THEN 1 ELSE 0) /\ y = IF p = <<>> THEN 0 ELSE a
      BY <2>3, <2>7, <3>2, <3>4
    <3>6. x = IF p = <<>> THEN 0 ELSE b
      BY <2>4, <3>3, <3>5
    <3> QED
      BY <3>2, <3>4, <3>6
  <2>9. Enumerates(u[p].idx, {j \in DOMAIN g : g[j] = p})
    <3>1. PICK J : J = {j \in DOMAIN m : m[j] = p}
      BY Zenon
    <3>2. Enumerates(old.idx, J) /\ i \notin J
      BY <2>7, <3>1
    <3>3. CASE p = path
      <4>1. {j \in DOMAIN g : g[j] = p} = J \cup {i}
        BY <3>1, <3>3 DEF Grown
      <4>2. Enumerates(Append(old.idx, i), J \cup {i})
        BY <3>2, EnumAppend
      <4> QED
        BY <2>3, <3>3, <4>1, <4>2
    <3>4. CASE p # path
      <4>1. {j \in DOMAIN g : g[j] = p} = J
        BY <3>1, <3>4 DEF Grown
      <4> QED
        BY <2>3, <3>2, <3>4, <4>1
    <3> QED
      BY <3>3, <3>4
  <2>10. Enumerates(u[p].kids, {k \in K : Append(p, k) \in DOMAIN u})
    <3>1. PICK C, D : C = {k \in K : Append(p, k) \in DOMAIN t} /\ D = {k \in K : Append(p, k) \in DOMAIN u}
      BY Zenon
    <3>2. IsFiniteSet(Range(path)) /\ Range(path) \subseteq K
      BY <1>3, RangeFinite
    <3>3. IsFiniteSet(E)
      BY <2>2, <3>2, FS_Subset
    <3>4. Enumerates(SetToSeq(E), E)
      BY <3>3, EnumSetToSeq
    <3>5. ASSUME NEW k \in K, Append(p, k) \in new PROVE k \in Range(path)
      <4>1. Append(p, k) \in Along(path)
        BY <1>1, <3>5
      <4>2. Begins(Append(p, k), path)
        BY <1>3, <4>1, AlongFacts
      <4>3. Len(p) < Len(path) /\ path[Len(p) + 1] = k
        BY <1>3, <2>4, <4>2, BeginsStep
      <4>4. Len(p) + 1 \in 1..Len(path)
        <5>1. Len(p) \in Nat /\ Len(path) \in Nat
          BY <1>3, <2>4
        <5> QED
          BY <4>3, <5>1
      <4>5. DOMAIN path = 1..Len(path)
        BY <1>3
      <4> QED
        BY <4>3, <4>4, <4>5 DEF Range
    <3>6. D = C \cup E /\ C \cap E = {}
      BY <1>1, <1>4, <2>2, <3>1, <3>2, <3>5
    <3>7. Enumerates(old.kids, C)
      BY <2>7, <3>1
    <3>8. Enumerates(old.kids \o SetToSeq(E), D)
      BY <3>4, <3>6, <3>7, EnumConcat
    <3> QED
      BY <2>3, <3>1, <3>8
  <2> QED
    BY <2>8, <2>9, <2>10 DEF NodeExact
<1> QED
  <2>1. Noded(u)
    BY <1>4, Zenon DEF Noded, InsertedNode
  <2> QED
    BY <1>1, <1>5, <1>6, <1>7, <2>1 DEF IsTrie

(* list.remove of a list without repetitions takes the element out.        *)
LEMMA EnumRemoveFirst ==
    ASSUME NEW S, NEW s, Enumerates(s, S), NEW e \in S
    PROVE  Enumerates(RemoveFirst(s, e), S \ {e})
<1>1. PICK n : n = Len(s)
  BY Zenon
<1>2. /\ s \in Seq(S) /\ n \in Nat /\ \A i \in 1..n : s[i] \in S
      /\ \A x \in S : \E i \in 1..n : s[i] = x
      /\ \A i, j \in 1..n : s[i] = s[j] => i = j
  BY <1>1, EnumFacts
<1>3. PICK j \in 1..n : s[j] = e
  BY <1>2
<1>4. {i \in 1..n : s[i] = e} = {j}
  BY <1>2, <1>3
<1>5. Min({j}) = j
  <2>1. {j} \in SUBSET Int /\ IsFiniteSet({j}) /\ {j} # {}
    <3>1. j \in Int
      BY <1>2
    <3>2. IsFiniteSet({j})
      BY FS_Singleton
    <3> QED
      BY <3>1, <3>2
  <2>2. Min({j}) \in {j}
    BY <2>1, MaxMinFacts, Zenon
  <2> QED
    BY <2>2
<1>6. SelectInSeq(s, LAMBDA v : v = e) = j
  <2>1. {j} # {}
    OBVIOUS
  <2> QED
    BY <1>1, <1>4, <1>5, <2>1, Zenon DEF SelectInSeq
<1>7. RemoveFirst(s, e) = SubSeq(s, 1, j - 1) \o SubSeq(s, j + 1, n)
  <2>1. \E i \in 1..Len(s) : s[i] = e
    BY <1>1, <1>3
  <2> QED
    BY <1>1, <1>6, <2>1, Zenon DEF RemoveFirst, RemoveAt
<1>8. PICK a, b : a = SubSeq(s, 1, j - 1) /\ b = SubSeq(s, j + 1, n)
  BY Zenon
<1>9. a \in Seq(S) /\ Len(a) = j - 1 /\ \A k \in 1..(j - 1) : a[k] = s[k]
  <2>1. j - 1 \in 0..n
    BY <1>2
  <2> QED
    BY <1>1, <1>2, <1>8, <2>1
<1>10. b \in Seq(S) /\ Len(b) = n - j /\ \A k \in 1..(n - j) : b[k] = s[j + k]
  <2>1. j + 1 \in 1..(n + 1) /\ n - j \in Nat
    BY <1>2
  <2>2. b \in Seq(S) /\ Len(b) = IF j + 1 <= n THEN n - (j + 1) + 1 ELSE 0
    BY <1>1, <1>2, <1>8, <2>1
  <2>3. Len(b) = n - j
    BY <1>2, <2>2
  <2>4. ASSUME NEW k \in 1..(n - j) PROVE b[k] = s[j + k]
    <3>1. b[k] = s[(j + 1) + k - 1]
      BY <1>1, <1>2, <1>8, <2>1, <2>4
    <3>2. (j + 1) + k - 1 = j + k
      BY <1>2
    <3> QED
      BY <3>1, <3>2
  <2> QED
    BY <2>2, <2>3, <2>4
<1>11. PICK f : f = a \o b
  BY Zenon
<1>12. Len(f) = n - 1 /\ f \in Seq(S) /\ n - 1 \in Nat
  <2>1. f \in Seq(S) /\ Len(f) = Len(a) + Len(b)
    <3>1. a \in Seq(S) /\ b \in Seq(S)
      BY <1>9, <1>10
    <3> QED
      BY <1>11, <3>1
  <2>2. (j - 1) + (n - j) = n - 1 /\ n - 1 \in Nat
    BY <1>2
  <2> QED
    BY <1>9, <1>10, <2>1, <2>2
<1>13. \A k \in 1..(n - 1) : f[k] = IF k < j THEN s[k] ELSE s[k + 1]
  <2> SUFFICES ASSUME NEW k \in 1..(n - 1) PROVE f[k] = IF k < j THEN s[k] ELSE s[k + 1]
    OBVIOUS
  <2>1. CASE k < j
    <3>1. k \in 1..(j - 1) /\ k \in 1..Len(a)
      BY <1>2, <1>9, <2>1
    <3> QED
      BY <1>9, <1>10, <1>11, <2>1, <3>1
  <2>2. CASE ~(k < j)
    <3>1. PICK l : l = k - (j - 1)
      BY Zenon
    <3>2. l \in 1..(n - j) /\ j + l = k + 1 /\ k = Len(a) + l /\ k > Len(a)
      BY <1>2, <1>9, <2>2, <3>1
    <3>3. f[k] = b[k - Len(a)]
      BY <1>9, <1>10, <1>11, <1>12, <3>2, SMTT(30)
    <3>4. k - Len(a) = l
      BY <1>9, <3>1
    <3> QED
      BY <1>10, <2>2, <3>2, <3>3, <3>4
  <2> QED
    BY <2>1, <2>2
<1>14. \A k \in 1..(n - 1) : f[k] \in S \ {e}
  <2> SUFFICES ASSUME NEW k \in 1..(n - 1) PROVE f[k] \in S \ {e}
    OBVIOUS
  <2>1. PICK l \in 1..n : l # j /\ f[k] = s[l]
    <3>1. CASE k < j
      BY <1>2, <1>13, <3>1
    <3>2. CASE ~(k < j)
      <4>1. k + 1 \in 1..n /\ k + 1 # j
        BY <1>2, <3>2
      <4> QED
        BY <1>13, <3>2, <4>1
    <3> QED
      BY <3>1, <3>2
  <2> QED
    BY <1>2, <1>3, <2>1
<1>15. ASSUME NEW x \in S \ {e} PROVE \E k \in 1..(n - 1) : f[k] = x
  <2>1. PICK l \in 1..n : s[l] = x
    BY <1>2
  <2>2. l # j
    BY <1>3, <2>1
  <2>3. CASE l < j
    <3>1. l \in 1..(n - 1)
      BY <1>2, <2>3
    <3> QED
      BY <1>13, <2>1, <2>3, <3>1
  <2>4. CASE l > j
    <3>1. l - 1 \in 1..(n - 1) /\ ~(l - 1 < j) /\ (l - 1) + 1 = l
      BY <1>2, <2>4
    <3> QED
      BY <1>13, <2>1, <3>1
  <2> QED
    BY <1>2, <2>2, <2>3, <2>4
<1>16. ASSUME NEW k \in 1..(n - 1), NEW l \in 1..(n - 1), f[k] = f[l] PROVE k = l
  <2>1. f[k] = IF k < j THEN s[k] ELSE s[k + 1]
    BY <1>13
  <2>2. f[l] = IF l < j THEN s[l] ELSE s[l + 1]
    BY <1>13
  <2>3. k \in 1..n /\ k + 1 \in 1..n /\ l \in 1..n /\ l + 1 \in 1..n
    BY <1>2
  <2>4. CASE k < j /\ l < j
    BY <1>2, <1>16, <2>1, <2>2, <2>3, <2>4
  <2>5. CASE ~(k < j) /\ ~(l < j)
    <3>1. s[k + 1] = s[l + 1]
      BY <1>16, <2>1, <2>2, <2>5
    <3>2. k + 1 = l + 1
      BY <1>2, <2>3, <3>1, Zenon
    <3> QED
      BY <3>2
  <2>6. CASE k < j /\ ~(l < j)
    <3>1. s[k] = s[l + 1]
      BY <1>16, <2>1, <2>2, <2>6
    <3>2. k = l + 1
      BY <1>2, <2>3, <3>1, Zenon
    <3> QED
      BY <2>6, <3>2
  <2>7. CASE ~(k < j) /\ l < j
    <3>1. s[k + 1] = s[l]
      BY <1>16, <2>1, <2>2, <2>7
    <3>2. k + 1 = l
      BY <1>2, <2>3, <3>1, Zenon
    <3> QED
      BY <2>7, <3>2
  <2> QED
    BY <2>4, <2>5, <2>6, <2>7
<1>17. f \in [1..(n - 1) -> S \ {e}]
  BY <1>12, <1>14
<1>18. Enumerates(f, S \ {e})
  BY <1>12, <1>15, <1>16, <1>17, EnumIntro
<1> QED
  BY <1>7, <1>8, <1>11, <1>18

(* Without takes the elements of T out.                                    *)
LEMMA EnumWithout ==
    ASSUME NEW S, NEW s, Enumerates(s, S), NEW T, NEW U, U = S \ T
    PROVE  Enumerates(Without(s, T), U)
<1>1. PICK I : I = {i \in DOMAIN s : s[i] \notin T}
  BY Zenon
<1>2. U \in SUBSET S /\ I \in SUBSET (DOMAIN s) /\ \A i \in DOMAIN s : i \in I <=> s[i] \in U
  BY <1>1, EnumFacts
<1> QED
  BY <1>1, <1>2, EnumFilter, Zenon DEF Without

(* The counts and the list of node p without one prompt.                   *)
DecrementedNode(t, path, i, u, p) ==
    /\ u[p].count = IF p \in Along(path) THEN t[p].count - 1 ELSE t[p].count
    /\ u[p].idx = IF p = path THEN RemoveFirst(t[p].idx, i) ELSE t[p].idx
    /\ u[p].kids = t[p].kids
    /\ u[p] = [count |-> u[p].count, idx |-> u[p].idx, kids |-> u[p].kids]

(* The nodes that go with the last prompt below them.                      *)
Emptied(u, path) ==
    {p \in Along(path) : \A q \in Along(path) : IsPrefix(p, q) =>
        ~(\/ u[q].count # 0 \/ u[q].idx # <<>>
          \/ \E k \in Range(u[q].kids) : Append(q, k) \notin Along(path))}

(* What the first half of remove makes of each node.                       *)
LEMMA DecrementNodes ==
    ASSUME NEW t, Noded(t), NEW path, path \in DOMAIN t, NEW i
    PROVE  /\ DOMAIN Decrement(t, path, i) = DOMAIN t
           /\ \A p \in DOMAIN t : DecrementedNode(t, path, i, Decrement(t, path, i), p)
<1>1. PICK v : v = [p \in DOMAIN t |-> IF p \in Along(path) THEN [t[p] EXCEPT !.count = @ - 1] ELSE t[p]]
  BY Zenon
<1>2. PICK u : u = [v EXCEPT ![path].idx = RemoveFirst(@, i)]
  BY Zenon
<1>3. u = Decrement(t, path, i)
  BY <1>1, <1>2, Zenon DEF Decrement
<1>4. DOMAIN v = DOMAIN t /\ DOMAIN u = DOMAIN t
  BY <1>1, <1>2
<1>5. ASSUME NEW p \in DOMAIN t PROVE DecrementedNode(t, path, i, u, p)
  <2>1. PICK c, s, k : c = t[p].count /\ s = t[p].idx /\ k = t[p].kids
    BY Zenon
  <2>2. t[p] = [count |-> c, idx |-> s, kids |-> k]
    BY <2>1, Zenon DEF Noded
  <2>3. PICK d : d = IF p \in Along(path) THEN c - 1 ELSE c
    BY Zenon
  <2>4. v[p].count = d /\ v[p].idx = s /\ v[p].kids = k
        /\ v[p] = [count |-> v[p].count, idx |-> s, kids |-> k]
    <3>1. CASE p \in Along(path)
      <4>1. v[p] = [t[p] EXCEPT !.count = @ - 1]
        BY <1>1, <3>1, Zenon
      <4>2. v[p] = [count |-> c - 1, idx |-> s, kids |-> k]
        BY <2>2, <4>1
      <4> QED
        BY <2>3, <3>1, <4>2
    <3>2. CASE p \notin Along(path)
      <4>1. v[p] = t[p]
        BY <1>1, <3>2, Zenon
      <4> QED
        BY <2>1, <2>2, <2>3, <3>2, <4>1
    <3> QED
      BY <3>1, <3>2
  <2>5. CASE p = path
    <3>1. u[p] = [v[p] EXCEPT !.idx = RemoveFirst(@, i)]
      BY <1>2, <1>4, <2>5, Zenon
    <3>2. u[p].count = v[p].count /\ u[p].idx = RemoveFirst(s, i) /\ u[p].kids = k
          /\ u[p] = [count |-> u[p].count, idx |-> u[p].idx, kids |-> u[p].kids]
      BY <2>4, <3>1
    <3> QED
      BY <2>1, <2>3, <2>4, <2>5, <3>2, Zenon DEF DecrementedNode
  <2>6. CASE p # path
    <3>1. u[p] = v[p]
      BY <1>2, <1>4, <2>6
    <3> QED
      BY <2>1, <2>3, <2>4, <2>6, <3>1, Zenon DEF DecrementedNode
  <2> QED
    BY <2>5, <2>6
<1> QED
  BY <1>3, <1>4, <1>5

(* What remove does, when the prompt is there.                             *)
RemovedFrom(t, path, i, u, gone, w) ==
    /\ u = Decrement(t, path, i) /\ gone = Emptied(u, path)
    /\ w = [p \in DOMAIN u \ gone |->
              [u[p] EXCEPT !.kids = Without(@, {k \in Range(@) : Append(p, k) \in gone})]]

(* A removal is a decrement, of which the emptied nodes are dropped.       *)
LEMMA RemoveUnfolds ==
    ASSUME NEW t, NEW toks, NEW i, PathOf(toks) \in DOMAIN t, i \in Range(t[PathOf(toks)].idx)
    PROVE  RemovedFrom(t, PathOf(toks), i, Decrement(t, PathOf(toks), i),
                       Emptied(Decrement(t, PathOf(toks), i), PathOf(toks)), RemovePrompt(t, toks, i))
BY Zenon DEF RemovePrompt, Emptied, RemovedFrom

(* m is the map of the trie t, g is m without the prompt i at path.        *)
Shrinks(K, t, m, g, i, path) ==
    /\ IsTrie(t, m, K) /\ PathsOf(g, K) /\ path \in Seq(K) /\ path \in DOMAIN t
    /\ i \notin DOMAIN g /\ Grown(g, i, path, m)

(* u is t with the counts, lists and children of g.                        *)
Recounted(K, t, g, u) ==
    \A p \in DOMAIN t : /\ u[p].count = IF p = <<>> THEN 0 ELSE Cardinality(Passing(g, p))
                        /\ Enumerates(u[p].idx, {j \in DOMAIN g : g[j] = p})
                        /\ Enumerates(u[p].kids, {k \in K : Append(p, k) \in DOMAIN t})

(* The nodes that go are those nothing passes any more.                    *)
LEMMA EmptiedNodes ==
    ASSUME NEW K, NEW t, NEW m, NEW g, NEW i, NEW path, Shrinks(K, t, m, g, i, path),
           NEW u, DOMAIN u = DOMAIN t, Recounted(K, t, g, u)
    PROVE  Emptied(u, path) = {p \in Along(path) : Passing(g, p) = {}}
<1> IsTrie(t, m, K) /\ PathsOf(g, K) /\ path \in Seq(K) /\ path \in DOMAIN t
    /\ i \notin DOMAIN g /\ Grown(g, i, path, m)
  BY Zenon DEF Shrinks
<1> \A p \in DOMAIN t : /\ u[p].count = IF p = <<>> THEN 0 ELSE Cardinality(Passing(g, p))
                        /\ Enumerates(u[p].idx, {j \in DOMAIN g : g[j] = p})
                        /\ Enumerates(u[p].kids, {k \in K : Append(p, k) \in DOMAIN t})
  BY Zenon DEF Recounted
<1>1. DOMAIN t = NodesOf(m, K) /\ PathsOf(m, K)
  BY DEF IsTrie
<1>2. ASSUME NEW q \in Along(path)
      PROVE  q \in Seq(K) /\ q # <<>> /\ Begins(q, path) /\ q \in DOMAIN t
  <2>1. q \in Seq(K) /\ q # <<>> /\ Begins(q, path)
    BY AlongFacts
  <2>2. q \in NodesOf(m, K)
    BY <1>1, <2>1, NodesClosed
  <2> QED
    BY <1>1, <2>1, <2>2
<1>3. ASSUME NEW p \in Emptied(u, path) PROVE p \in Along(path) /\ Passing(g, p) = {}
  <2>1. p \in Along(path) /\ \A q \in Along(path) : IsPrefix(p, q) => u[q].count = 0
    BY DEF Emptied
  <2>2. IsPrefix(p, p)
    BY <1>2, <2>1, BeginsFacts
  <2>3. u[p].count = Cardinality(Passing(g, p)) /\ u[p].count = 0
    BY <1>2, <2>1, <2>2
  <2>4. IsFiniteSet(Passing(g, p))
    BY FS_Subset DEF PathsOf, Passing
  <2> QED
    BY <2>1, <2>3, <2>4, FS_EmptySet
<1>4. ASSUME NEW p \in Along(path), Passing(g, p) = {}, NEW q \in Along(path), IsPrefix(p, q)
      PROVE  u[q].count = 0 /\ u[q].idx = <<>>
             /\ \A k \in Range(u[q].kids) : Append(q, k) \in Along(path)
  <2>1. p \in Seq(K) /\ q \in Seq(K) /\ q # <<>> /\ q \in DOMAIN t /\ Begins(p, q) /\ Begins(q, path)
    BY <1>2, <1>4, BeginsFacts
  <2>2. ASSUME NEW j \in Passing(g, q) PROVE j \in Passing(g, p)
    <3>1. j \in DOMAIN g /\ Begins(q, g[j]) /\ g[j] \in Seq(K)
      BY DEF Passing, PathsOf
    <3> QED
      BY <2>1, <3>1, BeginsTrans DEF Passing
  <2>3. Passing(g, q) = {}
    BY <1>4, <2>2
  <2>4. u[q].count = 0
    BY <2>1, <2>3, FS_EmptySet
  <2>5. u[q].idx = <<>>
    <3>1. ASSUME NEW j \in DOMAIN g, g[j] = q PROVE FALSE
      <4>1. j \in Passing(g, q)
        BY <2>1, <3>1, BeginsFacts DEF Passing
      <4> QED
        BY <2>3, <4>1
    <3>2. {j \in DOMAIN g : g[j] = q} = {}
      BY <3>1
    <3>3. Enumerates(u[q].idx, {})
      BY <2>1, <3>2
    <3>4. Len(u[q].idx) = 0 /\ u[q].idx \in Seq({})
      BY <3>3, EnumLength, EnumFacts, FS_EmptySet
    <3> QED
      BY <3>4, EmptySeq
  <2>6. ASSUME NEW k \in Range(u[q].kids) PROVE Append(q, k) \in Along(path)
    <3>1. k \in K /\ Append(q, k) \in DOMAIN t
      <4>1. Enumerates(u[q].kids, {h \in K : Append(q, h) \in DOMAIN t})
        BY <2>1
      <4>2. Range(u[q].kids) = {h \in K : Append(q, h) \in DOMAIN t}
        BY <4>1 DEF Enumerates, ToSet, Range
      <4> QED
        BY <4>2
    <3>2. PICK x : x = Append(q, k)
      BY Zenon
    <3>3. x \in Seq(K) /\ x # <<>> /\ Begins(q, x) /\ Passing(m, x) # {}
      BY <1>1, <2>1, <3>1, <3>2, BeginsStep DEF NodesOf
    <3>4. Passing(g, x) = {}
      <4>1. ASSUME NEW j \in Passing(g, x) PROVE j \in Passing(g, q)
        <5>1. j \in DOMAIN g /\ Begins(x, g[j]) /\ g[j] \in Seq(K)
          BY DEF Passing, PathsOf
        <5> QED
          BY <2>1, <3>3, <5>1, BeginsTrans DEF Passing
      <4> QED
        BY <2>3, <4>1
    <3>5. Begins(x, path)
      BY <3>3, <3>4, PassingGrown
    <3> QED
      BY <3>2, <3>3, <3>5, AlongFacts
  <2> QED
    BY <2>4, <2>5, <2>6
<1>5. ASSUME NEW p \in Along(path), Passing(g, p) = {} PROVE p \in Emptied(u, path)
  BY <1>4, <1>5 DEF Emptied
<1> QED
  BY <1>3, <1>5

(* The counts, lists and children after the first half of remove.          *)
LEMMA DecrementedTrie ==
    ASSUME NEW K, NEW t, NEW m, NEW g, NEW i, NEW path, Shrinks(K, t, m, g, i, path),
           NEW u, \A p \in DOMAIN t : DecrementedNode(t, path, i, u, p)
    PROVE  Recounted(K, t, g, u)
<1> IsTrie(t, m, K) /\ PathsOf(g, K) /\ path \in Seq(K) /\ path \in DOMAIN t
    /\ i \notin DOMAIN g /\ Grown(g, i, path, m)
  BY Zenon DEF Shrinks
<1> SUFFICES ASSUME NEW p \in DOMAIN t
             PROVE  /\ u[p].count = IF p = <<>> THEN 0 ELSE Cardinality(Passing(g, p))
                    /\ Enumerates(u[p].idx, {j \in DOMAIN g : g[j] = p})
                    /\ Enumerates(u[p].kids, {k \in K : Append(p, k) \in DOMAIN t})
  BY Zenon DEF Recounted
<1>1. NodeExact(t, m, K, p) /\ p \in Seq(K)
  BY DEF IsTrie, NodesOf
<1>2. p \in Along(path) <=> p # <<>> /\ Begins(p, path)
  BY <1>1, AlongFacts
<1>3. u[p].count = IF p = <<>> THEN 0 ELSE Cardinality(Passing(g, p))
  <2>1. PICK a, b : a = Cardinality(Passing(g, p)) /\ b = Cardinality(Passing(m, p))
    BY Zenon
  <2>2. IsFiniteSet(DOMAIN g)
    BY DEF PathsOf
  <2>3. a \in Nat /\ b = a + (IF Begins(p, path) THEN 1 ELSE 0)
    BY <2>1, <2>2, CountGrown
  <2>4. PICK x, y : x = u[p].count /\ y = t[p].count
    BY Zenon
  <2>5. x = IF p \in Along(path) THEN y - 1 ELSE y
    BY <2>4, Zenon DEF DecrementedNode
  <2>6. y = IF p = <<>> THEN 0 ELSE b
    BY <1>1, <2>1, <2>4, Zenon DEF NodeExact
  <2>7. x = IF p = <<>> THEN 0 ELSE a
    BY <1>2, <2>3, <2>5, <2>6
  <2> QED
    BY <2>1, <2>4, <2>7
<1>4. Enumerates(u[p].idx, {j \in DOMAIN g : g[j] = p})
  <2>1. PICK J, M : J = {j \in DOMAIN g : g[j] = p} /\ M = {j \in DOMAIN m : m[j] = p}
    BY Zenon
  <2>2. Enumerates(t[p].idx, M)
    BY <1>1, <2>1, Zenon DEF NodeExact
  <2>3. CASE p = path
    <3>1. i \in M /\ J = M \ {i}
      BY <2>1, <2>3 DEF Grown
    <3>2. Enumerates(RemoveFirst(t[p].idx, i), J)
      BY <2>2, <3>1, EnumRemoveFirst
    <3>3. u[p].idx = RemoveFirst(t[p].idx, i)
      BY <2>3, Zenon DEF DecrementedNode
    <3> QED
      BY <2>1, <3>2, <3>3
  <2>4. CASE p # path
    <3>1. J = M
      BY <2>1, <2>4 DEF Grown
    <3>2. u[p].idx = t[p].idx
      BY <2>4, Zenon DEF DecrementedNode
    <3> QED
      BY <2>1, <2>2, <3>1, <3>2
  <2> QED
    BY <2>3, <2>4
<1>5. Enumerates(u[p].kids, {k \in K : Append(p, k) \in DOMAIN t})
  BY <1>1, Zenon DEF NodeExact, DecrementedNode
<1> QED
  BY <1>3, <1>4, <1>5

(* Taking a prompt out gives the trie of the others.                       *)
LEMMA RemoveIsTrie ==
    ASSUME NEW K, NEW t, NEW m, IsTrie(t, m, K), NEW toks \in Seq(K), NEW g, PathsOf(g, K),
           NEW i, i \notin DOMAIN g, Grown(g, i, PathOf(toks), m)
    PROVE  IsTrie(RemovePrompt(t, toks, i), g, K)
<1>1. PICK path : path = PathOf(toks)
  BY Zenon
<1>2. path \in Seq(K) /\ Grown(g, i, path, m)
  BY <1>1, PathOfFacts
<1>3. PathsOf(m, K) /\ DOMAIN t = NodesOf(m, K) /\ Noded(t)
      /\ \A p \in DOMAIN t : NodeExact(t, m, K, p)
  BY DEF IsTrie
<1>4. i \in DOMAIN m /\ m[i] = path
  BY <1>2 DEF Grown
<1>5. path \in DOMAIN t
  <2>1. i \in Passing(m, path)
    BY <1>2, <1>4, BeginsFacts DEF Passing
  <2> QED
    BY <1>2, <1>3, <2>1 DEF NodesOf
<1>6. i \in Range(t[path].idx)
  <2>1. Enumerates(t[path].idx, {j \in DOMAIN m : m[j] = path})
    BY <1>3, <1>5, Zenon DEF NodeExact
  <2>2. Range(t[path].idx) = {j \in DOMAIN m : m[j] = path}
    BY <2>1 DEF Enumerates, ToSet, Range
  <2> QED
    BY <1>4, <2>2
<1>7. PICK u, gone, w : RemovedFrom(t, path, i, u, gone, w) /\ w = RemovePrompt(t, toks, i)
  BY <1>1, <1>5, <1>6, RemoveUnfolds, Zenon
<1>8. u = Decrement(t, path, i) /\ gone = Emptied(u, path)
      /\ w = [p \in DOMAIN u \ gone |->
                [u[p] EXCEPT !.kids = Without(@, {k \in Range(@) : Append(p, k) \in gone})]]
  BY <1>7, Zenon DEF RemovedFrom
<1>9. DOMAIN u = DOMAIN t /\ \A p \in DOMAIN t : DecrementedNode(t, path, i, u, p)
  BY <1>3, <1>5, <1>8, DecrementNodes
<1>10. Shrinks(K, t, m, g, i, path) /\ Recounted(K, t, g, u)
  <2>1. Shrinks(K, t, m, g, i, path)
    BY <1>2, <1>5, Zenon DEF Shrinks
  <2> QED
    BY <1>9, <2>1, DecrementedTrie
<1>11. gone = {p \in Along(path) : Passing(g, p) = {}}
  BY <1>8, <1>9, <1>10, EmptiedNodes
<1>12. DOMAIN w = NodesOf(g, K)
  <2>1. NodesOf(m, K) = NodesOf(g, K) \cup Along(path)
    BY <1>2, NodesGrown
  <2>2. DOMAIN w = NodesOf(m, K) \ gone
    BY <1>3, <1>8, <1>9
  <2>3. ASSUME NEW p \in NodesOf(g, K) PROVE p \notin gone
    BY <1>2, <1>11, AlongFacts DEF NodesOf
  <2>4. ASSUME NEW p \in Along(path), p \notin gone PROVE p \in NodesOf(g, K)
    BY <1>2, <1>11, <2>4, AlongFacts DEF NodesOf
  <2> QED
    BY <2>1, <2>2, <2>3, <2>4
<1>13. ASSUME NEW p \in DOMAIN w
       PROVE  /\ NodeExact(w, g, K, p)
              /\ w[p] = [count |-> w[p].count, idx |-> w[p].idx, kids |-> w[p].kids]
  <2>1. p \in DOMAIN t /\ p \in DOMAIN u
    BY <1>8, <1>9
  <2>2. PICK c, s, h : c = u[p].count /\ s = u[p].idx /\ h = u[p].kids
    BY Zenon
  <2>3. u[p] = [count |-> c, idx |-> s, kids |-> h]
    BY <1>9, <2>1, <2>2, Zenon DEF DecrementedNode
  <2>4. PICK x : x = Without(h, {k \in Range(h) : Append(p, k) \in gone})
    BY Zenon
  <2>5. w[p] = [u[p] EXCEPT !.kids = x]
    BY <1>8, <2>2, <2>4, Zenon
  <2>6. w[p] = [count |-> c, idx |-> s, kids |-> x]
    BY <2>3, <2>5
  <2>7. w[p].count = c /\ w[p].idx = s /\ w[p].kids = x
    BY <2>6
  <2>8. PICK C : C = {k \in K : Append(p, k) \in DOMAIN t}
    BY Zenon
  <2>9. Enumerates(h, C)
    BY <1>10, <2>1, <2>2, <2>8, Zenon DEF Recounted
  <2>10. Range(h) = C
    BY <2>9 DEF Enumerates, ToSet, Range
  <2>11. {k \in K : Append(p, k) \in DOMAIN w} = C \ {k \in Range(h) : Append(p, k) \in gone}
    BY <1>8, <1>9, <2>8, <2>10
  <2>12. Enumerates(x, {k \in K : Append(p, k) \in DOMAIN w})
    BY <2>4, <2>9, <2>11, EnumWithout
  <2>13. NodeExact(w, g, K, p)
    BY <1>10, <2>1, <2>2, <2>7, <2>12, Zenon DEF NodeExact, Recounted
  <2> QED
    BY <2>6, <2>7, <2>13
<1> QED
  BY <1>7, <1>12, <1>13, Zenon DEF IsTrie, Noded

(* f is what FlattenSeq has after each of the n lists.                     *)
Flattens(f, lists, n, S) ==
    /\ f \in [0..n -> Seq(S)] /\ f[0] = <<>> /\ FlattenSeq(lists) = f[n]
    /\ \A i \in 1..n : f[i] = f[i - 1] \o lists[i]

(* FlattenSeq appends one list after the other.                            *)
LEMMA FlattenSteps ==
    ASSUME NEW S, NEW lists \in Seq(Seq(S)), NEW n, n = Len(lists)
    PROVE  \E f : Flattens(f, lists, n, S)
<1>1. n \in Nat /\ \A i \in 1..n : lists[i] \in Seq(S)
  OBVIOUS
<1>2. PICK h : h = CHOOSE g : g = [i \in 1..n |-> IF i = 1 THEN lists[i] ELSE g[i - 1] \o lists[i]]
  OBVIOUS
<1>3. h = [i \in 1..n |-> IF i = 1 THEN lists[i] ELSE h[i - 1] \o lists[i]]
  BY <1>1, <1>2, FlattenDefined, Zenon
<1>4. n # 0 => FlattenSeq(lists) = h[n]
  BY <1>2, Zenon DEF FlattenSeq
<1>5. n = 0 => FlattenSeq(lists) = <<>>
  BY EmptySeq, Zenon DEF FlattenSeq
<1>6. PICK f : f = [i \in 0..n |-> IF i = 0 THEN <<>> ELSE h[i]]
  BY Zenon
<1>7. f[0] = <<>> /\ FlattenSeq(lists) = f[n]
  BY <1>1, <1>4, <1>5, <1>6
<1>8. ASSUME NEW i \in 1..n PROVE f[i] = f[i - 1] \o lists[i]
  <2>1. i \in 0..n /\ i - 1 \in 0..n /\ i # 0 /\ (i # 1 => i - 1 # 0)
    BY <1>1
  <2>2. h[i] = IF i = 1 THEN lists[i] ELSE h[i - 1] \o lists[i]
    BY <1>3, Zenon
  <2>3. CASE i = 1
    <3>1. f[i] = lists[i] /\ f[i - 1] = <<>>
      BY <1>6, <1>7, <2>1, <2>2, <2>3
    <3>2. <<>> \o lists[i] = lists[i]
      BY <1>1
    <3> QED
      BY <3>1, <3>2
  <2>4. CASE i # 1
    BY <1>6, <2>1, <2>2, <2>4
  <2> QED
    BY <2>3, <2>4
<1>9. f \in [0..n -> Seq(S)]
  <2>1. PICK G : G = {i \in 0..n : f[i] \in Seq(S)}
    BY Zenon
  <2>2. 0 \in G
    <3>1. 0 \in 0..n /\ f[0] \in Seq(S)
      BY <1>1, <1>7
    <3> QED
      BY <2>1, <3>1
  <2>3. ASSUME NEW i \in 1..n, i - 1 \in G PROVE i \in G
    <3>1. i \in 0..n /\ f[i - 1] \in Seq(S) /\ lists[i] \in Seq(S)
      BY <1>1, <2>1, <2>3
    <3>2. PICK a, b : a = f[i - 1] /\ b = lists[i]
      BY Zenon
    <3>3. a \in Seq(S) /\ b \in Seq(S) /\ f[i] = a \o b
      BY <1>8, <3>1, <3>2, Zenon
    <3>4. a \o b \in Seq(S)
      BY <3>3
    <3> QED
      BY <2>1, <3>1, <3>3, <3>4
  <2>4. \A i \in 0..n : i \in G
    BY <1>1, <2>2, <2>3, UpFromZero
  <2> QED
    BY <1>6, <2>1, <2>4
<1> QED
  BY <1>7, <1>8, <1>9, Zenon DEF Flattens

(* The element at place x is at place a of the i-th list.                  *)
ComesFrom(s, lists, n, x, i, a) ==
    i \in 1..n /\ a \in 1..Len(lists[i]) /\ s[x] = lists[i][a]

(* The elements of s come from the lists, in their order.                  *)
InTurn(s, lists, n) ==
    /\ \A x \in 1..Len(s) : \E i, a : ComesFrom(s, lists, n, x, i, a)
    /\ \A x, y \in 1..Len(s) : x < y =>
          \E i, j, a, b : /\ ComesFrom(s, lists, n, x, i, a) /\ ComesFrom(s, lists, n, y, j, b)
                          /\ i < j \/ (i = j /\ a < b)

(* FlattenSeq keeps the order of the lists and within them.                *)
LEMMA FlattenInTurn ==
    ASSUME NEW S, NEW lists \in Seq(Seq(S)), NEW n, n = Len(lists)
    PROVE  InTurn(FlattenSeq(lists), lists, n)
<1>1. n \in Nat /\ \A i \in 1..n : lists[i] \in Seq(S)
  OBVIOUS
<1>2. PICK f : /\ f \in [0..n -> Seq(S)] /\ f[0] = <<>> /\ FlattenSeq(lists) = f[n]
               /\ \A i \in 1..n : f[i] = f[i - 1] \o lists[i]
  <2>1. PICK f : Flattens(f, lists, n, S)
    BY FlattenSteps
  <2> QED
    BY <2>1, Zenon DEF Flattens
<1>3. PICK G : G = {i \in 0..n : InTurn(f[i], lists, i)}
  BY Zenon
<1>4. 0 \in G
  <2>1. InTurn(<<>>, lists, 0)
    BY DEF InTurn
  <2> QED
    BY <1>1, <1>2, <1>3, <2>1
<1>5. ASSUME NEW m \in 1..n, m - 1 \in G PROVE m \in G
  <2>1. PICK s, l, t : s = f[m - 1] /\ l = lists[m] /\ t = f[m]
    BY Zenon
  <2>2. m - 1 \in 0..n /\ m \in 0..n
    BY <1>1
  <2>3. s \in Seq(S) /\ l \in Seq(S) /\ t = s \o l /\ InTurn(s, lists, m - 1)
    BY <1>1, <1>2, <1>3, <1>5, <2>1, <2>2
  <2>4. PICK p, q : p = Len(s) /\ q = Len(l)
    BY Zenon
  <2>5. p \in Nat /\ q \in Nat /\ Len(t) = p + q
    BY <2>3, <2>4
  <2>6. ASSUME NEW x \in 1..(p + q)
        PROVE  /\ x <= p => x \in 1..p /\ t[x] = s[x]
               /\ x > p => x - p \in 1..q /\ t[x] = l[x - p]
    BY <2>3, <2>4, <2>5
  <2>7. ASSUME NEW x \in 1..(p + q), x > p PROVE ComesFrom(t, lists, m, x, m, x - p)
    <3>1. x - p \in 1..Len(lists[m]) /\ t[x] = lists[m][x - p]
      BY <2>1, <2>4, <2>6, <2>7
    <3>2. m \in 1..m
      BY <1>1
    <3> QED
      BY <3>1, <3>2 DEF ComesFrom
  <2>8. ASSUME NEW x \in 1..(p + q), x <= p, NEW i, NEW a, ComesFrom(s, lists, m - 1, x, i, a)
        PROVE  ComesFrom(t, lists, m, x, i, a) /\ i < m
    <3>1. i \in 1..m /\ i < m
      BY <1>1, <2>8 DEF ComesFrom
    <3> QED
      BY <2>6, <2>8, <3>1 DEF ComesFrom
  <2>9. ASSUME NEW x \in 1..(p + q) PROVE \E i, a : ComesFrom(t, lists, m, x, i, a)
    <3>1. CASE x <= p
      <4>1. PICK i, a : ComesFrom(s, lists, m - 1, x, i, a)
        BY <2>3, <2>4, <2>6, <3>1, Zenon DEF InTurn
      <4> QED
        BY <2>8, <3>1, <4>1
    <3>2. CASE x > p
      BY <2>7, <3>2
    <3> QED
      BY <2>5, <3>1, <3>2
  <2>10. ASSUME NEW x \in 1..(p + q), NEW y \in 1..(p + q), x < y
         PROVE  \E i, j, a, b : /\ ComesFrom(t, lists, m, x, i, a) /\ ComesFrom(t, lists, m, y, j, b)
                                /\ i < j \/ (i = j /\ a < b)
    <3>1. CASE y <= p
      <4>1. x \in 1..p /\ y \in 1..p /\ x <= p
        BY <2>5, <2>10, <3>1
      <4>2. PICK i, j, a, b : /\ ComesFrom(s, lists, m - 1, x, i, a) /\ ComesFrom(s, lists, m - 1, y, j, b)
                              /\ i < j \/ (i = j /\ a < b)
        BY <2>3, <2>4, <2>10, <4>1, Zenon DEF InTurn
      <4>3. ComesFrom(t, lists, m, x, i, a) /\ ComesFrom(t, lists, m, y, j, b)
        BY <2>8, <3>1, <4>1, <4>2
      <4> QED
        BY <4>2, <4>3, Zenon
    <3>2. CASE x <= p /\ y > p
      <4>1. PICK i, a : ComesFrom(s, lists, m - 1, x, i, a)
        BY <2>3, <2>4, <2>6, <3>2, Zenon DEF InTurn
      <4>2. ComesFrom(t, lists, m, x, i, a) /\ i < m
        BY <2>8, <3>2, <4>1
      <4>3. ComesFrom(t, lists, m, y, m, y - p)
        BY <2>7, <3>2
      <4> QED
        BY <4>2, <4>3, Zenon
    <3>3. CASE x > p
      <4>1. y > p /\ x - p < y - p
        BY <2>5, <2>10, <3>3
      <4>2. ComesFrom(t, lists, m, x, m, x - p) /\ ComesFrom(t, lists, m, y, m, y - p)
        BY <2>7, <3>3, <4>1
      <4> QED
        BY <4>1, <4>2, Zenon
    <3> QED
      BY <2>5, <3>1, <3>2, <3>3
  <2>11. InTurn(t, lists, m)
    BY <2>5, <2>9, <2>10 DEF InTurn
  <2> QED
    BY <1>3, <2>1, <2>2, <2>11
<1>6. \A i \in 0..n : i \in G
  BY <1>1, <1>4, <1>5, UpFromZero
<1> QED
  BY <1>1, <1>2, <1>3, <1>6

(* The members of A that s has follow each other.                          *)
Together(s, A) ==
    \A i, j, k \in 1..Len(s) : i < j /\ j < k /\ s[i] \in A /\ s[k] \in A => s[j] \in A

(* The lists that have members of A are neighbours, all but the first and  *)
(* the last ... consist of them, and each keeps its members together.      *)
KeepTogether(lists, A) ==
    /\ \A i \in DOMAIN lists : Together(lists[i], A)
    /\ \A i, j \in DOMAIN lists : i # j /\ ToSet(lists[i]) \cap A # {} /\ ToSet(lists[j]) \cap A # {}
          => \A k \in DOMAIN lists : i <= k /\ k <= j => ToSet(lists[k]) \subseteq A

(* Then the concatenation keeps them together.                             *)
LEMMA FlattenTogether ==
    ASSUME NEW S, NEW lists, Splits(lists, S), NEW A, KeepTogether(lists, A)
    PROVE  Together(FlattenSeq(lists), A)
<1>1. PICK n, s : n = Len(lists) /\ s = FlattenSeq(lists)
  BY Zenon
<1>2. n \in Nat /\ DOMAIN lists = 1..n /\ lists \in Seq(Seq(S)) /\ \A i \in 1..n : lists[i] \in Seq(S)
  BY <1>1 DEF Splits
<1>3. InTurn(s, lists, n)
  BY <1>1, <1>2, FlattenInTurn
<1>4. ASSUME NEW x, NEW i, NEW a, NEW j, NEW b, ComesFrom(s, lists, n, x, i, a), ComesFrom(s, lists, n, x, j, b)
      PROVE  i = j /\ a = b
  <2>1. /\ i \in 1..n /\ j \in 1..n /\ a \in DOMAIN lists[i] /\ b \in DOMAIN lists[j]
        /\ s[x] = lists[i][a] /\ s[x] = lists[j][b]
    BY <1>2, <1>4 DEF ComesFrom
  <2>2. s[x] \in ToSet(lists[i]) /\ s[x] \in ToSet(lists[j])
    BY <2>1 DEF ToSet
  <2>3. i = j
    BY <1>2, <2>1, <2>2 DEF Splits
  <2> QED
    BY <1>2, <2>1, <2>3 DEF Splits, IsInjective
<1>5. ASSUME NEW x \in 1..Len(s), NEW y \in 1..Len(s), NEW z \in 1..Len(s), x < y, y < z,
             s[x] \in A, s[z] \in A
      PROVE  s[y] \in A
  <2>1. PICK i, j, a, b : /\ ComesFrom(s, lists, n, x, i, a) /\ ComesFrom(s, lists, n, y, j, b)
                          /\ i < j \/ (i = j /\ a < b)
    BY <1>3, <1>5, Zenon DEF InTurn
  <2>2. PICK h, k, d, c : /\ ComesFrom(s, lists, n, y, h, d) /\ ComesFrom(s, lists, n, z, k, c)
                          /\ h < k \/ (h = k /\ d < c)
    BY <1>3, <1>5, Zenon DEF InTurn
  <2>3. h = j /\ d = b
    BY <1>4, <2>1, <2>2
  <2>4. /\ i \in 1..n /\ j \in 1..n /\ k \in 1..n /\ a \in 1..Len(lists[i]) /\ b \in 1..Len(lists[j])
        /\ c \in 1..Len(lists[k]) /\ s[x] = lists[i][a] /\ s[y] = lists[j][b] /\ s[z] = lists[k][c]
    BY <2>1, <2>2, Zenon DEF ComesFrom
  <2>5. s[x] \in ToSet(lists[i]) /\ s[y] \in ToSet(lists[j]) /\ s[z] \in ToSet(lists[k])
    <3>1. /\ DOMAIN lists[i] = 1..Len(lists[i]) /\ DOMAIN lists[j] = 1..Len(lists[j])
          /\ DOMAIN lists[k] = 1..Len(lists[k])
      BY <1>2, <2>4
    <3> QED
      BY <2>4, <3>1, Zenon DEF ToSet
  <2>6. /\ i \in Nat /\ j \in Nat /\ k \in Nat
        /\ i < j \/ (i = j /\ a < b)
        /\ j < k \/ (j = k /\ b < c)
    <3>1. i \in Nat /\ j \in Nat /\ k \in Nat
      BY <1>2, <2>4
    <3>2. /\ i < j \/ (i = j /\ a < b)
          /\ h < k \/ (h = k /\ d < c)
      BY <2>1, <2>2, Zenon
    <3> QED
      BY <2>3, <3>1, <3>2
  <2>7. CASE i = k
    <3>1. i = j /\ a < b /\ b < c
      BY <2>6, <2>7
    <3>2. Together(lists[j], A)
      BY <1>2, <2>4 DEF KeepTogether
    <3> QED
      BY <1>5, <2>4, <2>7, <3>1, <3>2 DEF Together
  <2>8. CASE i # k
    <3>1. i <= j /\ j <= k
      BY <2>6
    <3>2. ToSet(lists[i]) \cap A # {} /\ ToSet(lists[k]) \cap A # {}
      BY <1>5, <2>5
    <3>3. ToSet(lists[j]) \subseteq A
      BY <1>2, <2>4, <2>8, <3>1, <3>2 DEF KeepTogether
    <3> QED
      BY <2>5, <3>3
  <2> QED
    BY <2>7, <2>8
<1> QED
  BY <1>1, <1>5, Zenon DEF Together

-----------------------------------------------------------------------------
(* Walks through a tree of paths.                                          *)

(* What a walk yields at p: its own part, then that of each child.         *)
TurnAt(own, kids, f, p) ==
    own[p] \o FlattenSeq([k \in DOMAIN kids[p] |-> f[Append(p, kids[p][k])]])

IsWalk(D, own, kids, f) == f = [p \in D |-> TurnAt(own, kids, f, p)]

(* D is a tree of paths over K no longer than M, with these children.      *)
TreeOf(D, K, M, kids) ==
    /\ M \in Nat /\ D \subseteq Seq(K) /\ \A p \in D : Len(p) <= M
    /\ \A q \in D, p \in Seq(K) : Begins(p, q) => p \in D
    /\ \A p \in D : Enumerates(kids[p], {k \in K : Append(p, k) \in D})

(* A child is one token longer, and below its parent.                      *)
LEMMA ChildFacts ==
    ASSUME NEW D, NEW K, NEW M, NEW kids, TreeOf(D, K, M, kids)
    PROVE  \A p \in D : \A k \in DOMAIN kids[p] :
              /\ kids[p][k] \in K /\ Append(p, kids[p][k]) \in D
              /\ Len(Append(p, kids[p][k])) = Len(p) + 1 /\ Begins(p, Append(p, kids[p][k]))
<1> SUFFICES ASSUME NEW p \in D, NEW k \in DOMAIN kids[p]
             PROVE  /\ kids[p][k] \in K /\ Append(p, kids[p][k]) \in D
                    /\ Len(Append(p, kids[p][k])) = Len(p) + 1 /\ Begins(p, Append(p, kids[p][k]))
  OBVIOUS
<1>1. Enumerates(kids[p], {h \in K : Append(p, h) \in D}) /\ p \in Seq(K)
  BY DEF TreeOf
<1>2. kids[p][k] \in {h \in K : Append(p, h) \in D}
  BY <1>1, EnumFacts
<1>3. kids[p][k] \in K /\ Append(p, kids[p][k]) \in D
  BY <1>2
<1> QED
  BY <1>1, <1>3, BeginsStep

(* The recursion of a walk defines a function.                             *)
LEMMA WalkDefined ==
    ASSUME NEW D, NEW K, NEW M, NEW kids, TreeOf(D, K, M, kids), NEW own
    PROVE  \E f : IsWalk(D, own, kids, f)
<1>1. M \in Nat /\ \A p \in D : Len(p) \in Nat /\ Len(p) <= M
  BY DEF TreeOf
<1>2. \A p \in D : \A k \in DOMAIN kids[p] :
         Append(p, kids[p][k]) \in D /\ Len(Append(p, kids[p][k])) = Len(p) + 1
  BY ChildFacts
<1>3. PICK Low : Low = [n \in 0..(M + 1) |-> {p \in D : Len(p) + n > M}]
  BY Zenon
<1>4. PICK G : G = {n \in 0..(M + 1) : \E f : IsWalk(Low[n], own, kids, f)}
  BY Zenon
<1>5. 0 \in G
  <2>1. 0 \in 0..(M + 1)
    BY <1>1
  <2>2. Low[0] = {p \in D : Len(p) + 0 > M}
    BY <1>3, <2>1
  <2>3. Low[0] = {}
    BY <1>1, <2>2
  <2>4. PICK f : f = [p \in {} |-> 0]
    BY Zenon
  <2>5. IsWalk({}, own, kids, f)
    BY <2>4 DEF IsWalk
  <2> QED
    BY <1>4, <2>1, <2>3, <2>5
<1>6. ASSUME NEW n \in 1..(M + 1), n - 1 \in G PROVE n \in G
  <2>1. n \in 0..(M + 1) /\ n - 1 \in 0..(M + 1)
    BY <1>1
  <2>2. PICK f : IsWalk(Low[n - 1], own, kids, f)
    BY <1>4, <1>6
  <2>3. PICK A, B : A = Low[n - 1] /\ B = Low[n]
    BY Zenon
  <2>4. A = {p \in D : Len(p) + (n - 1) > M} /\ B = {p \in D : Len(p) + n > M}
    BY <1>3, <2>1, <2>3
  <2>5. PICK g : g = [p \in B |-> IF p \in A THEN f[p] ELSE TurnAt(own, kids, f, p)]
    BY Zenon
  <2>6. A \subseteq B /\ B \subseteq D
    BY <1>1, <2>1, <2>4
  <2>7. f = [p \in A |-> TurnAt(own, kids, f, p)]
    BY <2>2, <2>3, Zenon DEF IsWalk
  <2>8. ASSUME NEW p \in B PROVE TurnAt(own, kids, f, p) = TurnAt(own, kids, g, p)
    <3>1. ASSUME NEW k \in DOMAIN kids[p] PROVE f[Append(p, kids[p][k])] = g[Append(p, kids[p][k])]
      <4>1. PICK c : c = Append(p, kids[p][k])
        BY Zenon
      <4>2. c \in D /\ Len(c) = Len(p) + 1
        <5>1. p \in D
          BY <2>6
        <5> QED
          BY <1>2, <4>1, <5>1
      <4>3. c \in A
        BY <1>1, <2>1, <2>4, <2>6, <4>2
      <4>4. g[c] = f[c]
        BY <2>5, <2>6, <4>3
      <4> QED
        BY <4>1, <4>4
    <3>2. [k \in DOMAIN kids[p] |-> f[Append(p, kids[p][k])]]
            = [k \in DOMAIN kids[p] |-> g[Append(p, kids[p][k])]]
      BY <3>1
    <3> QED
      BY <3>2, Zenon DEF TurnAt
  <2>9. ASSUME NEW p \in B PROVE g[p] = TurnAt(own, kids, g, p)
    <3>1. CASE p \in A
      <4>1. g[p] = f[p] /\ f[p] = TurnAt(own, kids, f, p)
        BY <2>5, <2>7, <3>1, Zenon
      <4> QED
        BY <2>8, <4>1
    <3>2. CASE p \notin A
      <4>1. g[p] = TurnAt(own, kids, f, p)
        BY <2>5, <3>2, Zenon
      <4> QED
        BY <2>8, <4>1
    <3> QED
      BY <3>1, <3>2
  <2>10. g = [p \in B |-> TurnAt(own, kids, g, p)]
    BY <2>5, <2>9
  <2>11. IsWalk(B, own, kids, g)
    BY <2>10, Zenon DEF IsWalk
  <2> QED
    BY <1>4, <2>1, <2>3, <2>11
<1>7. M + 1 \in 0..(M + 1) /\ M + 1 \in Nat
  BY <1>1
<1>8. \A n \in 0..(M + 1) : n \in G
  BY <1>5, <1>6, <1>7, UpFromZero
<1>9. Low[M + 1] = D
  <2>1. Low[M + 1] = {p \in D : Len(p) + (M + 1) > M}
    BY <1>3, <1>7
  <2> QED
    BY <1>1, <2>1
<1> QED
  BY <1>4, <1>7, <1>8, <1>9

(* The members of E at or below p.                                         *)
Below(E, p) == {q \in E : Begins(p, q)}

(* The part of a walk at p lists the members of E below p, together.       *)
WalksWell(f, D, E, p) ==
    /\ Enumerates(f[p], Below(E, p))
    /\ \A r \in D : Together(f[p], Below(E, r))

(* Elements that are not in A in front change nothing.                     *)
LEMMA TogetherAfter ==
    ASSUME NEW S, NEW s \in Seq(S), NEW u \in Seq(S), NEW A, ToSet(s) \cap A = {}, Together(u, A)
    PROVE  Together(s \o u, A)
<1>1. PICK w, p, q : w = s \o u /\ p = Len(s) /\ q = Len(u)
  BY Zenon
<1>2. p \in Nat /\ q \in Nat /\ Len(w) = p + q
  BY <1>1
<1>3. ASSUME NEW x \in 1..(p + q)
      PROVE  /\ x <= p => w[x] \notin A
             /\ x > p => x - p \in 1..q /\ w[x] = u[x - p]
  <2>1. x <= p => w[x] = s[x] /\ x \in DOMAIN s
    BY <1>1, <1>2
  <2>2. x > p => x - p \in 1..q /\ w[x] = u[x - p]
    BY <1>1, <1>2
  <2> QED
    BY <2>1, <2>2 DEF ToSet
<1>4. ASSUME NEW i \in 1..(p + q), NEW j \in 1..(p + q), NEW k \in 1..(p + q), i < j, j < k,
             w[i] \in A, w[k] \in A
      PROVE  w[j] \in A
  <2>1. i > p /\ j > p /\ k > p
    BY <1>2, <1>3, <1>4
  <2>2. /\ i - p \in 1..q /\ j - p \in 1..q /\ k - p \in 1..q /\ i - p < j - p /\ j - p < k - p
        /\ w[i] = u[i - p] /\ w[j] = u[j - p] /\ w[k] = u[k - p]
    BY <1>2, <1>3, <1>4, <2>1
  <2>3. PICK x, y, z : x = i - p /\ y = j - p /\ z = k - p
    BY Zenon
  <2>4. /\ x \in 1..q /\ y \in 1..q /\ z \in 1..q /\ x < y /\ y < z
        /\ w[i] = u[x] /\ w[j] = u[y] /\ w[k] = u[z]
    BY <2>2, <2>3, Zenon
  <2>5. u[y] \in A
    BY <1>1, <1>4, <2>4, Zenon DEF Together
  <2> QED
    BY <2>4, <2>5, Zenon
<1> QED
  BY <1>1, <1>2, <1>4 DEF Together

(* What the walks at the children have between them.                       *)
Childs(kids, f, p) == [k \in DOMAIN kids[p] |-> f[Append(p, kids[p][k])]]

(* The way from p down to q goes through one child.                        *)
LEMMA WayDown ==
    ASSUME NEW D, NEW K, NEW M, NEW kids, TreeOf(D, K, M, kids), NEW p \in D
    PROVE  /\ \A q \in D : Begins(p, q) /\ q # p =>
                 \E k \in DOMAIN kids[p] : Begins(Append(p, kids[p][k]), q)
           /\ \A q \in D : \A k, l \in DOMAIN kids[p] :
                 Begins(Append(p, kids[p][k]), q) /\ Begins(Append(p, kids[p][l]), q) => k = l
           /\ \A q \in D : \A k \in DOMAIN kids[p] :
                 Begins(Append(p, kids[p][k]), q) => Begins(p, q) /\ q # p
<1>1. /\ Enumerates(kids[p], {h \in K : Append(p, h) \in D}) /\ p \in Seq(K) /\ D \subseteq Seq(K)
      /\ \A q \in D, r \in Seq(K) : Begins(r, q) => r \in D
  BY DEF TreeOf
<1>2. PICK C : C = {h \in K : Append(p, h) \in D}
  BY Zenon
<1>3. /\ \A k \in DOMAIN kids[p] : kids[p][k] \in K
      /\ \A h \in C : \E k \in DOMAIN kids[p] : kids[p][k] = h
      /\ \A k, l \in DOMAIN kids[p] : kids[p][k] = kids[p][l] => k = l
  <2>1. Enumerates(kids[p], C)
    BY <1>1, <1>2
  <2>2. /\ DOMAIN kids[p] = 1..Len(kids[p])
        /\ \A k \in 1..Len(kids[p]) : kids[p][k] \in C
        /\ \A h \in C : \E k \in 1..Len(kids[p]) : kids[p][k] = h
        /\ \A k, l \in 1..Len(kids[p]) : kids[p][k] = kids[p][l] => k = l
    BY <2>1, EnumFacts
  <2> QED
    BY <1>2, <2>2
<1>4. ASSUME NEW q \in D, Begins(p, q), q # p
      PROVE  \E k \in DOMAIN kids[p] : Begins(Append(p, kids[p][k]), q)
  <2>1. q \in Seq(K) /\ Len(p) \in Nat /\ Len(q) \in Nat /\ Len(p) <= Len(q)
    BY <1>1, <1>4 DEF Begins
  <2>2. Len(p) # Len(q)
    BY <1>1, <1>4, <2>1, BeginsFacts
  <2>3. PICK h : h = q[Len(p) + 1]
    BY Zenon
  <2>4. Len(p) < Len(q) /\ Len(p) + 1 \in 1..Len(q)
    BY <2>1, <2>2
  <2>5. h \in K
    BY <2>1, <2>3, <2>4
  <2>6. Append(p, h) \in Seq(K) /\ Begins(Append(p, h), q)
    BY <1>1, <1>4, <2>1, <2>3, <2>4, <2>5, BeginsStep
  <2>7. h \in C
    BY <1>1, <1>2, <2>5, <2>6
  <2> QED
    BY <1>3, <2>6, <2>7
<1>5. ASSUME NEW q \in D, NEW k \in DOMAIN kids[p], Begins(Append(p, kids[p][k]), q)
      PROVE  kids[p][k] = q[Len(p) + 1] /\ Begins(p, q) /\ q # p
  <2>1. PICK h : h = kids[p][k]
    BY Zenon
  <2>2. h \in K /\ q \in Seq(K)
    BY <1>1, <1>3, <2>1
  <2>3. Begins(p, q) /\ Len(p) < Len(q) /\ q[Len(p) + 1] = h
    BY <1>1, <1>5, <2>1, <2>2, BeginsStep
  <2> QED
    BY <1>1, <2>1, <2>3
<1> QED
  BY <1>3, <1>4, <1>5

(* If each child is walked well, the children's parts split what is below. *)
LEMMA ChildsSplit ==
    ASSUME NEW D, NEW K, NEW M, NEW kids, TreeOf(D, K, M, kids), NEW E \in SUBSET D, NEW f,
           NEW p \in D, \A k \in DOMAIN kids[p] : WalksWell(f, D, E, Append(p, kids[p][k])),
           NEW lists, lists = Childs(kids, f, p)
    PROVE  /\ Splits(lists, Below(E, p) \ {p})
           /\ \A k \in DOMAIN lists : ToSet(lists[k]) = Below(E, Append(p, kids[p][k]))
           /\ DOMAIN lists = DOMAIN kids[p]
           /\ \A r \in D : ~Begins(r, p) => KeepTogether(lists, Below(E, r))
<1>1. PICK U, n : U = Below(E, p) \ {p} /\ n = Len(kids[p])
  BY Zenon
<1>2. PICK c : c = [k \in DOMAIN kids[p] |-> Append(p, kids[p][k])]
  BY Zenon
<1>3. n \in Nat /\ DOMAIN kids[p] = 1..n /\ DOMAIN c = 1..n /\ D \subseteq Seq(K)
  <2>1. Enumerates(kids[p], {h \in K : Append(p, h) \in D}) /\ D \subseteq Seq(K)
    BY DEF TreeOf
  <2> QED
    BY <1>1, <1>2, <2>1, EnumFacts
<1>4. \A k \in 1..n : c[k] = Append(p, kids[p][k]) /\ c[k] \in D /\ Len(c[k]) = Len(p) + 1
  BY <1>2, <1>3, ChildFacts
<1>5. /\ \A q \in D : Begins(p, q) /\ q # p => \E k \in 1..n : Begins(c[k], q)
      /\ \A q \in D : \A k, l \in 1..n : Begins(c[k], q) /\ Begins(c[l], q) => k = l
      /\ \A q \in D : \A k \in 1..n : Begins(c[k], q) => Begins(p, q) /\ q # p
  <2>1. /\ \A q \in D : Begins(p, q) /\ q # p =>
                 \E k \in DOMAIN kids[p] : Begins(Append(p, kids[p][k]), q)
        /\ \A q \in D : \A k, l \in DOMAIN kids[p] :
                 Begins(Append(p, kids[p][k]), q) /\ Begins(Append(p, kids[p][l]), q) => k = l
        /\ \A q \in D : \A k \in DOMAIN kids[p] :
                 Begins(Append(p, kids[p][k]), q) => Begins(p, q) /\ q # p
    BY WayDown, Zenon
  <2>2. DOMAIN kids[p] = 1..n /\ \A k \in 1..n : c[k] = Append(p, kids[p][k])
    BY <1>3, <1>4
  <2>3. ASSUME NEW q \in D, Begins(p, q), q # p PROVE \E k \in 1..n : Begins(c[k], q)
    <3>1. PICK k \in DOMAIN kids[p] : Begins(Append(p, kids[p][k]), q)
      BY <2>1, <2>3, Zenon
    <3> QED
      BY <2>2, <3>1
  <2>4. ASSUME NEW q \in D, NEW k \in 1..n, Begins(c[k], q)
        PROVE  /\ Begins(p, q) /\ q # p
               /\ \A l \in 1..n : Begins(c[l], q) => k = l
    <3>1. k \in DOMAIN kids[p] /\ Begins(Append(p, kids[p][k]), q)
      BY <2>2, <2>4
    <3>2. \A l \in 1..n : Begins(c[l], q) => l \in DOMAIN kids[p] /\ Begins(Append(p, kids[p][l]), q)
      BY <2>2
    <3> QED
      BY <2>1, <3>1, <3>2, Zenon
  <2> QED
    BY <2>3, <2>4, Zenon
<1>6. lists = [k \in 1..n |-> f[c[k]]] /\ \A k \in 1..n : WalksWell(f, D, E, c[k])
  BY <1>2, <1>3 DEF Childs
<1>7. ASSUME NEW k \in 1..n
      PROVE  /\ Enumerates(lists[k], Below(E, c[k])) /\ ToSet(lists[k]) = Below(E, c[k])
             /\ IsInjective(lists[k]) /\ lists[k] \in Seq(U)
             /\ \A r \in D : Together(lists[k], Below(E, r))
  <2>1. Enumerates(lists[k], Below(E, c[k])) /\ \A r \in D : Together(lists[k], Below(E, r))
    BY <1>6, Zenon DEF WalksWell
  <2>2. Below(E, c[k]) \subseteq U
    BY <1>1, <1>5 DEF Below
  <2>3. lists[k] \in Seq(Below(E, c[k])) /\ IsInjective(lists[k]) /\ ToSet(lists[k]) = Below(E, c[k])
    BY <2>1, Zenon DEF Enumerates
  <2>4. lists[k] \in Seq(U)
    BY <2>2, <2>3
  <2> QED
    BY <2>1, <2>3, <2>4
<1>8. lists \in [1..n -> Seq(U)] /\ DOMAIN lists = 1..n
  BY <1>6, <1>7
<1>9. lists \in Seq(Seq(U))
  BY <1>3, <1>8, SeqIntro
<1>10. ASSUME NEW k \in 1..n, NEW l \in 1..n, k # l PROVE ToSet(lists[k]) \cap ToSet(lists[l]) = {}
  <2>1. ToSet(lists[k]) = Below(E, c[k]) /\ ToSet(lists[l]) = Below(E, c[l])
    BY <1>7
  <2> QED
    BY <1>5, <1>10, <2>1 DEF Below
<1>11. ASSUME NEW x \in U PROVE \E k \in 1..n : x \in ToSet(lists[k])
  <2>1. x \in D /\ x \in E /\ Begins(p, x) /\ x # p
    BY <1>1 DEF Below
  <2>2. PICK k \in 1..n : Begins(c[k], x)
    BY <1>5, <2>1
  <2>3. x \in ToSet(lists[k])
    BY <1>7, <2>1, <2>2 DEF Below
  <2> QED
    BY <2>3
<1>12. Splits(lists, U)
  BY <1>7, <1>8, <1>9, <1>10, <1>11 DEF Splits
<1>13. ASSUME NEW r \in D, ~Begins(r, p) PROVE KeepTogether(lists, Below(E, r))
  <2>1. ASSUME NEW k \in 1..n, ToSet(lists[k]) \cap Below(E, r) # {} PROVE Begins(c[k], r)
    <3>1. PICK x : x \in Below(E, c[k]) /\ x \in Below(E, r)
      BY <1>7, <2>1
    <3>2. x \in Seq(K) /\ Begins(c[k], x) /\ Begins(r, x) /\ x \in D /\ r \in Seq(K) /\ p \in Seq(K)
          /\ c[k] \in Seq(K)
      BY <1>3, <1>4, <3>1 DEF Below
    <3>3. Begins(p, x)
      BY <1>5, <3>2
    <3>4. ~(Len(r) <= Len(p))
      BY <1>13, <3>2, <3>3, BeginsTrans
    <3>5. Len(c[k]) <= Len(r)
      <4>1. Len(r) \in Nat /\ Len(p) \in Nat /\ Len(c[k]) = Len(p) + 1
        BY <1>4, <3>2
      <4> QED
        BY <3>4, <4>1
    <3> QED
      BY <3>2, <3>5, BeginsTrans
  <2>2. ASSUME NEW k \in 1..n, NEW l \in 1..n, k # l, ToSet(lists[k]) \cap Below(E, r) # {},
               ToSet(lists[l]) \cap Below(E, r) # {}
        PROVE  FALSE
    BY <1>5, <2>1, <2>2
  <2> QED
    BY <1>7, <1>8, <2>2 DEF KeepTogether
<1>14. \A k \in DOMAIN lists : ToSet(lists[k]) = Below(E, Append(p, kids[p][k]))
  BY <1>4, <1>7, <1>8
<1> QED
  BY <1>1, <1>3, <1>8, <1>12, <1>13, <1>14

(* The walk yields the members of E.                                       *)
OwnParts(own, D, E) == own = [p \in D |-> IF p \in E THEN <<p>> ELSE <<>>]

(* A walk is good at p when it is at the children of p.                    *)
LEMMA WalkStep ==
    ASSUME NEW D, NEW K, NEW M, NEW kids, TreeOf(D, K, M, kids), NEW E \in SUBSET D, NEW own,
           OwnParts(own, D, E), NEW f, IsWalk(D, own, kids, f), NEW p \in D,
           \A k \in DOMAIN kids[p] : WalksWell(f, D, E, Append(p, kids[p][k]))
    PROVE  WalksWell(f, D, E, p)
<1>1. PICK lists : lists = Childs(kids, f, p)
  BY Zenon
<1>2. PICK U, B : U = Below(E, p) \ {p} /\ B = Below(E, p)
  BY Zenon
<1>3. /\ Splits(lists, U)
      /\ \A r \in D : ~Begins(r, p) => KeepTogether(lists, Below(E, r))
  BY <1>1, <1>2, ChildsSplit
<1>4. PICK s, u : s = own[p] /\ u = FlattenSeq(lists)
  BY Zenon
<1>5. f[p] = s \o u
  <2>1. f[p] = TurnAt(own, kids, f, p)
    BY Zenon DEF IsWalk
  <2> QED
    BY <1>1, <1>4, <2>1, Zenon DEF TurnAt, Childs
<1>6. Enumerates(u, U)
  BY <1>3, <1>4, EnumFlatten
<1>7. D \subseteq Seq(K) /\ p \in Seq(K) /\ Begins(p, p)
  BY BeginsFacts DEF TreeOf
<1>8. s = IF p \in E THEN <<p>> ELSE <<>>
  BY <1>4, Zenon DEF OwnParts
<1>9. Enumerates(s, {p} \cap E)
  <2>1. CASE p \in E
    BY <1>8, <2>1, EnumSingle
  <2>2. CASE p \notin E
    BY <1>8, <2>2, EnumEmpty
  <2> QED
    BY <2>1, <2>2
<1>10. B = ({p} \cap E) \cup U /\ ({p} \cap E) \cap U = {}
  BY <1>2, <1>7 DEF Below
<1>11. Enumerates(f[p], B)
  BY <1>5, <1>6, <1>9, <1>10, EnumConcat
<1>12. ASSUME NEW r \in D PROVE Together(f[p], Below(E, r))
  <2>1. PICK A : A = Below(E, r)
    BY Zenon
  <2>2. r \in Seq(K)
    BY <1>7
  <2>3. CASE Begins(r, p)
    <3>1. ASSUME NEW x \in B PROVE x \in A
      <4>1. x \in E /\ Begins(p, x) /\ x \in Seq(K)
        BY <1>2, <1>7 DEF Below
      <4>2. Begins(r, x)
        BY <1>7, <2>2, <2>3, <4>1, BeginsTrans
      <4> QED
        BY <2>1, <4>1, <4>2 DEF Below
    <3>2. \A i \in 1..Len(f[p]) : f[p][i] \in B
      BY <1>11, EnumFacts
    <3> QED
      BY <2>1, <3>1, <3>2 DEF Together
  <2>4. CASE ~Begins(r, p)
    <3>1. KeepTogether(lists, A)
      BY <1>3, <2>1, <2>4
    <3>2. Together(u, A)
      BY <1>3, <1>4, <3>1, FlattenTogether
    <3>3. s \in Seq(B) /\ u \in Seq(B) /\ ToSet(s) \cap A = {}
      <4>1. s \in Seq({p} \cap E) /\ ToSet(s) = {p} \cap E /\ u \in Seq(U)
        BY <1>6, <1>9, Zenon DEF Enumerates
      <4>2. {p} \cap E \subseteq B /\ U \subseteq B
        BY <1>10
      <4>3. p \notin A
        BY <2>1, <2>4 DEF Below
      <4>4. s \in Seq(B) /\ u \in Seq(B)
        BY <4>1, <4>2
      <4> QED
        BY <4>1, <4>3, <4>4
    <3> QED
      BY <1>5, <2>1, <3>2, <3>3, TogetherAfter
  <2> QED
    BY <2>3, <2>4
<1> QED
  BY <1>2, <1>11, <1>12 DEF WalksWell

(* A walk lists the members of E below each node, once, and keeps together *)
(* what is below any other node.                                           *)
LEMMA WalkFacts ==
    ASSUME NEW D, NEW K, NEW M, NEW kids, TreeOf(D, K, M, kids), NEW E \in SUBSET D, NEW own,
           OwnParts(own, D, E), NEW f, IsWalk(D, own, kids, f)
    PROVE  \A p \in D : WalksWell(f, D, E, p)
<1>1. M \in Nat /\ \A p \in D : Len(p) \in Nat /\ Len(p) <= M
  BY DEF TreeOf
<1>2. \A p \in D : \A k \in DOMAIN kids[p] :
         Append(p, kids[p][k]) \in D /\ Len(Append(p, kids[p][k])) = Len(p) + 1
  BY ChildFacts
<1>3. PICK G : G = {n \in 0..(M + 1) : \A p \in D : Len(p) + n > M => WalksWell(f, D, E, p)}
  BY Zenon
<1>4. 0 \in G
  <2>1. \A p \in D : ~(Len(p) + 0 > M)
    BY <1>1
  <2>2. 0 \in 0..(M + 1)
    BY <1>1
  <2> QED
    BY <1>3, <2>1, <2>2
<1>5. ASSUME NEW n \in 1..(M + 1), n - 1 \in G PROVE n \in G
  <2>1. ASSUME NEW p \in D, Len(p) + n > M PROVE WalksWell(f, D, E, p)
    <3>1. ASSUME NEW k \in DOMAIN kids[p] PROVE WalksWell(f, D, E, Append(p, kids[p][k]))
      <4>1. PICK c : c = Append(p, kids[p][k])
        BY Zenon
      <4>2. c \in D /\ Len(c) = Len(p) + 1
        BY <1>2, <4>1
      <4>3. Len(c) + (n - 1) > M
        BY <1>1, <2>1, <4>2
      <4> QED
        BY <1>3, <1>5, <4>1, <4>2, <4>3
    <3> QED
      BY <3>1, WalkStep
  <2>2. n \in 0..(M + 1)
    BY <1>1
  <2> QED
    BY <1>3, <2>1, <2>2
<1>6. M + 1 \in 0..(M + 1) /\ M + 1 \in Nat
  BY <1>1
<1>7. \A n \in 0..(M + 1) : n \in G
  BY <1>4, <1>5, <1>6, UpFromZero
<1>8. \A p \in D : Len(p) + (M + 1) > M
  BY <1>1
<1> QED
  BY <1>3, <1>6, <1>7, <1>8

(* A node's children, and the counts of a trie.                            *)
Kids(t, K, p) == {k \in K : Append(p, k) \in DOMAIN t}

(* Counts are natural numbers, those of the prompts that pass.             *)
LEMMA CountsNat ==
    ASSUME NEW K, NEW t, NEW m, IsTrie(t, m, K)
    PROVE  \A p \in DOMAIN t : t[p].count \in Nat /\ IsFiniteSet(Passing(m, p))
                               /\ (p # <<>> => t[p].count = Cardinality(Passing(m, p)))
<1> SUFFICES ASSUME NEW p \in DOMAIN t
             PROVE  t[p].count \in Nat /\ IsFiniteSet(Passing(m, p))
                    /\ (p # <<>> => t[p].count = Cardinality(Passing(m, p)))
  OBVIOUS
<1>1. NodeExact(t, m, K, p) /\ PathsOf(m, K)
  BY DEF IsTrie
<1>2. IsFiniteSet(Passing(m, p))
  BY <1>1, FS_Subset DEF PathsOf, Passing
<1>3. Cardinality(Passing(m, p)) \in Nat
  BY <1>2, FS_CardinalityType
<1>4. t[p].count = IF p = <<>> THEN 0 ELSE Cardinality(Passing(m, p))
  BY <1>1, Zenon DEF NodeExact
<1> QED
  BY <1>2, <1>3, <1>4

(* A traversal visits every child once.                                    *)
LEMMA VisitFacts ==
    ASSUME NEW K, NEW t, NEW m, IsTrie(t, m, K), NEW aware
    PROVE  \A p \in DOMAIN t : Enumerates(Visit(t, p, aware), Kids(t, K, p))
<1> SUFFICES ASSUME NEW p \in DOMAIN t PROVE Enumerates(Visit(t, p, aware), Kids(t, K, p))
  OBVIOUS
<1>1. Enumerates(t[p].kids, Kids(t, K, p))
  <2>1. NodeExact(t, m, K, p)
    BY DEF IsTrie
  <2> QED
    BY <2>1, Zenon DEF NodeExact, Kids
<1>2. PICK s : s = t[p].kids
  BY Zenon
<1>3. PICK wt : wt = [k \in K |-> t[Append(p, k)].count]
  BY Zenon
<1>4. \A k \in Kids(t, K, p) : wt[k] \in Nat /\ wt[k] = t[Append(p, k)].count
  BY <1>3, CountsNat DEF Kids
<1>5. PICK R : R = {q \in (DOMAIN s) \X (DOMAIN s) :
                      \/ t[Append(p, s[q[1]])].count < t[Append(p, s[q[2]])].count
                      \/ ~(t[Append(p, s[q[2]])].count < t[Append(p, s[q[1]])].count) /\ q[1] < q[2]}
  BY Zenon
<1>6. \A i \in DOMAIN s : s[i] \in Kids(t, K, p)
  BY <1>1, <1>2, EnumFacts
<1>7. ByWeight(R, s, wt)
  BY <1>4, <1>5, <1>6 DEF ByWeight
<1>8. PICK W : WeaklyOrders(W, DOMAIN s) /\ StableBy(R, W, DOMAIN s)
  BY <1>1, <1>2, <1>4, <1>7, ByWeightStable, ZenonT(40)
<1>9. Enumerates(At(s, InOrder(DOMAIN s, R)), Kids(t, K, p))
  <2>1. PICK is, u, n : is = InOrder(DOMAIN s, R) /\ u = At(s, is) /\ n = Len(s)
    BY Zenon
  <2>2. Enumerates(s, Kids(t, K, p))
    BY <1>1, <1>2
  <2>3. Enumerates(u, Kids(t, K, p))
    BY <1>8, <2>1, <2>2, EnumSort
  <2> QED
    BY <2>1, <2>3, Zenon
<1>10. StableSort(s, LAMBDA a, b : t[Append(p, a)].count < t[Append(p, b)].count)
         = At(s, InOrder(DOMAIN s, R))
  BY <1>5, Zenon DEF StableSort
<1>11. Enumerates(Reverse(At(s, InOrder(DOMAIN s, R))), Kids(t, K, p))
  BY <1>9, EnumReverse
<1>12. Visit(t, p, aware) = s \/ Visit(t, p, aware) = Reverse(At(s, InOrder(DOMAIN s, R)))
  BY <1>2, <1>10, Zenon DEF Visit
<1> QED
  BY <1>1, <1>2, <1>11, <1>12

(* The nodes of a trie are a tree.                                         *)
LEMMA TrieIsTree ==
    ASSUME NEW K, NEW t, NEW m, IsTrie(t, m, K), NEW kids,
           \A p \in DOMAIN t : Enumerates(kids[p], Kids(t, K, p))
    PROVE  TreeOf(DOMAIN t, K, MaxDepth, kids) /\ <<>> \in DOMAIN t /\ <<>> \in Seq(K)
<1>1. PathsOf(m, K) /\ DOMAIN t = NodesOf(m, K)
  BY DEF IsTrie
<1>2. DOMAIN t \subseteq Seq(K) /\ <<>> \in Seq(K) /\ <<>> \in DOMAIN t
  BY <1>1 DEF NodesOf
<1>3. ASSUME NEW p \in DOMAIN t PROVE Len(p) <= MaxDepth
  <2>1. CASE p = <<>>
    BY <2>1, TrieAssumption
  <2>2. CASE p # <<>>
    <3>1. PICK i : i \in Passing(m, p)
      BY <1>1, <2>2 DEF NodesOf
    <3>2. m[i] \in Seq(K) /\ Len(m[i]) <= MaxDepth /\ Len(p) <= Len(m[i])
      BY <1>1, <3>1 DEF PathsOf, Passing, Begins
    <3>3. Len(p) \in Nat /\ Len(m[i]) \in Nat /\ MaxDepth \in Nat
      BY <1>2, <3>2, TrieAssumption
    <3> QED
      BY <3>2, <3>3
  <2> QED
    BY <2>1, <2>2
<1>4. \A q \in DOMAIN t, p \in Seq(K) : Begins(p, q) => p \in DOMAIN t
  BY <1>1, NodesClosed
<1> QED
  BY <1>2, <1>3, <1>4, TrieAssumption DEF TreeOf, Kids

(* The paths where a prompt ends.                                          *)
Ends(m) == {m[i] : i \in DOMAIN m}

(* A node has prompts just when it is such a path.                         *)
LEMMA EndsFacts ==
    ASSUME NEW K, NEW t, NEW m, IsTrie(t, m, K)
    PROVE  /\ Ends(m) \subseteq DOMAIN t
           /\ \A p \in DOMAIN t : /\ Enumerates(t[p].idx, {i \in DOMAIN m : m[i] = p})
                                  /\ t[p].idx = <<>> <=> p \notin Ends(m)
<1>1. PathsOf(m, K) /\ DOMAIN t = NodesOf(m, K) /\ \A p \in DOMAIN t : NodeExact(t, m, K, p)
  BY DEF IsTrie
<1>2. ASSUME NEW i \in DOMAIN m PROVE m[i] \in DOMAIN t
  <2>1. m[i] \in Seq(K)
    BY <1>1 DEF PathsOf
  <2>2. i \in Passing(m, m[i])
    BY <2>1, BeginsFacts DEF Passing
  <2> QED
    BY <1>1, <2>1, <2>2 DEF NodesOf
<1>3. ASSUME NEW p \in DOMAIN t
      PROVE  Enumerates(t[p].idx, {i \in DOMAIN m : m[i] = p}) /\ (t[p].idx = <<>> <=> p \notin Ends(m))
  <2>1. Enumerates(t[p].idx, {i \in DOMAIN m : m[i] = p})
    BY <1>1, Zenon DEF NodeExact
  <2>2. PICK s, I : s = t[p].idx /\ I = {i \in DOMAIN m : m[i] = p}
    BY Zenon
  <2>3. s \in Seq(I) /\ ToSet(s) = I
    BY <2>1, <2>2, Zenon DEF Enumerates
  <2>4. s = <<>> => I = {}
    BY <2>3 DEF ToSet
  <2>5. I = {} => s = <<>>
    <3>1. ASSUME I = {} PROVE Len(s) = 0
      <4>1. IsFiniteSet(I) /\ Cardinality(I) = Len(s)
        BY <2>1, <2>2, EnumLength
      <4> QED
        BY <3>1, <4>1, FS_EmptySet
    <3> QED
      BY <2>3, <3>1, EmptySeq
  <2>6. I = {} <=> p \notin Ends(m)
    BY <2>2 DEF Ends
  <2> QED
    BY <2>1, <2>2, <2>4, <2>5, <2>6
<1> QED
  BY <1>2, <1>3 DEF Ends

(* The keys a traversal finds below each node.                             *)
DfsWalk(t, aware, keys) ==
    keys = [p \in DOMAIN t |->
              (IF t[p].idx = <<>> THEN <<>> ELSE <<p>>)
                \o FlattenSeq([k \in DOMAIN Visit(t, p, aware) |->
                                 keys[Append(p, Visit(t, p, aware)[k])]])]

(* dfs_group_keys, with its recursion by name.                             *)
LEMMA DfsUnfolds ==
    ASSUME NEW t, NEW aware
    PROVE  DfsGroupKeys(t, aware) = (CHOOSE keys : DfsWalk(t, aware, keys))[<<>>]
BY Zenon DEF DfsGroupKeys, DfsWalk

(* dfs_group_keys lists the paths where a prompt ends, once, and keeps     *)
(* those with a common beginning together.                                 *)
LEMMA KeysFacts ==
    ASSUME NEW K, NEW t, NEW m, IsTrie(t, m, K), NEW aware
    PROVE  /\ Enumerates(DfsGroupKeys(t, aware), Ends(m))
           /\ \A r \in DOMAIN t : Together(DfsGroupKeys(t, aware), Below(Ends(m), r))
<1>1. PICK D, E : D = DOMAIN t /\ E = Ends(m)
  BY Zenon
<1>2. PICK kids : kids = [p \in D |-> Visit(t, p, aware)]
  BY Zenon
<1>3. PICK own : own = [p \in D |-> IF p \in E THEN <<p>> ELSE <<>>]
  BY Zenon
<1>4. TreeOf(D, K, MaxDepth, kids) /\ <<>> \in D /\ <<>> \in Seq(K)
  <2>1. \A p \in DOMAIN t : Enumerates(kids[p], Kids(t, K, p))
    BY <1>1, <1>2, VisitFacts
  <2> QED
    BY <1>1, <2>1, TrieIsTree
<1>5. E \in SUBSET D /\ OwnParts(own, D, E)
  BY <1>1, <1>3, EndsFacts DEF OwnParts
<1>6. \A f : IsWalk(D, own, kids, f) <=> DfsWalk(t, aware, f)
  <2> SUFFICES ASSUME NEW f PROVE IsWalk(D, own, kids, f) <=> DfsWalk(t, aware, f)
    OBVIOUS
  <2>1. ASSUME NEW p \in D
        PROVE  TurnAt(own, kids, f, p) =
                 (IF t[p].idx = <<>> THEN <<>> ELSE <<p>>)
                   \o FlattenSeq([k \in DOMAIN Visit(t, p, aware) |->
                                    f[Append(p, Visit(t, p, aware)[k])]])
    <3>1. kids[p] = Visit(t, p, aware)
      BY <1>2
    <3>2. own[p] = IF t[p].idx = <<>> THEN <<>> ELSE <<p>>
      <4>1. t[p].idx = <<>> <=> p \notin E
        BY <1>1, EndsFacts
      <4>2. own[p] = IF p \in E THEN <<p>> ELSE <<>>
        BY <1>3
      <4> QED
        BY <4>1, <4>2, Zenon
    <3> QED
      BY <3>1, <3>2, Zenon DEF TurnAt
  <2> QED
    BY <1>1, <2>1 DEF IsWalk, DfsWalk
<1>7. PICK f : f = CHOOSE keys : DfsWalk(t, aware, keys)
  BY Zenon
<1>8. IsWalk(D, own, kids, f)
  <2>1. \E g : IsWalk(D, own, kids, g)
    BY <1>4, WalkDefined
  <2> QED
    BY <1>6, <1>7, <2>1, Zenon
<1>9. WalksWell(f, D, E, <<>>)
  BY <1>4, <1>5, <1>8, WalkFacts
<1>10. Below(E, <<>>) = E
  BY <1>4, <1>5, BeginsFacts DEF Below, TreeOf
<1>11. DfsGroupKeys(t, aware) = f[<<>>]
  BY <1>7, DfsUnfolds, Zenon
<1> QED
  BY <1>1, <1>9, <1>10, <1>11, Zenon DEF WalksWell

(* dfs_order lists the prompts, once, and keeps those with a common        *)
(* beginning together.                                                     *)
LEMMA OrderFacts ==
    ASSUME NEW K, NEW t, NEW m, IsTrie(t, m, K), NEW aware
    PROVE  /\ Enumerates(DfsOrder(t, aware), DOMAIN m)
           /\ \A r \in DOMAIN t : Together(DfsOrder(t, aware), Passing(m, r))
<1>1. PICK keys, E, n : keys = DfsGroupKeys(t, aware) /\ E = Ends(m) /\ n = Len(keys)
  BY Zenon
<1>2. Enumerates(keys, E) /\ \A r \in DOMAIN t : Together(keys, Below(E, r))
  BY <1>1, KeysFacts
<1>3. /\ n \in Nat /\ DOMAIN keys = 1..n /\ \A i \in 1..n : keys[i] \in E
      /\ \A x \in E : \E i \in 1..n : keys[i] = x
      /\ \A i, j \in 1..n : keys[i] = keys[j] => i = j
  BY <1>1, <1>2, EnumFacts
<1>4. PICK lists : lists = [k \in 1..n |-> t[keys[k]].idx]
  BY Zenon
<1>5. DfsOrder(t, aware) = FlattenSeq(lists)
  BY <1>1, <1>3, <1>4, Zenon DEF DfsOrder
<1>6. ASSUME NEW k \in 1..n
      PROVE  Enumerates(lists[k], {i \in DOMAIN m : m[i] = keys[k]}) /\ keys[k] \in DOMAIN t
  <2>1. PICK p : p = keys[k]
    BY Zenon
  <2>2. lists[k] = t[p].idx
    BY <1>4, <2>1
  <2>3. p \in DOMAIN t
    BY <1>1, <1>3, <2>1, EndsFacts
  <2>4. Enumerates(t[p].idx, {i \in DOMAIN m : m[i] = p})
    BY <2>3, Zenon DEF IsTrie, NodeExact
  <2> QED
    BY <2>1, <2>2, <2>3, <2>4, Zenon
<1>7. ASSUME NEW k \in 1..n
      PROVE  /\ ToSet(lists[k]) = {i \in DOMAIN m : m[i] = keys[k]} /\ IsInjective(lists[k])
             /\ lists[k] \in Seq(DOMAIN m)
  <2>1. PICK I : I = {i \in DOMAIN m : m[i] = keys[k]}
    BY Zenon
  <2>2. lists[k] \in Seq(I) /\ ToSet(lists[k]) = I /\ IsInjective(lists[k])
    BY <1>6, <2>1, Zenon DEF Enumerates
  <2>3. I \subseteq DOMAIN m
    BY <2>1
  <2> QED
    BY <2>1, <2>2, <2>3
<1>8. DOMAIN lists = 1..n /\ lists \in [1..n -> Seq(DOMAIN m)]
  BY <1>4, <1>7
<1>9. lists \in Seq(Seq(DOMAIN m)) /\ Len(lists) = n
  BY <1>3, <1>8, SeqIntro
<1>10. Splits(lists, DOMAIN m)
  <2>1. ASSUME NEW k \in 1..n, NEW l \in 1..n, k # l
        PROVE  ToSet(lists[k]) \cap ToSet(lists[l]) = {}
    <3>1. keys[k] # keys[l]
      BY <1>3, <2>1
    <3>2. /\ ToSet(lists[k]) = {i \in DOMAIN m : m[i] = keys[k]}
          /\ ToSet(lists[l]) = {i \in DOMAIN m : m[i] = keys[l]}
      BY <1>7
    <3> QED
      BY <3>1, <3>2
  <2>2. ASSUME NEW i \in DOMAIN m PROVE \E k \in 1..n : i \in ToSet(lists[k])
    <3>1. m[i] \in E
      BY <1>1 DEF Ends
    <3>2. PICK k \in 1..n : keys[k] = m[i]
      BY <1>3, <3>1
    <3> QED
      BY <1>7, <3>2
  <2> QED
    BY <1>7, <1>8, <1>9, <2>1, <2>2 DEF Splits
<1>11. ASSUME NEW r \in DOMAIN t PROVE Together(FlattenSeq(lists), Passing(m, r))
  <2>1. PICK A : A = Passing(m, r)
    BY Zenon
  <2>2. ASSUME NEW k \in 1..n
        PROVE  /\ keys[k] \in Below(E, r) => ToSet(lists[k]) \subseteq A
               /\ keys[k] \notin Below(E, r) => ToSet(lists[k]) \cap A = {}
    BY <1>3, <1>7, <2>1 DEF Passing, Below
  <2>3. ASSUME NEW k \in 1..n PROVE Together(lists[k], A)
    <3>1. \A i \in 1..Len(lists[k]) : lists[k][i] \in ToSet(lists[k])
      <4>1. DOMAIN lists[k] = 1..Len(lists[k])
        BY <1>7
      <4> QED
        BY <4>1 DEF ToSet
    <3> QED
      BY <2>2, <3>1 DEF Together
  <2>4. ASSUME NEW i \in 1..n, NEW j \in 1..n, i # j, ToSet(lists[i]) \cap A # {},
               ToSet(lists[j]) \cap A # {}, NEW k \in 1..n, i <= k, k <= j
        PROVE  ToSet(lists[k]) \subseteq A
    <3>1. keys[i] \in Below(E, r) /\ keys[j] \in Below(E, r)
      BY <2>2, <2>4
    <3>2. Together(keys, Below(E, r))
      BY <1>2
    <3>3. k = i \/ k = j \/ (i < k /\ k < j)
      BY <1>3, <2>4
    <3>4. keys[k] \in Below(E, r)
      BY <1>1, <3>1, <3>2, <3>3 DEF Together
    <3> QED
      BY <2>2, <3>4
  <2>5. KeepTogether(lists, A)
    BY <1>8, <2>3, <2>4 DEF KeepTogether
  <2> QED
    BY <1>10, <2>1, <2>5, FlattenTogether
<1> QED
  BY <1>5, <1>10, <1>11, EnumFlatten
==============================================================================
