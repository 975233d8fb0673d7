-------------------------- MODULE DispatcherProofs ---------------------------
(***************************************************************************)
(* The dispatcher's trie, counts and order are those of the pending        *)
(* requests, the counts the server reads are fresh and cover every request *)
(* on its way to it, and what the queries answer is exact, for every set   *)
(* of requests, every prompt and every bound.                              *)
(***************************************************************************)
EXTENDS Dispatcher, TrieProofs

-----------------------------------------------------------------------------
(* The dispatcher by itself.                                               *)

(* The path of each prompt index.                                          *)
PathsIn(info) ==
    [i \in {info[r] : r \in DOMAIN info} |-> Key(CHOOSE r \in DOMAIN info : info[r] = i)]

(* Each request has a prompt index of its own.                             *)
OwnIndex(info) == DOMAIN info \subseteq Req /\ \A r, o \in DOMAIN info : info[r] = info[o] => r = o

(* A request more: info[r] is a new index.                                 *)
OneMore(info, r, g) ==
    DOMAIN g = DOMAIN info \cup {r} /\ \A o \in DOMAIN info : g[o] = info[o]

(* Keys are short paths over the naturals.                                 *)
LEMMA KeyFacts ==
    \A r \in Req : Prompt[r] \in Seq(Nat) /\ Key(r) = PathOf(Prompt[r]) /\ Key(r) \in Seq(Nat)
                   /\ Len(Key(r)) <= MaxDepth
BY DispatcherAssumption, PathOfFacts DEF Key

(* The paths of the pending requests are those of their prompts.           *)
LEMMA PathsFacts ==
    ASSUME NEW info, OwnIndex(info)
    PROVE  /\ DOMAIN PathsIn(info) = {info[r] : r \in DOMAIN info}
           /\ \A r \in DOMAIN info : PathsIn(info)[info[r]] = Key(r)
           /\ PathsOf(PathsIn(info), Nat) /\ IsFiniteSet(DOMAIN info)
<1>1. PICK m : m = PathsIn(info)
  BY Zenon
<1>2. DOMAIN m = {info[r] : r \in DOMAIN info}
  BY <1>1 DEF PathsIn
<1>3. ASSUME NEW r \in DOMAIN info PROVE m[info[r]] = Key(r)
  <2>1. PICK o : o = CHOOSE x \in DOMAIN info : info[x] = info[r]
    BY Zenon
  <2>2. o \in DOMAIN info /\ info[o] = info[r]
    BY <2>1
  <2>3. o = r
    BY <2>2 DEF OwnIndex
  <2> QED
    BY <1>1, <2>1, <2>3 DEF PathsIn
<1>4. IsFiniteSet(DOMAIN info)
  BY DispatcherAssumption, FS_Subset DEF OwnIndex
<1>5. IsFiniteSet(DOMAIN m)
  <2>1. PICK f : f = [r \in DOMAIN info |-> info[r]]
    BY Zenon
  <2>2. f \in Surjection(DOMAIN info, DOMAIN m)
    BY <1>2, <2>1 DEF Surjection
  <2> QED
    BY <1>4, <2>2, FS_Surjection
<1>6. ASSUME NEW i \in DOMAIN m PROVE m[i] \in Seq(Nat) /\ Len(m[i]) <= MaxDepth
  <2>1. PICK r \in DOMAIN info : i = info[r]
    BY <1>2
  <2>2. r \in Req /\ m[i] = Key(r)
    BY <1>3, <2>1 DEF OwnIndex
  <2> QED
    BY <2>2, KeyFacts
<1>7. PathsOf(m, Nat)
  BY <1>5, <1>6 DEF PathsOf
<1> QED
  BY <1>1, <1>2, <1>3, <1>4, <1>7

(* A request more is a path more.                                          *)
LEMMA PathMore ==
    ASSUME NEW info, NEW g, OwnIndex(g), NEW r \in DOMAIN g, r \notin DOMAIN info, OneMore(info, r, g)
    PROVE  OwnIndex(info) /\ Grown(PathsIn(info), g[r], Key(r), PathsIn(g))
           /\ g[r] \notin DOMAIN PathsIn(info)
<1>1. OwnIndex(info)
  BY DEF OwnIndex, OneMore
<1>2. PICK m, n : m = PathsIn(info) /\ n = PathsIn(g)
  BY Zenon
<1>3. /\ DOMAIN m = {info[o] : o \in DOMAIN info} /\ \A o \in DOMAIN info : m[info[o]] = Key(o)
      /\ DOMAIN n = {g[o] : o \in DOMAIN g} /\ \A o \in DOMAIN g : n[g[o]] = Key(o)
  BY <1>1, <1>2, PathsFacts
<1>4. g[r] \notin DOMAIN m
  BY <1>3 DEF OwnIndex, OneMore
<1>5. Grown(m, g[r], Key(r), n)
  BY <1>3 DEF OneMore, Grown
<1> QED
  BY <1>1, <1>2, <1>4, <1>5

-----------------------------------------------------------------------------
(* The pending requests with this key.                                     *)
Members(info, k) == {r \in DOMAIN info : Key(r) = k}

Shaped(d) ==
    d = [trie |-> d.trie, count |-> d.count, hashes |-> d.hashes, dfs |-> d.dfs,
         dirty |-> d.dirty, info |-> d.info, next |-> d.next]

(* Every index was given out already.                                      *)
IndexExact(d) ==
    OwnIndex(d.info) /\ d.next \in Nat \ {0} /\ \A r \in DOMAIN d.info : d.info[r] \in 1..(d.next - 1)

(* The groups, their counts and their hashes.                              *)
CountExact(d) ==
    /\ DOMAIN d.count = {Key(r) : r \in DOMAIN d.info} /\ d.hashes = DOMAIN d.count
    /\ \A k \in DOMAIN d.count : d.count[k] = Cardinality(Members(d.info, k))

OrderExact(d) == d.dirty \in BOOLEAN /\ (~d.dirty => Enumerates(d.dfs, DOMAIN d.count))

DispExact(d) ==
    Shaped(d) /\ IndexExact(d) /\ IsTrie(d.trie, PathsIn(d.info), Nat) /\ CountExact(d) /\ OrderExact(d)

(* A group is finite, and it has members or none.                          *)
LEMMA MembersFacts ==
    ASSUME NEW info, OwnIndex(info)
    PROVE  \A k : /\ IsFiniteSet(Members(info, k)) /\ Cardinality(Members(info, k)) \in Nat
                  /\ Cardinality(Members(info, k)) = 0 <=> Members(info, k) = {}
<1>1. IsFiniteSet(DOMAIN info)
  BY PathsFacts
<1>2. \A k : Members(info, k) \subseteq DOMAIN info
  BY DEF Members
<1> QED
  BY <1>1, <1>2, FS_Subset, FS_CardinalityType, FS_EmptySet

(* The group of r is one larger, and no other.                             *)
GroupMore(info, r, g) ==
    /\ \A k : Cardinality(Members(g, k)) =
                 Cardinality(Members(info, k)) + (IF k = Key(r) THEN 1 ELSE 0)
    /\ {Key(o) : o \in DOMAIN g} = {Key(o) : o \in DOMAIN info} \cup {Key(r)}
    /\ \A k : Members(g, k) = Members(info, k) \cup (IF k = Key(r) THEN {r} ELSE {})

(* One more request makes its group one larger, and no other.              *)
LEMMA MembersMore ==
    ASSUME NEW info, NEW g, OwnIndex(g), NEW r \in DOMAIN g, r \notin DOMAIN info, OneMore(info, r, g)
    PROVE  GroupMore(info, r, g)
<1>1. \A k : Members(g, k) = Members(info, k) \cup (IF k = Key(r) THEN {r} ELSE {})
  BY DEF Members, OneMore
<1>2. OwnIndex(info)
  BY PathMore
<1>3. ASSUME NEW k
      PROVE  Cardinality(Members(g, k)) =
               Cardinality(Members(info, k)) + (IF k = Key(r) THEN 1 ELSE 0)
  <2>1. PICK A, B : A = Members(info, k) /\ B = Members(g, k)
    BY Zenon
  <2>2. IsFiniteSet(A) /\ Cardinality(A) \in Nat /\ r \notin A
    BY <1>2, <2>1, MembersFacts DEF Members
  <2>3. CASE k = Key(r)
    <3>1. B = A \cup {r}
      BY <1>1, <2>1, <2>3
    <3> QED
      BY <2>1, <2>2, <2>3, <3>1, FS_AddElement
  <2>4. CASE k # Key(r)
    <3>1. B = A
      BY <1>1, <2>1, <2>4
    <3> QED
      BY <2>1, <2>2, <2>4, <3>1
  <2> QED
    BY <2>3, <2>4
<1>4. {Key(o) : o \in DOMAIN g} = {Key(o) : o \in DOMAIN info} \cup {Key(r)}
  <2>1. DOMAIN g = DOMAIN info \cup {r}
    BY DEF OneMore
  <2> QED
    BY <2>1
<1> QED
  BY <1>1, <1>3, <1>4 DEF GroupMore

(* The dispatcher with one more request, before the order is recomputed.   *)
GrownBy(d, e, r) ==
    /\ Shaped(e) /\ e.next = d.next + 1 /\ e.trie = InsertPrompt(d.trie, Prompt[r], d.next)
    /\ DOMAIN e.count = DOMAIN d.count \cup {Key(r)}
    /\ \A k \in DOMAIN d.count \cup {Key(r)} :
          e.count[k] = IF k # Key(r) THEN d.count[k]
                       ELSE IF Key(r) \notin DOMAIN d.count THEN 1 ELSE d.count[Key(r)] + 1
    /\ e.hashes = d.hashes \cup {Key(r)} /\ e.dfs = d.dfs /\ e.dirty = d.dirty
    /\ OneMore(d.info, r, e.info) /\ e.info[r] = d.next

(* submit's index step unfolds to these.                                   *)
LEMMA IndexedUnfolds ==
    ASSUME NEW d, Shaped(d), NEW r, r \notin DOMAIN d.info
    PROVE  \E e : GrownBy(d, e, r) /\ Indexed(d, r) = Recomputed(e, Key(r) \notin DOMAIN d.count)
<1>1. PICK k, new : k = Key(r) /\ new = (k \notin DOMAIN d.count)
  BY Zenon
<1>2. PICK e : e = [d EXCEPT
                    !.next = @ + 1, !.trie = InsertPrompt(@, Prompt[r], d.next),
                    !.count = [x \in DOMAIN d.count \cup {k} |->
                                 IF x # k THEN d.count[x] ELSE IF new THEN 1 ELSE d.count[k] + 1],
                    !.hashes = @ \cup {k},
                    !.info = [x \in DOMAIN d.info \cup {r} |->
                                IF x = r THEN d.next ELSE d.info[x]]]
  BY Zenon
<1>3. Indexed(d, r) = Recomputed(e, new)
  BY <1>1, <1>2 DEF Indexed
<1>4. /\ Shaped(e) /\ e.next = d.next + 1 /\ e.trie = InsertPrompt(d.trie, Prompt[r], d.next)
      /\ e.count = [x \in DOMAIN d.count \cup {k} |->
                      IF x # k THEN d.count[x] ELSE IF new THEN 1 ELSE d.count[k] + 1]
      /\ e.hashes = d.hashes \cup {k} /\ e.dfs = d.dfs /\ e.dirty = d.dirty
      /\ e.info = [x \in DOMAIN d.info \cup {r} |-> IF x = r THEN d.next ELSE d.info[x]]
  BY <1>2 DEF Shaped
<1>5. OneMore(d.info, r, e.info) /\ e.info[r] = d.next
  BY <1>4 DEF OneMore
<1>6. GrownBy(d, e, r)
  BY <1>1, <1>4, <1>5 DEF GrownBy
<1> QED
  BY <1>1, <1>3, <1>6

(* The groups an exact trie lists are those with a count.                  *)
LEMMA KeysAreGroups ==
    ASSUME NEW d, OwnIndex(d.info), IsTrie(d.trie, PathsIn(d.info), Nat), CountExact(d)
    PROVE  Enumerates(DfsGroupKeys(d.trie, TRUE), DOMAIN d.count)
<1>1. Enumerates(DfsGroupKeys(d.trie, TRUE), Ends(PathsIn(d.info)))
  BY KeysFacts
<1>2. Ends(PathsIn(d.info)) = {Key(r) : r \in DOMAIN d.info}
  <2>1. PICK m : m = PathsIn(d.info)
    BY Zenon
  <2>2. DOMAIN m = {d.info[r] : r \in DOMAIN d.info} /\ \A r \in DOMAIN d.info : m[d.info[r]] = Key(r)
    BY <2>1, PathsFacts
  <2>3. Ends(m) = {Key(r) : r \in DOMAIN d.info}
    BY <2>2 DEF Ends
  <2> QED
    BY <2>1, <2>3
<1> QED
  BY <1>1, <1>2 DEF CountExact

(* Steps 1 to 4 of submit keep the dispatcher exact, and its order fresh.  *)
LEMMA IndexedExact ==
    ASSUME NEW d, DispExact(d), NEW r \in Req, r \notin DOMAIN d.info, NEW u, u = Indexed(d, r)
    PROVE  /\ DispExact(u) /\ DOMAIN u.info = DOMAIN d.info \cup {r} /\ u.next = d.next + 1
           /\ ~u.dirty
<1>1. PICK e : GrownBy(d, e, r) /\ u = Recomputed(e, Key(r) \notin DOMAIN d.count)
  BY IndexedUnfolds DEF DispExact
<1>2. /\ OwnIndex(d.info) /\ d.next \in Nat \ {0}
      /\ \A o \in DOMAIN d.info : d.info[o] \in 1..(d.next - 1)
  BY DEF DispExact, IndexExact
<1>3. /\ OneMore(d.info, r, e.info) /\ e.info[r] = d.next /\ e.next = d.next + 1
      /\ r \in DOMAIN e.info
  BY <1>1 DEF GrownBy, OneMore
<1>4. OwnIndex(e.info)
  <2>1. \A o \in DOMAIN d.info : e.info[o] = d.info[o] /\ e.info[o] # e.info[r]
    BY <1>2, <1>3 DEF OneMore
  <2> QED
    BY <1>2, <1>3, <2>1 DEF OwnIndex, OneMore
<1>5. IndexExact(e)
  <2>1. e.next \in Nat \ {0} /\ e.next - 1 = d.next
    BY <1>2, <1>3
  <2>2. ASSUME NEW o \in DOMAIN e.info PROVE e.info[o] \in 1..d.next
    <3>1. CASE o = r
      BY <1>2, <1>3, <3>1
    <3>2. CASE o \in DOMAIN d.info
      <4>1. e.info[o] = d.info[o] /\ d.info[o] \in 1..(d.next - 1)
        BY <1>2, <1>3, <3>2 DEF OneMore
      <4> QED
        BY <1>2, <4>1
    <3> QED
      BY <1>3, <3>1, <3>2 DEF OneMore
  <2> QED
    BY <1>4, <2>1, <2>2 DEF IndexExact
<1>6. /\ Grown(PathsIn(d.info), e.info[r], Key(r), PathsIn(e.info))
      /\ e.info[r] \notin DOMAIN PathsIn(d.info)
  BY <1>3, <1>4, PathMore
<1>7. IsTrie(e.trie, PathsIn(e.info), Nat)
  <2>1. Prompt[r] \in Seq(Nat) /\ Key(r) = PathOf(Prompt[r])
    BY KeyFacts
  <2>2. IsTrie(d.trie, PathsIn(d.info), Nat)
    BY DEF DispExact
  <2>3. IsTrie(InsertPrompt(d.trie, Prompt[r], e.info[r]), PathsIn(e.info), Nat)
    BY <1>6, <2>1, <2>2, InsertIsTrie
  <2> QED
    BY <1>1, <1>3, <2>3 DEF GrownBy
<1>8. CountExact(e)
  <2>1. CountExact(d)
    BY DEF DispExact
  <2>2. /\ \A k : Cardinality(Members(e.info, k)) =
                    Cardinality(Members(d.info, k)) + (IF k = Key(r) THEN 1 ELSE 0)
        /\ {Key(o) : o \in DOMAIN e.info} = {Key(o) : o \in DOMAIN d.info} \cup {Key(r)}
    <3>1. GroupMore(d.info, r, e.info)
      BY <1>3, <1>4, MembersMore
    <3> QED
      BY <3>1 DEF GroupMore
  <2>3. DOMAIN e.count = {Key(o) : o \in DOMAIN e.info} /\ e.hashes = DOMAIN e.count
    BY <1>1, <2>1, <2>2 DEF GrownBy, CountExact
  <2>4. ASSUME NEW k \in DOMAIN e.count PROVE e.count[k] = Cardinality(Members(e.info, k))
    <3>1. PICK c : c = Cardinality(Members(d.info, k))
      BY Zenon
    <3>2. c \in Nat /\ (c = 0 <=> Members(d.info, k) = {})
      BY <1>2, <3>1, MembersFacts
    <3>3. k \in DOMAIN d.count => d.count[k] = c
      BY <2>1, <3>1 DEF CountExact
    <3>4. k \notin DOMAIN d.count => c = 0
      <4>1. k \notin DOMAIN d.count => Members(d.info, k) = {}
        BY <2>1 DEF CountExact, Members
      <4> QED
        BY <3>2, <4>1
    <3>5. Cardinality(Members(e.info, k)) = c + (IF k = Key(r) THEN 1 ELSE 0)
      BY <2>2, <3>1
    <3>6. /\ k \in DOMAIN d.count \cup {Key(r)}
          /\ e.count[k] = IF k # Key(r) THEN d.count[k]
                          ELSE IF Key(r) \notin DOMAIN d.count THEN 1 ELSE d.count[Key(r)] + 1
      BY <1>1 DEF GrownBy
    <3>7. CASE k # Key(r)
      BY <3>2, <3>3, <3>5, <3>6, <3>7
    <3>8. CASE k = Key(r)
      BY <3>2, <3>3, <3>4, <3>5, <3>6, <3>8
    <3> QED
      BY <3>7, <3>8
  <2> QED
    BY <2>3, <2>4 DEF CountExact
<1>9. Shaped(e) /\ e.dirty = d.dirty /\ e.dfs = d.dfs /\ e.dirty \in BOOLEAN
  BY <1>1 DEF GrownBy, DispExact, OrderExact
<1>10. CASE Key(r) \notin DOMAIN d.count \/ e.dirty
  <2>1. u = [e EXCEPT !.dfs = DfsGroupKeys(e.trie, TRUE), !.dirty = FALSE]
    BY <1>1, <1>10 DEF Recomputed
  <2>2. /\ Shaped(u) /\ u.dfs = DfsGroupKeys(e.trie, TRUE) /\ u.dirty = FALSE
        /\ u.trie = e.trie /\ u.info = e.info /\ u.next = e.next /\ u.count = e.count
        /\ u.hashes = e.hashes
    BY <1>9, <2>1 DEF Shaped
  <2>3. Enumerates(u.dfs, DOMAIN u.count)
    BY <1>4, <1>7, <1>8, <2>2, KeysAreGroups
  <2>4. IndexExact(u) /\ CountExact(u) /\ OrderExact(u)
    BY <1>5, <1>8, <2>2, <2>3 DEF IndexExact, CountExact, OrderExact
  <2> QED
    BY <1>3, <1>7, <2>2, <2>4 DEF DispExact, OneMore
<1>11. CASE Key(r) \in DOMAIN d.count /\ ~e.dirty
  <2>1. u = e
    BY <1>1, <1>11 DEF Recomputed
  <2>2. Enumerates(e.dfs, DOMAIN e.count)
    <3>1. DOMAIN e.count = DOMAIN d.count
      BY <1>1, <1>11 DEF GrownBy
    <3> QED
      BY <1>9, <1>11, <3>1 DEF DispExact, OrderExact
  <2>3. OrderExact(e)
    BY <1>9, <2>2 DEF OrderExact
  <2> QED
    BY <1>3, <1>5, <1>7, <1>8, <1>9, <1>11, <2>1, <2>3 DEF DispExact, OneMore
<1> QED
  BY <1>9, <1>10, <1>11

(* The dispatcher with one request less.                                   *)
ShrunkBy(d, e, r) ==
    /\ Shaped(e) /\ e.next = d.next /\ e.trie = RemovePrompt(d.trie, Prompt[r], d.info[r])
    /\ DOMAIN e.count = DOMAIN d.count \ (IF d.count[Key(r)] - 1 > 0 THEN {} ELSE {Key(r)})
    /\ \A k \in DOMAIN e.count :
          e.count[k] = IF k = Key(r) THEN d.count[Key(r)] - 1 ELSE d.count[k]
    /\ e.hashes = d.hashes \ (IF d.count[Key(r)] - 1 > 0 THEN {} ELSE {Key(r)})
    /\ e.dfs = d.dfs /\ e.dirty = (d.dirty \/ d.count[Key(r)] - 1 <= 0)
    /\ r \notin DOMAIN e.info /\ OneMore(e.info, r, d.info)

(* The removal of a request unfolds to these.                              *)
LEMMA ForgetUnfolds ==
    ASSUME NEW d, Shaped(d), NEW r \in DOMAIN d.info, d.count[Key(r)] \in Nat,
           Key(r) \in DOMAIN d.count
    PROVE  ShrunkBy(d, Forget(d, r), r)
<1>1. PICK k, left : k = Key(r) /\ left = d.count[k] - 1
  BY Zenon
<1>2. PICK e : e = Forget(d, r)
  BY Zenon
<1>3. e = [d EXCEPT !.trie = RemovePrompt(@, Prompt[r], d.info[r]),
                    !.info = Restrict(@, DOMAIN @ \ {r}),
                    !.count = IF left > 0 THEN [@ EXCEPT ![k] = left]
                              ELSE Restrict(@, DOMAIN @ \ {k}),
                    !.hashes = IF left > 0 THEN @ ELSE @ \ {k},
                    !.dirty = @ \/ left <= 0]
  BY <1>1, <1>2 DEF Forget
<1>4. PICK trie, info, count, hashes, dirty :
         /\ trie = RemovePrompt(d.trie, Prompt[r], d.info[r])
         /\ info = Restrict(d.info, DOMAIN d.info \ {r})
         /\ count = IF left > 0 THEN [d.count EXCEPT ![k] = left]
                    ELSE Restrict(d.count, DOMAIN d.count \ {k})
         /\ hashes = IF left > 0 THEN d.hashes ELSE d.hashes \ {k}
         /\ dirty = (d.dirty \/ left <= 0)
  BY Zenon
<1>5. e = [d EXCEPT !.trie = trie, !.info = info, !.count = count, !.hashes = hashes, !.dirty = dirty]
  BY <1>3, <1>4
<1>6. /\ Shaped(e) /\ e.next = d.next /\ e.trie = trie /\ e.info = info /\ e.count = count
      /\ e.hashes = hashes /\ e.dirty = dirty /\ e.dfs = d.dfs
  BY <1>5 DEF Shaped
<1>7. r \notin DOMAIN info /\ OneMore(info, r, d.info)
  BY <1>4 DEF Restrict, OneMore
<1>8. left \in Int
  BY <1>1
<1>9. /\ DOMAIN count = DOMAIN d.count \ (IF left > 0 THEN {} ELSE {k})
      /\ \A x \in DOMAIN count : count[x] = IF x = k THEN left ELSE d.count[x]
      /\ hashes = d.hashes \ (IF left > 0 THEN {} ELSE {k})
  BY <1>1, <1>4, <1>8 DEF Restrict
<1> QED
  BY <1>1, <1>2, <1>4, <1>6, <1>7, <1>9 DEF ShrunkBy

(* A removal keeps the dispatcher exact, and takes out that request only.  *)
LEMMA ForgetExact ==
    ASSUME NEW d, DispExact(d), NEW r \in DOMAIN d.info, NEW e, e = Forget(d, r)
    PROVE  DispExact(e) /\ DOMAIN e.info = DOMAIN d.info \ {r} /\ e.next = d.next
<1>1. /\ OwnIndex(d.info) /\ d.next \in Nat \ {0} /\ r \in Req
      /\ \A o \in DOMAIN d.info : d.info[o] \in 1..(d.next - 1)
  BY DEF DispExact, IndexExact, OwnIndex
<1>2. PICK k, c : k = Key(r) /\ c = d.count[k]
  BY Zenon
<1>3. /\ CountExact(d) /\ k \in DOMAIN d.count /\ c = Cardinality(Members(d.info, k))
      /\ c \in Nat \ {0}
  <2>1. CountExact(d) /\ k \in DOMAIN d.count /\ c = Cardinality(Members(d.info, k))
    BY <1>2 DEF DispExact, CountExact
  <2>2. Members(d.info, k) # {}
    BY <1>2 DEF Members
  <2> QED
    BY <1>1, <2>1, <2>2, MembersFacts
<1>4. ShrunkBy(d, e, r)
  <2>1. Shaped(d)
    BY DEF DispExact
  <2> QED
    BY <1>2, <1>3, <2>1, ForgetUnfolds
<1>5. r \notin DOMAIN e.info /\ OneMore(e.info, r, d.info)
  BY <1>4 DEF ShrunkBy
<1>6. /\ OwnIndex(e.info) /\ Grown(PathsIn(e.info), d.info[r], Key(r), PathsIn(d.info))
      /\ d.info[r] \notin DOMAIN PathsIn(e.info)
  BY <1>1, <1>5, PathMore
<1>7. DOMAIN e.info = DOMAIN d.info \ {r} /\ \A o \in DOMAIN e.info : e.info[o] = d.info[o]
  BY <1>5 DEF OneMore
<1>8. IndexExact(e)
  BY <1>1, <1>4, <1>6, <1>7 DEF ShrunkBy, IndexExact
<1>9. IsTrie(e.trie, PathsIn(e.info), Nat)
  <2>1. Prompt[r] \in Seq(Nat) /\ Key(r) = PathOf(Prompt[r])
    BY <1>1, KeyFacts
  <2>2. IsTrie(d.trie, PathsIn(d.info), Nat) /\ PathsOf(PathsIn(e.info), Nat)
    BY <1>6, PathsFacts DEF DispExact
  <2>3. IsTrie(RemovePrompt(d.trie, Prompt[r], d.info[r]), PathsIn(e.info), Nat)
    BY <1>6, <2>1, <2>2, RemoveIsTrie
  <2> QED
    BY <1>4, <2>3 DEF ShrunkBy
<1>10. GroupMore(e.info, r, d.info)
  BY <1>1, <1>5, MembersMore
<1>11. ASSUME NEW x
       PROVE  /\ Cardinality(Members(e.info, x)) \in Nat
              /\ Cardinality(Members(e.info, x)) = 0 <=> Members(e.info, x) = {}
              /\ Cardinality(Members(d.info, x)) =
                   Cardinality(Members(e.info, x)) + (IF x = k THEN 1 ELSE 0)
  BY <1>2, <1>6, <1>10, MembersFacts DEF GroupMore
<1>12. /\ DOMAIN e.count = DOMAIN d.count \ (IF c - 1 > 0 THEN {} ELSE {k})
       /\ \A x \in DOMAIN e.count : e.count[x] = IF x = k THEN c - 1 ELSE d.count[x]
       /\ e.hashes = d.hashes \ (IF c - 1 > 0 THEN {} ELSE {k})
       /\ e.dirty = (d.dirty \/ c - 1 <= 0) /\ e.dfs = d.dfs /\ Shaped(e) /\ e.next = d.next
  BY <1>2, <1>4 DEF ShrunkBy
<1>13. DOMAIN d.count = {Key(o) : o \in DOMAIN d.info} /\ d.hashes = DOMAIN d.count
  BY <1>3 DEF CountExact
<1>14. c - 1 > 0 <=> Members(e.info, k) # {}
  BY <1>3, <1>11
<1>15. DOMAIN e.count = {Key(o) : o \in DOMAIN e.info}
  <2>1. Members(e.info, k) # {} <=> \E o \in DOMAIN e.info : Key(o) = k
    BY DEF Members
  <2>2. {Key(o) : o \in DOMAIN d.info} = {Key(o) : o \in DOMAIN e.info} \cup {k}
    BY <1>2, <1>10 DEF GroupMore
  <2> QED
    BY <1>12, <1>13, <1>14, <2>1, <2>2
<1>16. CountExact(e)
  <2>1. ASSUME NEW x \in DOMAIN e.count PROVE e.count[x] = Cardinality(Members(e.info, x))
    <3>1. x \in DOMAIN d.count /\ d.count[x] = Cardinality(Members(d.info, x))
      BY <1>3, <1>12 DEF CountExact
    <3>2. CASE x = k
      BY <1>3, <1>11, <1>12, <3>2
    <3>3. CASE x # k
      BY <1>11, <1>12, <3>1, <3>3
    <3> QED
      BY <3>2, <3>3
  <2>2. e.hashes = DOMAIN e.count
    BY <1>12, <1>13
  <2> QED
    BY <1>15, <2>1, <2>2 DEF CountExact
<1>17. OrderExact(e)
  <2>1. OrderExact(d)
    BY DEF DispExact
  <2>2. ~e.dirty => DOMAIN e.count = DOMAIN d.count /\ ~d.dirty
    <3>1. ~e.dirty => ~d.dirty /\ ~(c - 1 <= 0)
      BY <1>12, Zenon
    <3>2. ~(c - 1 <= 0) => c - 1 > 0
      BY <1>3
    <3>3. c - 1 > 0 => DOMAIN e.count = DOMAIN d.count
      BY <1>12
    <3> QED
      BY <3>1, <3>2, <3>3, Zenon
  <2>3. e.dirty \in BOOLEAN
    BY <1>12
  <2> QED
    BY <1>12, <2>1, <2>2, <2>3 DEF OrderExact
<1> QED
  BY <1>7, <1>8, <1>9, <1>12, <1>16, <1>17 DEF DispExact

-----------------------------------------------------------------------------
(* One request after the other.                                            *)
Afters(d, rs, after) ==
    after = [n \in 0..Len(rs) |-> IF n = 0 THEN d ELSE Forget(after[n - 1], rs[n])]

(* The dispatcher after a round, with its recursion by name.               *)
LEMMA ForgetAllUnfolds ==
    ASSUME NEW d, NEW rs
    PROVE  ForgetAll(d, rs) = (CHOOSE after : Afters(d, rs, after))[Len(rs)]
BY Zenon DEF ForgetAll, Afters

(* The removals of a round, one after the other, are well defined.         *)
LEMMA AftersDefined ==
    ASSUME NEW d, NEW rs, Len(rs) \in Nat
    PROVE  \E after : Afters(d, rs, after)
<1>1. PICK n : n = Len(rs)
  BY Zenon
<1>2. PICK G : G = {i \in 0..n : \E f : f = [j \in 0..i |-> IF j = 0 THEN d ELSE Forget(f[j - 1], rs[j])]}
  BY Zenon
<1>3. 0 \in G
  <2>1. PICK f : f = [j \in 0..0 |-> d]
    BY Zenon
  <2>2. f = [j \in 0..0 |-> IF j = 0 THEN d ELSE Forget(f[j - 1], rs[j])]
    BY <2>1
  <2> QED
    BY <1>1, <1>2, <2>2
<1>4. ASSUME NEW i \in 1..n, i - 1 \in G PROVE i \in G
  <2>1. PICK f : f = [j \in 0..(i - 1) |-> IF j = 0 THEN d ELSE Forget(f[j - 1], rs[j])]
    BY <1>2, <1>4
  <2>2. PICK g : g = [j \in 0..i |-> IF j < i THEN f[j] ELSE Forget(f[i - 1], rs[i])]
    BY Zenon
  <2>3. ASSUME NEW j \in 0..i PROVE g[j] = IF j = 0 THEN d ELSE Forget(g[j - 1], rs[j])
    <3>1. g[0] = f[0] /\ \A k \in 0..(i - 1) : g[k] = f[k]
      BY <2>2
    <3>2. CASE j = 0
      <4>1. f[0] = d
        BY <2>1
      <4> QED
        BY <3>1, <3>2, <4>1
    <3>3. CASE j # 0 /\ j < i
      <4>1. j \in 0..(i - 1) /\ j - 1 \in 0..(i - 1)
        BY <3>3
      <4>2. f[j] = IF j = 0 THEN d ELSE Forget(f[j - 1], rs[j])
        BY <2>1, <4>1
      <4>3. g[j] = f[j] /\ g[j - 1] = f[j - 1]
        BY <3>1, <4>1
      <4> QED
        BY <3>3, <4>2, <4>3
    <3>4. CASE j = i
      <4>1. g[i] = Forget(f[i - 1], rs[i]) /\ g[i - 1] = f[i - 1]
        BY <2>2, <3>1
      <4> QED
        BY <3>4, <4>1
    <3> QED
      BY <3>2, <3>3, <3>4
  <2>4. g = [j \in 0..i |-> IF j = 0 THEN d ELSE Forget(g[j - 1], rs[j])]
    BY <2>2, <2>3
  <2>5. i \in 0..n
    BY <1>1
  <2> QED
    BY <1>2, <2>4, <2>5
<1>5. \A i \in 0..n : i \in G
  BY <1>1, <1>3, <1>4, UpFromZero
<1>6. n \in 0..n
  BY <1>1
<1> QED
  BY <1>1, <1>2, <1>5, <1>6 DEF Afters

(* After a round the dispatcher is exact and without those it took out,    *)
(* and without no other; one that took out none is as it was.              *)
LEMMA ForgetAllExact ==
    ASSUME NEW d, DispExact(d), NEW rs \in Seq(Req), NEW e, e = ForgetAll(d, rs)
    PROVE  /\ DispExact(e) /\ DOMAIN e.info \subseteq DOMAIN d.info /\ e.next = d.next
           /\ Range(rs) \cap DOMAIN d.info = {} => e = d
           /\ DOMAIN d.info \ Range(rs) \subseteq DOMAIN e.info
<1>1. PICK n : n = Len(rs)
  BY Zenon
<1>2. n \in Nat /\ \A i \in 1..n : rs[i] \in Req /\ rs[i] \in Range(rs)
  BY <1>1 DEF Range
<1>3. PICK a : Afters(d, rs, a) /\ e = a[n]
  <2>1. \E after : Afters(d, rs, after)
    BY <1>1, <1>2, AftersDefined
  <2>2. PICK a : a = CHOOSE after : Afters(d, rs, after)
    BY Zenon
  <2>3. Afters(d, rs, a)
    BY <2>1, <2>2
  <2>4. e = a[n]
    BY <1>1, <2>2, ForgetAllUnfolds
  <2> QED
    BY <2>3, <2>4
<1>4. a[0] = d /\ \A i \in 1..n : a[i] = Forget(a[i - 1], rs[i])
  <2>1. a = [i \in 0..n |-> IF i = 0 THEN d ELSE Forget(a[i - 1], rs[i])]
    BY <1>1, <1>3, Zenon DEF Afters
  <2>2. 0 \in 0..n /\ \A i \in 1..n : i \in 0..n /\ i # 0
    BY <1>2
  <2>3. \A i \in 0..n : a[i] = IF i = 0 THEN d ELSE Forget(a[i - 1], rs[i])
    BY <2>1
  <2> QED
    BY <2>2, <2>3
<1>5. PICK G : G = {i \in 0..n : /\ DispExact(a[i]) /\ DOMAIN a[i].info \subseteq DOMAIN d.info
                                 /\ a[i].next = d.next
                                 /\ Range(rs) \cap DOMAIN d.info = {} => a[i] = d
                                 /\ DOMAIN d.info \ Range(rs) \subseteq DOMAIN a[i].info}
  BY Zenon
<1>6. 0 \in G
  BY <1>2, <1>4, <1>5
<1>7. ASSUME NEW i \in 1..n, i - 1 \in G PROVE i \in G
  <2>1. PICK u, v, r : u = a[i - 1] /\ v = a[i] /\ r = rs[i]
    BY Zenon
  <2>2. /\ DispExact(u) /\ DOMAIN u.info \subseteq DOMAIN d.info /\ u.next = d.next
        /\ Range(rs) \cap DOMAIN d.info = {} => u = d
        /\ DOMAIN d.info \ Range(rs) \subseteq DOMAIN u.info
    BY <1>5, <1>7, <2>1
  <2>3. v = Forget(u, r) /\ r \in Range(rs)
    BY <1>2, <1>4, <2>1
  <2>4. CASE r \in DOMAIN u.info
    <3>1. DispExact(v) /\ DOMAIN v.info = DOMAIN u.info \ {r} /\ v.next = u.next
      BY <2>2, <2>3, <2>4, ForgetExact
    <3>2. Range(rs) \cap DOMAIN d.info # {}
      BY <2>2, <2>3, <2>4
    <3>3. i \in 0..n
      BY <1>2
    <3>4. DOMAIN d.info \ Range(rs) \subseteq DOMAIN v.info
      BY <2>2, <2>3, <3>1
    <3>5. DOMAIN v.info \subseteq DOMAIN d.info
      BY <2>2, <3>1
    <3> QED
      BY <1>5, <2>1, <2>2, <3>1, <3>2, <3>3, <3>4, <3>5
  <2>5. CASE r \notin DOMAIN u.info
    <3>1. v = u
      BY <2>3, <2>5 DEF Forget
    <3>2. i \in 0..n
      BY <1>2
    <3> QED
      BY <1>5, <2>1, <2>2, <3>1, <3>2
  <2> QED
    BY <2>4, <2>5
<1>8. n \in G
  <2>1. \A i \in 0..n : i \in G
    BY <1>2, <1>6, <1>7, UpFromZero
  <2> QED
    BY <1>2, <2>1
<1> QED
  BY <1>3, <1>5, <1>8

-----------------------------------------------------------------------------
(* The order of a round.                                                   *)

(* Lists that split S do so in any order.                                  *)
LEMMA SplitsReordered ==
    ASSUME NEW S, NEW s, Splits(s, S), NEW t \in Reorderings(s)
    PROVE  Splits(t, S)
<1>1. PICK n : n = Len(s)
  BY Zenon
<1>2. n \in Nat /\ DOMAIN s = 1..n /\ \A i \in 1..n : s[i] \in Seq(S)
  BY <1>1 DEF Splits
<1>3. PICK p \in [1..n -> 1..n] : IsInjective(p) /\ t = [i \in 1..n |-> s[p[i]]]
  BY <1>2 DEF Reorderings
<1>4. p \in Surjection(1..n, 1..n)
  <2>1. IsFiniteSet(1..n) /\ p \in Injection(1..n, 1..n)
    BY <1>2, <1>3, UpTo DEF Injection
  <2> QED
    BY <2>1, FS_Injection
<1>5. \A i \in 1..n : \E k \in 1..n : p[k] = i
  BY <1>4 DEF Surjection
<1>6. DOMAIN t = 1..n /\ \A i \in 1..n : p[i] \in 1..n /\ t[i] = s[p[i]]
  BY <1>3
<1>7. t \in Seq(Seq(S))
  <2>1. t \in [1..n -> Seq(S)]
    BY <1>2, <1>3
  <2> QED
    BY <1>2, <2>1, SeqIntro
<1>8. ASSUME NEW i \in 1..n, NEW j \in 1..n, i # j PROVE ToSet(t[i]) \cap ToSet(t[j]) = {}
  <2>1. p[i] # p[j]
    BY <1>3, <1>8 DEF IsInjective
  <2> QED
    BY <1>2, <1>6, <2>1 DEF Splits
<1>9. ASSUME NEW x \in S PROVE \E i \in 1..n : x \in ToSet(t[i])
  <2>1. PICK j \in 1..n : x \in ToSet(s[j])
    BY <1>2 DEF Splits
  <2>2. PICK k \in 1..n : p[k] = j
    BY <1>5
  <2> QED
    BY <1>6, <2>1, <2>2
<1>10. \A i \in 1..n : IsInjective(t[i])
  BY <1>2, <1>6 DEF Splits
<1> QED
  BY <1>6, <1>7, <1>8, <1>9, <1>10 DEF Splits

(* The groups of the waiting queue split it, whatever their order.         *)
LEMMA QueueOrder ==
    ASSUME NEW S, NEW s, Enumerates(s, S), NEW groups \in Reorderings(GroupBy(s, Key))
    PROVE  Enumerates(FlattenSeq(groups), S)
<1>1. Len(s) \in Nat /\ DOMAIN s = 1..Len(s)
  BY EnumFacts
<1>2. PICK key : key = [i \in DOMAIN s |-> Key(s[i])]
  BY Zenon
<1>3. PICK F : F = {i \in DOMAIN s : \A j \in 1..(i - 1) : key[j] # key[i]}
  BY Zenon
<1>4. PICK first : first = Ascending(F)
  BY Zenon
<1>5. PICK lists : lists = [g \in DOMAIN first |->
                       Subsequence(s, {i \in DOMAIN s : key[i] = key[first[g]]})]
  BY Zenon
<1>6. Splits(lists, S)
  <2>1. AreGroups(lists, F, s, key)
    BY <1>3, <1>4, <1>5 DEF AreGroups
  <2> QED
    BY <2>1, GroupsSplit
<1>7. GroupBy(s, Key) = lists
  <2>1. F = {i \in DOMAIN s : \A j \in 1..(i - 1) : Key(s[j]) # Key(s[i])}
    <3>1. \A i \in DOMAIN s : \A j \in 1..(i - 1) : j \in DOMAIN s
      BY <1>1
    <3> QED
      BY <1>2, <1>3, <3>1
  <2>2. \A g \in DOMAIN first : first[g] \in DOMAIN s
    <3>1. F \in SUBSET (1..Len(s)) /\ F \in SUBSET Int
      BY <1>1, <1>3
    <3>2. IsFiniteSet(F)
      BY <1>1, <3>1, UpTo, FS_Subset
    <3>3. Enumerates(first, F)
      BY <1>4, <3>1, <3>2, AscendingFacts
    <3>4. \A g \in DOMAIN first : first[g] \in F
      BY <3>3, EnumFacts
    <3> QED
      BY <1>1, <3>1, <3>4
  <2>3. \A g \in DOMAIN first : {i \in DOMAIN s : Key(s[i]) = Key(s[first[g]])}
                                 = {i \in DOMAIN s : key[i] = key[first[g]]}
    BY <1>2, <2>2
  <2>4. GroupBy(s, Key) =
          [g \in DOMAIN first |-> Subsequence(s, {i \in DOMAIN s : Key(s[i]) = Key(s[first[g]])})]
    BY <1>4, <2>1 DEF GroupBy
  <2> QED
    BY <1>5, <2>3, <2>4
<1> QED
  BY <1>6, <1>7, SplitsReordered, EnumFlatten

(* What is left of a sequence without repetition has none, and nothing of  *)
(* what was taken from its front.                                          *)
LEMMA EnumRest ==
    ASSUME NEW S, NEW s, Enumerates(s, S), NEW n \in 0..Len(s)
    PROVE  Enumerates(SubSeq(s, n + 1, Len(s)), S \ ToSet(SubSeq(s, 1, n)))
<1>1. PICK l : l = Len(s)
  BY Zenon
<1>2. /\ s \in Seq(S) /\ l \in Nat /\ \A i \in 1..l : s[i] \in S
      /\ \A x \in S : \E i \in 1..l : s[i] = x
      /\ \A i, j \in 1..l : s[i] = s[j] => i = j
  BY <1>1, EnumFacts
<1>3. PICK t, T : t = SubSeq(s, n + 1, l) /\ T = {s[i] : i \in 1..n}
  BY Zenon
<1>4. ToSet(SubSeq(s, 1, n)) = T
  <2>1. Enumerates(SubSeq(s, 1, n), T)
    BY <1>3, EnumPrefix
  <2> QED
    BY <2>1 DEF Enumerates
<1>5. Len(t) = l - n /\ DOMAIN t = 1..(l - n) /\ \A i \in 1..(l - n) : t[i] = s[n + i]
  BY <1>1, <1>2, <1>3
<1>6. ASSUME NEW i \in 1..(l - n) PROVE t[i] \in S \ T /\ n + i \in 1..l
  <2>1. n + i \in 1..l /\ \A j \in 1..n : j # n + i /\ j \in 1..l
    BY <1>1, <1>2
  <2> QED
    BY <1>2, <1>3, <1>5, <2>1
<1>7. ASSUME NEW x \in S \ T PROVE \E i \in 1..(l - n) : t[i] = x
  <2>1. PICK j \in 1..l : s[j] = x
    BY <1>2
  <2>2. j - n \in 1..(l - n)
    BY <1>1, <1>2, <1>3, <2>1
  <2>3. n + (j - n) = j
    BY <1>1, <1>2
  <2> QED
    BY <1>5, <2>1, <2>2, <2>3
<1>8. ASSUME NEW i \in 1..(l - n), NEW j \in 1..(l - n), t[i] = t[j] PROVE i = j
  <2>1. n + i = n + j
    <3>1. s[n + i] = s[n + j]
      BY <1>5, <1>8
    <3>2. PICK a, b : a = n + i /\ b = n + j
      BY Zenon
    <3>3. a \in 1..l /\ b \in 1..l
      BY <1>6, <3>2
    <3> QED
      BY <1>2, <3>1, <3>2, <3>3
  <2> QED
    BY <1>1, <1>2, <2>1
<1>9. Enumerates(t, S \ T)
  <2>1. t \in [1..(l - n) -> S \ T] /\ l - n \in Nat
    <3>1. t = [i \in 1..(l - n) |-> t[i]]
      BY <1>1, <1>2, <1>3, SMTT(30)
    <3> QED
      BY <1>1, <1>2, <1>6, <3>1
  <2> QED
    BY <1>7, <1>8, <2>1, EnumIntro
<1> QED
  BY <1>1, <1>3, <1>4, <1>9

-----------------------------------------------------------------------------
(* The client, the dispatcher and the server together.                     *)

States == {"new", "sent", "waiting", "running", "done", "failed"}

(* The requests that were indexed.                                         *)
Indexeds(st_, pc_, cur_) ==
    {r \in Req : st_[r] # "new"} \cup (IF pc_ = "send" THEN {cur_} ELSE {})

(* The inductive invariant.  The request that is being sent was indexed    *)
(* but is not pending at the server; an index was given to each indexed    *)
(* request, in turn; the queue holds waiting requests, each once.          *)
IInv ==
    /\ st \in [Req -> States] /\ pc \in {"idle", "send", "push"} /\ cur \in Req \cup {NoReq}
    /\ pc = "send" => cur \in Req /\ st[cur] = "new"
    /\ queue \in Seq(Req) /\ IsInjective(queue) /\ \A r \in Range(queue) : st[r] = "waiting"
    /\ DispExact(disp) /\ DOMAIN disp.info \subseteq Indexeds(st, pc, cur)
    /\ disp.next = Cardinality(Indexeds(st, pc, cur)) + 1
    /\ pc = "send" => ~disp.dirty
    /\ pc = "idle" => store = disp.count

(* Nothing is indexed, nothing is pending.                                 *)
LEMMA IInvInit == Init => IInv
<1> SUFFICES ASSUME Init PROVE IInv
  OBVIOUS
<1>1. /\ disp = [trie |-> EmptyTrie, count |-> EmptyMap, hashes |-> {}, dfs |-> <<>>,
                 dirty |-> FALSE, info |-> EmptyMap, next |-> 1]
      /\ store = EmptyMap /\ st = [r \in Req |-> "new"]
      /\ queue = <<>> /\ pc = "idle" /\ cur = NoReq
  BY DEF Init
<1>2. /\ Shaped(disp) /\ disp.trie = EmptyTrie /\ disp.count = EmptyMap /\ disp.hashes = {}
      /\ disp.dfs = <<>> /\ disp.dirty = FALSE /\ disp.info = EmptyMap /\ disp.next = 1
  BY <1>1 DEF Shaped
<1>3. DOMAIN EmptyMap = {}
  BY DEF EmptyMap
<1>4. IndexExact(disp) /\ DOMAIN disp.info = {}
  BY <1>2, <1>3 DEF IndexExact, OwnIndex
<1>5. IsTrie(disp.trie, PathsIn(disp.info), Nat)
  <2>1. DOMAIN PathsIn(disp.info) = {}
    BY <1>4 DEF PathsIn
  <2> QED
    BY <1>2, <2>1, EmptyIsTrie
<1>6. CountExact(disp) /\ OrderExact(disp)
  <2>1. DOMAIN disp.count = {} /\ {Key(r) : r \in DOMAIN disp.info} = {}
    BY <1>2, <1>3
  <2> QED
    BY <1>2, <2>1, EnumEmpty DEF CountExact, OrderExact
<1>7. Indexeds(st, pc, cur) = {}
  BY <1>1 DEF Indexeds
<1>8. queue \in Seq(Req) /\ IsInjective(queue) /\ Range(queue) = {}
  BY <1>1 DEF IsInjective, Range
<1>9. DispExact(disp)
  BY <1>2, <1>4, <1>5, <1>6 DEF DispExact
<1>10. disp.next = Cardinality(Indexeds(st, pc, cur)) + 1
  BY <1>2, <1>7, FS_EmptySet
<1>11. st \in [Req -> States] /\ pc \in {"idle", "send", "push"} /\ cur \in Req \cup {NoReq}
  BY <1>1 DEF States
<1>12. DOMAIN disp.info \subseteq Indexeds(st, pc, cur) /\ store = disp.count /\ pc = "idle"
  BY <1>1, <1>2, <1>4
<1> QED
  BY <1>8, <1>9, <1>10, <1>11, <1>12 DEF IInv

(* The indexed requests are finitely many requests.                        *)
LEMMA IndexedsFacts ==
    ASSUME IInv
    PROVE  /\ Indexeds(st, pc, cur) \subseteq Req /\ IsFiniteSet(Indexeds(st, pc, cur))
           /\ Cardinality(Indexeds(st, pc, cur)) \in Nat
           /\ Cardinality(Indexeds(st, pc, cur)) <= Cardinality(Req) /\ Cardinality(Req) \in Nat
<1>1. Indexeds(st, pc, cur) \subseteq Req
  BY DEF IInv, Indexeds
<1> QED
  BY <1>1, DispatcherAssumption, FS_Subset, FS_CardinalityType

(* The request that is indexed gets the next index.                        *)
LEMMA StepIndex ==
    ASSUME IInv, NEW r \in Req, Index(r)
    PROVE  IInv'
<1>1. /\ pc = "idle" /\ st[r] = "new" /\ disp' = Indexed(disp, r) /\ pc' = "send" /\ cur' = r
      /\ store' = store /\ st' = st /\ queue' = queue
  BY DEF Index
<1>2. PICK A, B : A = Indexeds(st, pc, cur) /\ B = Indexeds(st', pc', cur')
  BY Zenon
<1>3. r \notin A /\ B = A \cup {r}
  BY <1>1, <1>2 DEF Indexeds
<1>4. /\ IsFiniteSet(A) /\ Cardinality(A) \in Nat /\ DOMAIN disp.info \subseteq A
      /\ disp.next = Cardinality(A) + 1
  BY <1>2, IndexedsFacts DEF IInv
<1>5. r \notin DOMAIN disp.info
  BY <1>3, <1>4
<1>6. /\ DispExact(disp') /\ DOMAIN disp'.info = DOMAIN disp.info \cup {r}
      /\ disp'.next = disp.next + 1 /\ ~disp'.dirty
  <2>1. DispExact(disp)
    BY DEF IInv
  <2> QED
    BY <1>1, <1>5, <2>1, IndexedExact
<1>7. disp'.next = Cardinality(B) + 1 /\ DOMAIN disp'.info \subseteq B
  <2>1. Cardinality(B) = Cardinality(A) + 1
    BY <1>3, <1>4, FS_AddElement
  <2> QED
    BY <1>3, <1>4, <1>6, <2>1
<1>8. /\ st' \in [Req -> States] /\ pc' \in {"idle", "send", "push"} /\ cur' \in Req \cup {NoReq}
      /\ pc' = "send" => cur' \in Req /\ st'[cur'] = "new"
      /\ queue' \in Seq(Req) /\ IsInjective(queue') /\ \A o \in Range(queue') : st'[o] = "waiting"
      /\ pc' # "idle"
  BY <1>1 DEF IInv
<1> QED
  BY <1>2, <1>6, <1>7, <1>8 DEF IInv

(* The request that was indexed is sent.                                   *)
LEMMA StepSend ==
    ASSUME IInv, Send
    PROVE  IInv'
<1>1. /\ pc = "send" /\ st' = [st EXCEPT ![cur] = "sent"] /\ pc' = "push"
      /\ disp' = disp /\ store' = store /\ queue' = queue /\ cur' = cur
  BY DEF Send
<1>2. /\ st \in [Req -> States] /\ cur \in Req /\ st[cur] = "new"
      /\ queue \in Seq(Req) /\ IsInjective(queue) /\ \A o \in Range(queue) : st[o] = "waiting"
      /\ DispExact(disp) /\ DOMAIN disp.info \subseteq Indexeds(st, pc, cur)
      /\ disp.next = Cardinality(Indexeds(st, pc, cur)) + 1
  BY <1>1 DEF IInv
<1>3. st' \in [Req -> States] /\ \A r \in Req : st'[r] = IF r = cur THEN "sent" ELSE st[r]
  BY <1>1, <1>2 DEF States
<1>4. Indexeds(st', pc', cur') = Indexeds(st, pc, cur)
  BY <1>1, <1>2, <1>3 DEF Indexeds
<1>5. \A o \in Range(queue') : st'[o] = "waiting"
  <2>1. \A o \in Range(queue) : o \in Req /\ st[o] = "waiting"
    BY <1>2 DEF Range
  <2> QED
    BY <1>1, <1>2, <1>3, <2>1
<1> QED
  BY <1>1, <1>2, <1>3, <1>4, <1>5 DEF IInv

(* The end of submit pushes the counts.                                    *)
LEMMA StepPush ==
    ASSUME IInv, Push
    PROVE  IInv'
<1>1. /\ pc = "push" /\ store' = disp.count /\ pc' = "idle" /\ cur' = NoReq
      /\ disp' = disp /\ st' = st /\ queue' = queue
  BY DEF Push
<1>2. Indexeds(st', pc', cur') = Indexeds(st, pc, cur)
  BY <1>1 DEF Indexeds
<1> QED
  BY <1>1, <1>2 DEF IInv

(* A request changes its state, was sent before, and is waiting then only  *)
(* if it is appended to the queue.                                         *)
Moves(r, s) ==
    /\ st[r] # "new" /\ s \in States \ {"new"} /\ st' = [st EXCEPT ![r] = s]
    /\ disp' = disp /\ store' = store /\ pc' = pc /\ cur' = cur

(* Such a step keeps the invariant if the queue stays one of waiting       *)
(* requests.                                                               *)
LEMMA MovesFacts ==
    ASSUME IInv, NEW r \in Req, NEW s, Moves(r, s),
           queue' \in Seq(Req), IsInjective(queue'), \A o \in Range(queue') : st'[o] = "waiting"
    PROVE  IInv'
<1>1. st' \in [Req -> States] /\ \A o \in Req : st'[o] = IF o = r THEN s ELSE st[o]
  BY DEF IInv, Moves, States
<1>2. Indexeds(st', pc', cur') = Indexeds(st, pc, cur)
  BY <1>1 DEF Indexeds, Moves
<1>3. pc' = "send" => cur' \in Req /\ st'[cur'] = "new"
  BY <1>1 DEF IInv, Moves
<1> QED
  BY <1>1, <1>2, <1>3 DEF IInv, Moves

(* A posted request joins the queue at the end.                            *)
LEMMA StepArrive ==
    ASSUME IInv, NEW r \in Req, Arrive(r)
    PROVE  IInv'
<1>1. /\ st[r] = "sent" /\ pc # "send" /\ st' = [st EXCEPT ![r] = "waiting"]
      /\ queue' = Append(queue, r) /\ disp' = disp /\ store' = store /\ pc' = pc /\ cur' = cur
  BY DEF Arrive
<1>2. /\ queue \in Seq(Req) /\ IsInjective(queue) /\ \A o \in Range(queue) : st[o] = "waiting"
      /\ st \in [Req -> States]
  BY DEF IInv
<1>3. Moves(r, "waiting")
  BY <1>1 DEF Moves, States
<1>4. Enumerates(queue, ToSet(queue)) /\ ToSet(queue) = Range(queue)
  BY <1>2, EnumSelf DEF ToSet, Range
<1>5. Enumerates(queue', ToSet(queue) \cup {r})
  <2>1. r \notin ToSet(queue)
    BY <1>1, <1>2, <1>4
  <2> QED
    BY <1>1, <1>4, <2>1, EnumAppend
<1>6. IsInjective(queue') /\ Range(queue') = Range(queue) \cup {r}
  BY <1>4, <1>5 DEF Enumerates, ToSet, Range
<1>7. queue' \in Seq(Req)
  BY <1>1, <1>2
<1>8. \A o \in Range(queue') : st'[o] = "waiting"
  BY <1>1, <1>2, <1>6
<1> QED
  BY <1>1, <1>3, <1>6, <1>7, <1>8, MovesFacts

(* A request that failed was not in the queue.                             *)
LEMMA StepFail ==
    ASSUME IInv, NEW r \in Req, Fail(r)
    PROVE  IInv'
<1>1. /\ st[r] = "sent" /\ pc # "send" /\ st' = [st EXCEPT ![r] = "failed"]
      /\ queue' = queue /\ disp' = disp /\ store' = store /\ pc' = pc /\ cur' = cur
  BY DEF Fail
<1>2. /\ queue \in Seq(Req) /\ IsInjective(queue) /\ \A o \in Range(queue) : st[o] = "waiting"
  BY DEF IInv
<1>3. Moves(r, "failed")
  BY <1>1 DEF Moves, States
<1>4. \A o \in Range(queue') : st'[o] = "waiting"
  BY <1>1, <1>2
<1> QED
  BY <1>1, <1>2, <1>3, <1>4, MovesFacts

(* Nor was a request that ended; it may end while another is being sent.   *)
LEMMA StepFinish ==
    ASSUME IInv, NEW r \in Req, Finish(r)
    PROVE  IInv'
<1>1. /\ st[r] = "running" /\ st' = [st EXCEPT ![r] = "done"]
      /\ queue' = queue /\ disp' = disp /\ store' = store /\ pc' = pc /\ cur' = cur
  BY DEF Finish
<1>2. /\ queue \in Seq(Req) /\ IsInjective(queue) /\ \A o \in Range(queue) : st[o] = "waiting"
  BY DEF IInv
<1>3. Moves(r, "done")
  BY <1>1 DEF Moves, States
<1>4. \A o \in Range(queue') : st'[o] = "waiting"
  BY <1>1, <1>2
<1> QED
  BY <1>1, <1>2, <1>3, <1>4, MovesFacts

(* The requests a round admits.                                            *)
Admitted(order, n) == ToSet(SubSeq(order, 1, n))

(* A round takes requests out of the dispatcher and out of the queue.      *)
LEMMA StepRound ==
    ASSUME IInv, NEW n \in 0..MaxAdmit, Round(n)
    PROVE  IInv'
<1>1. pc # "send" /\ n <= Len(queue) /\ pc' = pc /\ cur' = cur
  BY DEF Round
<1>2. /\ queue \in Seq(Req) /\ IsInjective(queue) /\ \A o \in Range(queue) : st[o] = "waiting"
      /\ st \in [Req -> States] /\ DispExact(disp)
  BY DEF IInv
<1>3. PICK order, front :
         /\ \E groups \in Reorderings(GroupBy(queue, Key)) : order = FlattenSeq(groups)
         /\ front = SubSeq(order, 1, Min({BatchEst, Len(order)}))
         /\ disp' = ForgetAll(disp, front)
         /\ store' = StoreAfter(store, disp', Range(front) \cap DOMAIN disp.info)
         /\ queue' = SubSeq(order, n + 1, Len(order))
         /\ st' = [r \in Req |-> IF r \in Range(SubSeq(order, 1, n)) THEN "running" ELSE st[r]]
  BY DEF Round
<1>4. PICK S : S = Range(queue)
  BY Zenon
<1>5. Enumerates(queue, S) /\ S \subseteq Req
  <2>1. Enumerates(queue, ToSet(queue))
    BY <1>2, EnumSelf
  <2> QED
    BY <1>2, <1>4, <2>1 DEF ToSet, Range
<1>6. Enumerates(order, S)
  BY <1>3, <1>5, QueueOrder
<1>7. n \in 0..Len(order) /\ Len(order) \in Nat /\ order \in Seq(Req)
  <2>1. Len(order) = Cardinality(S) /\ Len(queue) = Cardinality(S)
    BY <1>5, <1>6, EnumLength
  <2>2. order \in Seq(S) /\ Len(order) \in Nat
    BY <1>6, EnumFacts
  <2>3. n \in Nat
    BY DispatcherAssumption
  <2> QED
    BY <1>1, <1>5, <2>1, <2>2, <2>3
<1>8. PICK a : a = Admitted(order, n)
  BY Zenon
<1>9. Enumerates(queue', S \ a)
  BY <1>3, <1>6, <1>7, <1>8, EnumRest DEF Admitted
<1>10. st' = [r \in Req |-> IF r \in a THEN "running" ELSE st[r]]
  BY <1>3, <1>8 DEF Admitted, ToSet, Range
<1>11. a \subseteq S
  <2>1. Enumerates(SubSeq(order, 1, n), {order[i] : i \in 1..n})
    BY <1>6, <1>7, EnumPrefix
  <2>2. a = {order[i] : i \in 1..n}
    BY <1>8, <2>1 DEF Enumerates, Admitted
  <2>3. \A i \in 1..n : order[i] \in S
    <3>1. \A i \in 1..Len(order) : order[i] \in S
      BY <1>6, EnumFacts
    <3> QED
      BY <1>7, <3>1
  <2> QED
    BY <2>2, <2>3
<1>12. queue' \in Seq(Req) /\ IsInjective(queue') /\ Range(queue') = S \ a
  BY <1>5, <1>9 DEF Enumerates, ToSet, Range
<1>13. \A o \in Range(queue') : st'[o] = "waiting"
  BY <1>2, <1>4, <1>5, <1>10, <1>12
<1>14. st' \in [Req -> States]
  BY <1>2, <1>10 DEF States
<1>15. Indexeds(st', pc', cur') = Indexeds(st, pc, cur)
  <2>1. \A r \in Req : st'[r] # "new" <=> st[r] # "new"
    BY <1>2, <1>4, <1>5, <1>10, <1>11
  <2> QED
    BY <1>1, <2>1 DEF Indexeds
<1>16. front \in Seq(Req)
  <2>1. PICK k : k = Min({BatchEst, Len(order)})
    BY Zenon
  <2>2. k = IF BatchEst <= Len(order) THEN BatchEst ELSE Len(order)
    BY <1>7, <2>1, DispatcherAssumption, MinOfTwo
  <2>3. k \in 0..Len(order)
    BY <1>7, <2>2, DispatcherAssumption
  <2>4. SubSeq(order, 1, k) \in Seq(Req)
    BY <1>7, <2>3
  <2> QED
    BY <1>3, <2>1, <2>4
<1>17. /\ DispExact(disp') /\ DOMAIN disp'.info \subseteq DOMAIN disp.info /\ disp'.next = disp.next
       /\ Range(front) \cap DOMAIN disp.info = {} => disp' = disp
  <2>1. PICK d, e : d = disp /\ e = ForgetAll(disp, front)
    BY Zenon
  <2>2. DispExact(d) /\ e = ForgetAll(d, front)
    BY <1>2, <2>1
  <2>3. /\ DispExact(e) /\ DOMAIN e.info \subseteq DOMAIN d.info /\ e.next = d.next
        /\ Range(front) \cap DOMAIN d.info = {} => e = d
    BY <1>16, <2>2, ForgetAllExact
  <2> QED
    BY <1>3, <2>1, <2>3
<1>18. pc = "idle" => store' = disp'.count
  <2>1. store' = IF Range(front) \cap DOMAIN disp.info = {} THEN store ELSE disp'.count
    BY <1>3 DEF StoreAfter
  <2>2. pc = "idle" => store = disp.count
    BY DEF IInv
  <2> QED
    BY <1>17, <2>1, <2>2
<1>19. /\ DOMAIN disp'.info \subseteq Indexeds(st', pc', cur')
       /\ disp'.next = Cardinality(Indexeds(st', pc', cur')) + 1
       /\ pc \in {"idle", "send", "push"} /\ cur \in Req \cup {NoReq}
  BY <1>15, <1>17 DEF IInv
<1> QED
  BY <1>1, <1>12, <1>13, <1>14, <1>17, <1>18, <1>19 DEF IInv

(* Every step keeps the inductive invariant.                               *)
LEMMA IInvStep == IInv /\ [Next]_vars => IInv'
<1> SUFFICES ASSUME IInv, [Next]_vars PROVE IInv'
  OBVIOUS
<1>1. CASE UNCHANGED vars
  BY <1>1 DEF vars, IInv, Indexeds
<1>2. CASE Rest
  BY <1>2 DEF Rest, vars, IInv, Indexeds
<1>3. ASSUME NEW r \in Req, Index(r) \/ Arrive(r) \/ Fail(r) \/ Finish(r) PROVE IInv'
  BY <1>3, StepIndex, StepArrive, StepFail, StepFinish
<1>4. CASE Send
  BY <1>4, StepSend
<1>5. CASE Push
  BY <1>5, StepPush
<1>6. ASSUME NEW n \in 0..MaxAdmit, Round(n) PROVE IInv'
  BY <1>6, StepRound
<1> QED
  BY <1>1, <1>2, <1>3, <1>4, <1>5, <1>6 DEF Next

(* The inductive invariant holds in every state: submit, the rounds of the *)
(* server and the failures of requests, in any order, leave the trie, the  *)
(* counts, the hashes and the order those of the pending requests.         *)
THEOREM InvariantHolds == Spec => []IInv
<1>1. Init => IInv
  BY IInvInit
<1>2. IInv /\ [Next]_vars => IInv'
  BY IInvStep
<1> QED
  BY <1>1, <1>2, PTL DEF Spec

(* The store of the pending counts that the server reads (_client_pending) *)
(* is never stale between two calls of submit: StoreFresh.                 *)
THEOREM CountsPushed == Spec => []StoreFresh
<1>1. IInv => StoreFresh
  BY DEF IInv, StoreFresh
<1> QED
  BY <1>1, InvariantHolds, PTL

-----------------------------------------------------------------------------
(* The requests on their way to the server.                                *)

OnWay(c, state, k) == {r \in Req \ {c} : state[r] = "sent" /\ Key(r) = k}

(* OnTheirWayCounted of any store, request being submitted and states.     *)
Covers(counts, c, state) ==
    \A k \in {Key(r) : r \in Req} :
       OnWay(c, state, k) # {} => k \in DOMAIN counts /\ counts[k] >= Cardinality(OnWay(c, state, k))

(* A request that was sent is pending until the server has it; the store   *)
(* holds numbers.                                                          *)
WayInv ==
    /\ IInv
    /\ pc = "idle" => cur = NoReq
    /\ pc = "send" => cur \in DOMAIN disp.info
    /\ \A r \in Req : st[r] = "sent" => r \in DOMAIN disp.info
    /\ \A k \in DOMAIN store : store[k] \in Nat
    /\ Covers(store, cur, st)

(* The counts of an exact dispatcher cover whatever is pending.            *)
LEMMA PendingCovered ==
    ASSUME NEW d, DispExact(d), NEW c, NEW state,
           \A r \in Req : state[r] = "sent" => r \in DOMAIN d.info
    PROVE  Covers(d.count, c, state) /\ \A k \in DOMAIN d.count : d.count[k] \in Nat
<1>1. OwnIndex(d.info) /\ DOMAIN d.count = {Key(r) : r \in DOMAIN d.info}
      /\ \A k \in DOMAIN d.count : d.count[k] = Cardinality(Members(d.info, k))
  BY DEF DispExact, IndexExact, CountExact
<1>2. \A k : IsFiniteSet(Members(d.info, k)) /\ Cardinality(Members(d.info, k)) \in Nat
  BY <1>1, MembersFacts
<1>3. ASSUME NEW k, OnWay(c, state, k) # {}
      PROVE  k \in DOMAIN d.count /\ d.count[k] >= Cardinality(OnWay(c, state, k))
  <2>1. OnWay(c, state, k) \in SUBSET Members(d.info, k)
    BY DEF OnWay, Members
  <2>2. k \in DOMAIN d.count
    BY <1>1, <1>3, <2>1 DEF Members
  <2>3. /\ Cardinality(OnWay(c, state, k)) <= Cardinality(Members(d.info, k))
        /\ IsFiniteSet(OnWay(c, state, k))
    BY <1>2, <2>1, FS_Subset
  <2>4. Cardinality(OnWay(c, state, k)) \in Nat
    BY <2>3, FS_CardinalityType
  <2> QED
    BY <1>1, <1>2, <2>2, <2>3, <2>4
<1>4. \A k \in DOMAIN d.count : d.count[k] \in Nat
  BY <1>1, <1>2
<1> QED
  BY <1>3, <1>4 DEF Covers

(* A store covers fewer requests too.                                      *)
LEMMA FewerCovered ==
    ASSUME NEW counts, \A k \in DOMAIN counts : counts[k] \in Nat,
           NEW c, NEW state, Covers(counts, c, state), NEW e, NEW after,
           \A r \in Req \ {e} : after[r] = "sent" => r # c /\ state[r] = "sent"
    PROVE  Covers(counts, e, after)
<1> SUFFICES ASSUME NEW k \in {Key(r) : r \in Req}, OnWay(e, after, k) # {}
             PROVE  k \in DOMAIN counts /\ counts[k] >= Cardinality(OnWay(e, after, k))
  BY DEF Covers
<1>1. OnWay(e, after, k) \in SUBSET OnWay(c, state, k) /\ OnWay(c, state, k) \in SUBSET Req
  BY DEF OnWay
<1>2. k \in DOMAIN counts /\ counts[k] >= Cardinality(OnWay(c, state, k))
  BY <1>1 DEF Covers
<1>3. IsFiniteSet(OnWay(c, state, k))
  BY <1>1, DispatcherAssumption, FS_Subset
<1>4. /\ Cardinality(OnWay(e, after, k)) <= Cardinality(OnWay(c, state, k))
      /\ IsFiniteSet(OnWay(e, after, k))
  BY <1>1, <1>3, FS_Subset
<1>5. Cardinality(OnWay(e, after, k)) \in Nat /\ Cardinality(OnWay(c, state, k)) \in Nat
  BY <1>3, <1>4, FS_CardinalityType
<1>6. counts[k] \in Nat
  BY <1>2
<1> QED
  BY <1>2, <1>4, <1>5, <1>6

(* A round takes only waiting requests out of the dispatcher, and sends    *)
(* none back.                                                              *)
LEMMA RoundTakes ==
    ASSUME IInv, NEW n \in 0..MaxAdmit, Round(n)
    PROVE  /\ pc # "send" /\ pc' = pc /\ cur' = cur
           /\ \A r \in Req : st'[r] = "sent" => st[r] = "sent"
           /\ \A r \in DOMAIN disp.info : st[r] = "sent" => r \in DOMAIN disp'.info
           /\ store' = store \/ store' = disp'.count
<1>1. PICK order, front :
         /\ \E groups \in Reorderings(GroupBy(queue, Key)) : order = FlattenSeq(groups)
         /\ front = SubSeq(order, 1, Min({BatchEst, Len(order)}))
         /\ disp' = ForgetAll(disp, front)
         /\ store' = StoreAfter(store, disp', Range(front) \cap DOMAIN disp.info)
         /\ st' = [r \in Req |-> IF r \in Range(SubSeq(order, 1, n)) THEN "running" ELSE st[r]]
  BY DEF Round
<1>2. PICK S : S = Range(queue)
  BY Zenon
<1>3. S \subseteq Req /\ \A r \in S : st[r] = "waiting"
  BY <1>2 DEF IInv, Range
<1>4. Enumerates(order, S)
  <2>1. Enumerates(queue, ToSet(queue))
    BY EnumSelf DEF IInv
  <2>2. Enumerates(queue, S)
    BY <1>2, <2>1 DEF ToSet, Range
  <2> QED
    BY <1>1, <1>3, <2>2, QueueOrder
<1>5. order \in Seq(S) /\ Len(order) \in Nat
  BY <1>4, EnumFacts
<1>6. PICK k : k = Min({BatchEst, Len(order)})
  BY Zenon
<1>7. k \in 0..Len(order)
  <2>1. k = IF BatchEst <= Len(order) THEN BatchEst ELSE Len(order)
    BY <1>5, <1>6, DispatcherAssumption, MinOfTwo
  <2> QED
    BY <1>5, <2>1, DispatcherAssumption
<1>8. front \in Seq(S)
  <2>1. SubSeq(order, 1, k) \in Seq(S)
    BY <1>5, <1>7
  <2> QED
    BY <1>1, <1>6, <2>1
<1>9. Range(front) \subseteq S /\ front \in Seq(Req)
  BY <1>3, <1>8 DEF Range
<1>10. DOMAIN disp.info \ Range(front) \subseteq DOMAIN disp'.info
  <2>1. PICK d, e : d = disp /\ e = ForgetAll(disp, front)
    BY Zenon
  <2>2. DispExact(d) /\ e = ForgetAll(d, front)
    BY <2>1 DEF IInv
  <2>3. DOMAIN d.info \ Range(front) \subseteq DOMAIN e.info
    BY <1>9, <2>2, ForgetAllExact
  <2> QED
    BY <1>1, <2>1, <2>3
<1>11. \A r \in Req : st'[r] = "sent" => st[r] = "sent"
  BY <1>1
<1>12. \A r \in DOMAIN disp.info : st[r] = "sent" => r \in DOMAIN disp'.info
  BY <1>3, <1>9, <1>10
<1>13. store' = store \/ store' = disp'.count
  BY <1>1 DEF StoreAfter
<1>14. pc # "send" /\ pc' = pc /\ cur' = cur
  BY DEF Round
<1> QED
  BY <1>11, <1>12, <1>13, <1>14

(* Steps that leave the dispatcher and the store alone and send nobody.    *)
LEMMA QuietCovered ==
    ASSUME WayInv, IInv', disp' = disp, store' = store, pc' = pc, cur' = cur,
           \A r \in Req : st'[r] = "sent" => st[r] = "sent"
    PROVE  WayInv'
<1>1. Covers(store, cur, st')
  BY FewerCovered DEF WayInv
<1> QED
  BY <1>1 DEF WayInv

(* Every step keeps it.                                                    *)
LEMMA WayInvStep == WayInv /\ [Next]_vars => WayInv'
<1> SUFFICES ASSUME WayInv, [Next]_vars PROVE WayInv'
  OBVIOUS
<1>1. IInv'
  BY IInvStep DEF WayInv
<1>2. st \in [Req -> States] /\ DispExact(disp) /\ NoReq \notin Req /\ pc \in {"idle", "send", "push"}
  BY DispatcherAssumption DEF WayInv, IInv
<1>3. CASE UNCHANGED vars \/ Rest
  BY <1>1, <1>3, QuietCovered DEF vars, Rest
<1>4. ASSUME NEW r \in Req, Index(r) PROVE WayInv'
  <2>1. /\ pc = "idle" /\ st[r] = "new" /\ disp' = Indexed(disp, r) /\ pc' = "send" /\ cur' = r
        /\ store' = store /\ st' = st
    BY <1>4 DEF Index
  <2>2. cur = NoReq /\ \A k \in DOMAIN store : store[k] \in Nat
    BY <2>1 DEF WayInv
  <2>3. Covers(store, r, st)
    <3>1. \A o \in Req \ {r} : st[o] = "sent" => o # cur /\ st[o] = "sent"
      BY <1>2, <2>2
    <3> QED
      BY <2>2, <3>1, FewerCovered DEF WayInv
  <2>4. DOMAIN disp'.info = DOMAIN disp.info \cup {r}
    <3>1. r \notin DOMAIN disp.info
      BY <2>1 DEF WayInv, IInv, Indexeds
    <3> QED
      BY <1>2, <2>1, <3>1, IndexedExact
  <2> QED
    BY <1>1, <2>1, <2>2, <2>3, <2>4 DEF WayInv
<1>5. CASE Send
  <2>1. /\ pc = "send" /\ st' = [st EXCEPT ![cur] = "sent"] /\ pc' = "push"
        /\ disp' = disp /\ store' = store /\ cur' = cur
    BY <1>5 DEF Send
  <2>2. \A r \in Req : st'[r] = IF r = cur THEN "sent" ELSE st[r]
    BY <1>2, <2>1
  <2>3. Covers(store, cur, st')
    <3>1. \A r \in Req \ {cur} : st'[r] = "sent" => r # cur /\ st[r] = "sent"
      BY <2>2
    <3> QED
      BY <3>1, FewerCovered DEF WayInv
  <2> QED
    BY <1>1, <2>1, <2>2, <2>3 DEF WayInv
<1>6. CASE Push
  <2>1. /\ pc = "push" /\ store' = disp.count /\ pc' = "idle" /\ cur' = NoReq
        /\ disp' = disp /\ st' = st
    BY <1>6 DEF Push
  <2>2. Covers(disp.count, NoReq, st) /\ \A k \in DOMAIN disp.count : disp.count[k] \in Nat
    BY <1>2, PendingCovered DEF WayInv
  <2> QED
    BY <1>1, <2>1, <2>2 DEF WayInv
<1>7. ASSUME NEW r \in Req, Arrive(r) \/ Fail(r) \/ Finish(r) PROVE WayInv'
  <2>1. disp' = disp /\ store' = store /\ pc' = pc /\ cur' = cur
    BY <1>7 DEF Arrive, Fail, Finish
  <2>2. PICK s \in {"waiting", "failed", "done"} : st' = [st EXCEPT ![r] = s]
    BY <1>7 DEF Arrive, Fail, Finish
  <2>3. \A o \in Req : st'[o] = "sent" => st[o] = "sent"
    BY <1>2, <2>2
  <2> QED
    BY <1>1, <2>1, <2>3, QuietCovered
<1>8. ASSUME NEW n \in 0..MaxAdmit, Round(n) PROVE WayInv'
  <2>1. /\ pc # "send" /\ pc' = pc /\ cur' = cur
        /\ \A r \in Req : st'[r] = "sent" => st[r] = "sent"
        /\ \A r \in DOMAIN disp.info : st[r] = "sent" => r \in DOMAIN disp'.info
        /\ store' = store \/ store' = disp'.count
    BY <1>8, RoundTakes DEF WayInv
  <2>2. \A r \in Req : st'[r] = "sent" => r \in DOMAIN disp'.info
    BY <2>1 DEF WayInv
  <2>3. Covers(store, cur, st') /\ \A k \in DOMAIN store : store[k] \in Nat
    BY <2>1, FewerCovered DEF WayInv
  <2>4. Covers(disp'.count, cur, st') /\ \A k \in DOMAIN disp'.count : disp'.count[k] \in Nat
    <3>1. DispExact(disp')
      BY <1>1 DEF IInv
    <3> QED
      BY <2>2, <3>1, PendingCovered
  <2>5. Covers(store', cur', st') /\ \A k \in DOMAIN store' : store'[k] \in Nat
    BY <2>1, <2>3, <2>4
  <2> QED
    BY <1>1, <2>1, <2>2, <2>5 DEF WayInv
<1> QED
  BY <1>3, <1>4, <1>5, <1>6, <1>7, <1>8 DEF Next

(* Whenever the server reads the counts, in a round inside send_fn too,    *)
(* they cover every request that is on its way to it: a round takes out    *)
(* only requests the server has (_run_tagged, step 9): OnTheirWayCounted.  *)
THEOREM OnTheirWayCovered == Spec => []OnTheirWayCounted
<1>1. Init => WayInv
  <2> SUFFICES ASSUME Init PROVE WayInv
    OBVIOUS
  <2>1. IInv /\ pc = "idle" /\ cur = NoReq /\ store = EmptyMap /\ \A r \in Req : st[r] = "new"
    BY IInvInit DEF Init
  <2>2. DOMAIN store = {} /\ \A k : OnWay(cur, st, k) = {}
    BY <2>1 DEF EmptyMap, OnWay
  <2> QED
    BY <2>1, <2>2 DEF WayInv, Covers
<1>2. WayInv /\ [Next]_vars => WayInv'
  BY WayInvStep
<1>3. WayInv => OnTheirWayCounted
  BY DEF WayInv, Covers, OnWay, OnTheirWayCounted
<1> QED
  BY <1>1, <1>2, <1>3, PTL DEF Spec

-----------------------------------------------------------------------------
(* What the tries and the counts say of the pending requests.              *)

(* Requests are as many as their indices.                                  *)
LEMMA AsManyIndices ==
    ASSUME NEW info, OwnIndex(info), NEW S \in SUBSET (DOMAIN info)
    PROVE  IsFiniteSet(S) /\ Cardinality({info[r] : r \in S}) = Cardinality(S)
<1>1. PICK T : T = {info[r] : r \in S}
  BY Zenon
<1>2. PICK f : f = [r \in S |-> info[r]]
  BY Zenon
<1>3. f \in Bijection(S, T)
  <2>1. f \in [S -> T] /\ \A t \in T : \E r \in S : f[r] = t
    BY <1>1, <1>2
  <2>2. \A r, o \in S : f[r] = f[o] => r = o
    BY <1>2 DEF OwnIndex
  <2> QED
    BY <2>1, <2>2 DEF Bijection, Injection, Surjection, IsInjective
<1>4. IsFiniteSet(S)
  BY PathsFacts, FS_Subset
<1> QED
  BY <1>1, <1>3, <1>4, FS_Bijection DEF ExistsBijection

(* The prompts that pass a node are those of the requests below it.        *)
LEMMA PassingUnder ==
    ASSUME OwnIndex(disp.info), NEW p \in Seq(Nat), NEW m, m = PathsIn(disp.info)
    PROVE  /\ Passing(m, p) = {disp.info[r] : r \in Under(p)}
           /\ {i \in DOMAIN m : m[i] = p} = {disp.info[r] : r \in Members(disp.info, p)}
           /\ Under(p) \subseteq DOMAIN disp.info /\ Members(disp.info, p) \subseteq DOMAIN disp.info
           /\ \A r \in DOMAIN disp.info : r \in Under(p) <=> Begins(p, Key(r))
<1>1. PICK info : info = disp.info
  BY Zenon
<1>2. DOMAIN m = {info[r] : r \in DOMAIN info} /\ \A r \in DOMAIN info : m[info[r]] = Key(r)
  <2>1. DOMAIN PathsIn(info) = {info[r] : r \in DOMAIN info}
        /\ \A r \in DOMAIN info : PathsIn(info)[info[r]] = Key(r)
    <3>1. OwnIndex(info)
      BY <1>1
    <3> QED
      BY <3>1, PathsFacts
  <2> QED
    BY <1>1, <2>1
<1>3. \A r \in DOMAIN info : Key(r) \in Seq(Nat)
  BY <1>1, KeyFacts DEF OwnIndex
<1>4. \A r \in DOMAIN info : IsPrefix(p, Key(r)) <=> Begins(p, Key(r))
  BY <1>3, BeginsFacts
<1>5. Under(p) = {r \in DOMAIN info : Begins(p, Key(r))}
  BY <1>1, <1>4 DEF Under, Pending
<1> QED
  BY <1>1, <1>2, <1>5 DEF Passing, Members

(* A node's children are the nodes it is the front of.                     *)
LEMMA ChildrenAre ==
    ASSUME NEW D \in SUBSET Seq(Nat), NEW p \in Seq(Nat), NEW kids,
           Enumerates(kids, {k \in Nat : Append(p, k) \in D})
    PROVE  {Append(p, k) : k \in Range(kids)} = {q \in D : q # <<>> /\ Front(q) = p}
<1>1. Range(kids) = {k \in Nat : Append(p, k) \in D}
  BY DEF Enumerates, ToSet, Range
<1>2. ASSUME NEW q \in D, q # <<>>, Front(q) = p
      PROVE  \E k \in Nat : q = Append(p, k)
  <2>1. PICK n : n = Len(q)
    BY Zenon
  <2>2. n \in Nat \ {0} /\ q \in Seq(Nat) /\ q[n] \in Nat
    BY <1>2, <2>1
  <2>3. p = SubSeq(q, 1, n - 1)
    BY <1>2, <2>1 DEF Front
  <2>4. PICK u : u = Append(p, q[n])
    BY Zenon
  <2>5. Len(p) = n - 1 /\ \A i \in 1..(n - 1) : p[i] = q[i]
    BY <2>1, <2>2, <2>3
  <2>6. u \in Seq(Nat) /\ Len(u) = n /\ \A i \in 1..n : u[i] = q[i]
    BY <2>2, <2>4, <2>5
  <2>7. q = u
    BY <2>1, <2>2, <2>6, SeqEqual
  <2> QED
    BY <2>2, <2>4, <2>7
<1>3. ASSUME NEW k \in Nat PROVE Append(p, k) # <<>> /\ Front(Append(p, k)) = p
  <2>1. PICK u, n : u = Append(p, k) /\ n = Len(p)
    BY Zenon
  <2>2. n \in Nat /\ u \in Seq(Nat) /\ Len(u) = n + 1 /\ \A i \in 1..n : u[i] = p[i]
    BY <2>1
  <2>3. Front(u) = SubSeq(u, 1, n)
    <3>1. Len(u) - 1 = n
      BY <2>2
    <3> QED
      BY <3>1 DEF Front
  <2>4. PICK v : v = SubSeq(u, 1, n)
    BY Zenon
  <2>5. v \in Seq(Nat) /\ Len(v) = n /\ \A i \in 1..n : v[i] = p[i]
    BY <2>2, <2>4
  <2>6. v = p
    BY <2>1, <2>5, SeqEqual
  <2> QED
    BY <2>1, <2>2, <2>3, <2>4, <2>6
<1> QED
  BY <1>1, <1>2, <1>3

(* The ranking of the groups loses none.                                   *)
LEMMA RankedFacts ==
    ASSUME NEW d, NEW S, Enumerates(d.dfs, S), \A k \in S : d.count[k] \in Nat
    PROVE  Enumerates(RankedKeys(d), S)
<1>1. PICK s : s = d.dfs
  BY Zenon
<1>2. Enumerates(s, S) /\ DOMAIN s = 1..Len(s) /\ \A i \in DOMAIN s : s[i] \in S
  BY <1>1, EnumFacts
<1>3. PICK W : W = {p \in (DOMAIN s) \X (DOMAIN s) : d.count[s[p[1]]] > d.count[s[p[2]]]}
  BY Zenon
<1>4. PICK R : R = {p \in (DOMAIN s) \X (DOMAIN s) :
                      \/ d.count[s[p[1]]] > d.count[s[p[2]]]
                      \/ ~(d.count[s[p[2]]] > d.count[s[p[1]]]) /\ p[1] < p[2]}
  BY Zenon
<1>5. \A i \in DOMAIN s : d.count[s[i]] \in Nat
  BY <1>2
<1>6. WeaklyOrders(W, DOMAIN s)
  BY <1>3, <1>5 DEF WeaklyOrders
<1>7. StableBy(R, W, DOMAIN s)
  BY <1>3, <1>4 DEF StableBy
<1>8. RankedKeys(d) = At(s, InOrder(DOMAIN s, R))
  BY <1>1, <1>4 DEF RankedKeys, StableSort
<1>9. Enumerates(At(s, InOrder(DOMAIN s, R)), S)
  BY <1>2, <1>6, <1>7, EnumSort
<1> QED
  BY <1>8, <1>9

(* The nodes are the beginnings of the pending prompts.                    *)
LEMMA NodesAreBeginnings ==
    ASSUME IInv
    PROVE  DOMAIN disp.trie = {<<>>} \cup UNION {Along(Key(r)) : r \in Pending}
<1>1. PICK m, info : m = PathsIn(disp.info) /\ info = disp.info
  BY Zenon
<1>2. OwnIndex(info) /\ IsTrie(disp.trie, m, Nat)
  BY <1>1 DEF IInv, DispExact, IndexExact
<1>3. DOMAIN disp.trie = NodesOf(m, Nat)
  BY <1>2 DEF IsTrie
<1>4. \A r \in DOMAIN info : Key(r) \in Seq(Nat)
  BY <1>2, KeyFacts DEF OwnIndex
<1>5. ASSUME NEW p \in Seq(Nat)
      PROVE  Passing(m, p) # {} <=> \E r \in DOMAIN info : Begins(p, Key(r))
  <2>1. /\ Passing(m, p) = {info[r] : r \in Under(p)} /\ Under(p) \subseteq DOMAIN info
        /\ \A r \in DOMAIN info : r \in Under(p) <=> Begins(p, Key(r))
    <3>1. OwnIndex(disp.info)
      BY <1>1, <1>2
    <3>2. /\ Passing(m, p) = {disp.info[r] : r \in Under(p)} /\ Under(p) \subseteq DOMAIN disp.info
          /\ \A r \in DOMAIN disp.info : r \in Under(p) <=> Begins(p, Key(r))
      BY <1>1, <3>1, PassingUnder
    <3> QED
      BY <1>1, <3>2
  <2> QED
    BY <2>1
<1>6. \A r \in DOMAIN info : \A p : p \in Along(Key(r)) <=> p \in Seq(Nat) /\ p # <<>> /\ Begins(p, Key(r))
  BY <1>4, AlongFacts
<1>7. ASSUME NEW p
      PROVE  p \in NodesOf(m, Nat) <=> p \in {<<>>} \cup UNION {Along(Key(r)) : r \in DOMAIN info}
  <2>1. p \in NodesOf(m, Nat) <=> p \in Seq(Nat) /\ (p = <<>> \/ Passing(m, p) # {})
    BY DEF NodesOf
  <2>2. <<>> \in Seq(Nat)
    OBVIOUS
  <2>3. p \in UNION {Along(Key(r)) : r \in DOMAIN info} <=> \E r \in DOMAIN info : p \in Along(Key(r))
    BY Zenon
  <2> QED
    BY <1>5, <1>6, <2>1, <2>2, <2>3, Zenon
<1> QED
  BY <1>1, <1>3, <1>7 DEF Pending

(* Each node holds what it should.                                         *)
LEMMA NodesHold ==
    ASSUME IInv, NEW p \in DOMAIN disp.trie
    PROVE  /\ disp.trie[p].count = IF p = <<>> THEN 0 ELSE Cardinality(Under(p))
           /\ Range(disp.trie[p].idx) = {disp.info[r] : r \in {x \in Pending : Key(x) = p}}
           /\ Len(disp.trie[p].idx) = Cardinality({r \in Pending : Key(r) = p})
           /\ {Append(p, k) : k \in Range(disp.trie[p].kids)}
                = {q \in DOMAIN disp.trie : q # <<>> /\ Front(q) = p}
<1>1. PICK t, m : t = disp.trie /\ m = PathsIn(disp.info)
  BY Zenon
<1>2. OwnIndex(disp.info) /\ IsTrie(t, m, Nat)
  BY <1>1 DEF IInv, DispExact, IndexExact
<1>3. NodeExact(t, m, Nat, p) /\ DOMAIN t \subseteq Seq(Nat) /\ p \in Seq(Nat)
  BY <1>1, <1>2 DEF IsTrie, NodesOf
<1>4. PICK A, B : A = Under(p) /\ B = Members(disp.info, p)
  BY Zenon
<1>5. /\ Passing(m, p) = {disp.info[r] : r \in A}
      /\ {i \in DOMAIN m : m[i] = p} = {disp.info[r] : r \in B}
      /\ A \subseteq DOMAIN disp.info /\ B \subseteq DOMAIN disp.info
  BY <1>1, <1>2, <1>3, <1>4, PassingUnder
<1>6. /\ Cardinality({disp.info[r] : r \in A}) = Cardinality(A)
      /\ Cardinality({disp.info[r] : r \in B}) = Cardinality(B)
  BY <1>2, <1>5, AsManyIndices
<1>7. t[p].count = IF p = <<>> THEN 0 ELSE Cardinality(A)
  BY <1>3, <1>5, <1>6 DEF NodeExact
<1>8. Enumerates(t[p].idx, {disp.info[r] : r \in B})
  BY <1>3, <1>5 DEF NodeExact
<1>9. Range(t[p].idx) = {disp.info[r] : r \in B}
  BY <1>8 DEF Enumerates, ToSet, Range
<1>10. Len(t[p].idx) = Cardinality(B)
  BY <1>6, <1>8, EnumLength
<1>11. {Append(p, k) : k \in Range(t[p].kids)} = {q \in DOMAIN t : q # <<>> /\ Front(q) = p}
  <2>1. Enumerates(t[p].kids, {k \in Nat : Append(p, k) \in DOMAIN t})
    BY <1>3 DEF NodeExact
  <2> QED
    BY <1>3, <2>1, ChildrenAre
<1>12. B = {r \in Pending : Key(r) = p}
  BY <1>4 DEF Members, Pending
<1> QED
  BY <1>1, <1>4, <1>7, <1>9, <1>10, <1>11, <1>12

(* The types, from the inductive invariant.                                *)
LEMMA TypesHold == IInv => TypeOK
<1> SUFFICES ASSUME IInv PROVE TypeOK
  OBVIOUS
<1>1. disp.next \in 1..(Cardinality(Req) + 1)
  <2>1. PICK a, b : a = Cardinality(Indexeds(st, pc, cur)) /\ b = Cardinality(Req)
    BY Zenon
  <2>2. a \in Nat /\ b \in Nat /\ a <= b
    BY <2>1, IndexedsFacts
  <2>3. disp.next = a + 1
    BY <2>1 DEF IInv
  <2> QED
    BY <2>1, <2>2, <2>3
<1>2. Pending \subseteq Req
  BY DEF IInv, DispExact, IndexExact, OwnIndex, Pending
<1> QED
  BY <1>1, <1>2 DEF TypeOK, IInv, States

(* The invariant says what DispatcherExact says, of requests instead of    *)
(* indices.                                                                *)
LEMMA ExactFromInv == IInv => DispatcherExact
<1> SUFFICES ASSUME IInv PROVE DispatcherExact
  OBVIOUS
<1>1. TypeOK
  BY TypesHold
<1>2. DOMAIN disp.trie = {<<>>} \cup UNION {Along(Key(r)) : r \in Pending}
  BY NodesAreBeginnings
<1>3. \A p \in DOMAIN disp.trie :
         /\ disp.trie[p].count = IF p = <<>> THEN 0 ELSE Cardinality(Under(p))
         /\ Range(disp.trie[p].idx) = {disp.info[r] : r \in {x \in Pending : Key(x) = p}}
         /\ Len(disp.trie[p].idx) = Cardinality({r \in Pending : Key(r) = p})
         /\ {Append(p, k) : k \in Range(disp.trie[p].kids)}
              = {q \in DOMAIN disp.trie : q # <<>> /\ Front(q) = p}
  BY NodesHold
<1>4. CountExact(disp) /\ OrderExact(disp) /\ OwnIndex(disp.info) /\ (pc = "send" => ~disp.dirty)
  BY DEF IInv, DispExact, IndexExact
<1>5. /\ DOMAIN disp.count = {Key(r) : r \in Pending} /\ disp.hashes = DOMAIN disp.count
      /\ \A k \in DOMAIN disp.count : disp.count[k] = Cardinality({r \in Pending : Key(r) = k})
  BY <1>4 DEF CountExact, Members, Pending
<1>6. ASSUME ~disp.dirty
      PROVE  /\ Range(disp.dfs) = DOMAIN disp.count /\ IsInjective(disp.dfs)
             /\ Range(RankedKeys(disp)) = DOMAIN disp.count
  <2>1. Enumerates(disp.dfs, DOMAIN disp.count)
    BY <1>4, <1>6 DEF OrderExact
  <2>2. \A k \in DOMAIN disp.count : disp.count[k] \in Nat
    BY <1>4, MembersFacts DEF CountExact
  <2>3. Enumerates(RankedKeys(disp), DOMAIN disp.count)
    BY <2>1, <2>2, RankedFacts
  <2> QED
    BY <2>1, <2>3 DEF Enumerates, ToSet, Range
<1> QED
  BY <1>1, <1>2, <1>3, <1>4, <1>5, <1>6 DEF DispatcherExact

(* PeekDispatcher's trie, counts, hashes and order are always those of the *)
(* requests that were submitted and not taken out again: DispatcherExact.  *)
THEOREM DispatcherSound == Spec => []DispatcherExact
BY InvariantHolds, ExactFromInv, PTL

-----------------------------------------------------------------------------
(* The queries.                                                            *)

(* What is kept together is contiguous.                                    *)
LEMMA TogetherContiguous ==
    ASSUME NEW T, NEW s \in Seq(T), NEW S, Together(s, S)
    PROVE  Contiguous(s, S)
<1>1. PICK n, at : n = Len(s) /\ at = {i \in DOMAIN s : s[i] \in S}
  BY Zenon
<1>2. n \in Nat /\ at = {i \in 1..n : s[i] \in S}
  BY <1>1
<1>3. ASSUME at # {} PROVE Max(at) - Min(at) + 1 = Cardinality(at)
  <2>1. at \in SUBSET Int /\ IsFiniteSet(at)
    <3>1. IsFiniteSet(1..n) /\ at \subseteq 1..n
      BY <1>2, UpTo
    <3> QED
      BY <1>2, <3>1, FS_Subset
  <2>2. PICK a, b : a = Min(at) /\ b = Max(at)
    BY Zenon
  <2>3. a \in at /\ b \in at /\ \A i \in at : a <= i /\ i <= b
    BY <1>3, <2>1, <2>2, MaxMinFacts
  <2>4. a \in 1..n /\ b \in 1..n /\ a <= b
    BY <1>2, <2>3
  <2>5. ASSUME NEW i \in 1..n, a < i, i < b PROVE i \in at
    BY <1>1, <1>2, <2>3, <2>5 DEF Together
  <2>6. at = a..b
    <3>1. ASSUME NEW i \in a..b PROVE i \in at
      <4>1. i \in 1..n /\ (i = a \/ i = b \/ (a < i /\ i < b))
        BY <1>2, <2>4
      <4> QED
        BY <2>3, <2>5, <4>1
    <3>2. ASSUME NEW i \in at PROVE i \in a..b
      <4>1. i \in Int /\ a <= i /\ i <= b
        BY <2>1, <2>3
      <4> QED
        BY <2>4, <4>1
    <3> QED
      BY <3>1, <3>2
  <2>7. Cardinality(a..b) = b - a + 1
    BY <1>2, <2>4, FS_Interval
  <2> QED
    BY <2>2, <2>6, <2>7
<1> QED
  BY <1>1, <1>3 DEF Contiguous

(* What an exact trie lists, it lists once, and keeps sharers together.    *)
TraversalExact(aware) ==
    LET order == DfsOrder(disp.trie, aware)
    IN /\ IsInjective(order) /\ Range(order) = {disp.info[r] : r \in Pending}
       /\ \A p \in PendingPaths : Contiguous(order, {disp.info[r] : r \in Under(p)})

(* dfs_order lists each pending prompt once and keeps sharers together.    *)
LEMMA TraversalsExact ==
    ASSUME IInv, NEW aware
    PROVE  TraversalExact(aware)
<1>1. PICK t, m, order : t = disp.trie /\ m = PathsIn(disp.info) /\ order = DfsOrder(t, aware)
  BY Zenon
<1>2. OwnIndex(disp.info) /\ IsTrie(t, m, Nat)
  BY <1>1 DEF IInv, DispExact, IndexExact
<1>3. DOMAIN m = {disp.info[r] : r \in Pending}
  BY <1>1, <1>2, PathsFacts DEF Pending
<1>4. Enumerates(order, DOMAIN m) /\ \A r \in DOMAIN t : Together(order, Passing(m, r))
  BY <1>1, <1>2, OrderFacts
<1>5. order \in Seq(DOMAIN m) /\ IsInjective(order) /\ Range(order) = DOMAIN m
  BY <1>4 DEF Enumerates, ToSet, Range
<1>6. ASSUME NEW p \in PendingPaths PROVE Contiguous(order, {disp.info[r] : r \in Under(p)})
  <2>1. p \in DOMAIN t
    BY <1>1, NodesAreBeginnings DEF PendingPaths
  <2>2. p \in Seq(Nat)
    BY <1>2, <2>1 DEF IsTrie, NodesOf
  <2>3. Passing(m, p) = {disp.info[r] : r \in Under(p)}
    BY <1>1, <1>2, <2>2, PassingUnder
  <2>4. Together(order, Passing(m, p))
    BY <1>4, <2>1
  <2> QED
    BY <1>5, <2>3, <2>4, TogetherContiguous
<1> QED
  BY <1>1, <1>3, <1>5, <1>6 DEF TraversalExact

-----------------------------------------------------------------------------
(* The topmost nodes of a set that is closed upwards as far as `depth` are *)
(* those that are `depth` deep.                                            *)
LEMMA MaximalFacts ==
    ASSUME NEW K, NEW S \in SUBSET Seq(K), NEW depth \in Nat,
           \A p \in S, q \in Seq(K) : Begins(q, p) /\ Len(q) >= depth => q \in S
    PROVE  Maximal(S, depth) = {p \in S : Len(p) = depth}
<1>1. PICK deep : deep = {p \in S : Len(p) >= depth}
  BY Zenon
<1>2. Maximal(S, depth) = {p \in deep : ~\E q \in deep : IsStrictPrefix(q, p)}
  BY <1>1 DEF Maximal
<1>3. \A p \in S, q \in S : IsStrictPrefix(q, p) <=> Begins(q, p) /\ q # p
  BY BeginsFacts DEF IsStrictPrefix
<1>4. ASSUME NEW p \in S, Len(p) = depth, NEW q \in deep, Begins(q, p) PROVE q = p
  <2>1. q \in Seq(K) /\ p \in Seq(K) /\ Len(q) >= depth
    BY <1>1
  <2>2. Len(q) = Len(p)
    <3>1. PICK a, b : a = Len(q) /\ b = Len(p)
      BY Zenon
    <3>2. a \in Nat /\ b \in Nat /\ a <= b /\ a >= depth /\ b = depth
      BY <1>4, <2>1, <3>1 DEF Begins
    <3> QED
      BY <3>1, <3>2
  <2> QED
    BY <1>4, <2>1, <2>2, BeginsFacts
<1>5. ASSUME NEW p \in deep, Len(p) # depth PROVE \E q \in deep : Begins(q, p) /\ q # p
  <2>1. PICK n, q : n = Len(p) /\ q = SubSeq(p, 1, depth)
    BY Zenon
  <2>2. p \in S /\ p \in Seq(K) /\ n \in Nat /\ n > depth
    BY <1>1, <1>5, <2>1
  <2>3. q \in Seq(K) /\ Len(q) = depth /\ \A i \in 1..depth : q[i] = p[i]
    BY <2>1, <2>2
  <2>4. Begins(q, p) /\ q # p
    BY <2>1, <2>2, <2>3 DEF Begins
  <2>5. q \in S /\ Len(q) >= depth
    BY <2>2, <2>3, <2>4
  <2> QED
    BY <1>1, <2>4, <2>5
<1>6. deep \subseteq S
  BY <1>1
<1>7. ASSUME NEW p \in S
      PROVE  p \in Maximal(S, depth) <=> Len(p) = depth
  <2>1. Len(p) = depth => p \in deep
    BY <1>1, <1>7
  <2> QED
    BY <1>2, <1>3, <1>4, <1>5, <1>6, <2>1
<1> QED
  BY <1>2, <1>6, <1>7

(* Two or more are two that differ.                                        *)
LEMMA TwoOrMore ==
    ASSUME NEW S, IsFiniteSet(S)
    PROVE  Cardinality(S) >= 2 <=> \E r, o \in S : r # o
<1>1. Cardinality(S) \in Nat
  BY FS_CardinalityType
<1>2. ASSUME NEW r \in S, NEW o \in S, r # o PROVE Cardinality(S) >= 2
  <2>1. IsFiniteSet({r}) /\ Cardinality({r}) = 1
    BY FS_Singleton
  <2>2. Cardinality({r} \cup {o}) = 2
    BY <1>2, <2>1, FS_AddElement
  <2>3. {r} \cup {o} \subseteq S
    OBVIOUS
  <2>4. Cardinality({r} \cup {o}) <= Cardinality(S)
    BY <2>3, FS_Subset
  <2> QED
    BY <1>1, <2>2, <2>4
<1>3. ASSUME \A r, o \in S : r = o PROVE ~(Cardinality(S) >= 2)
  <2>1. CASE S = {}
    BY <1>1, <2>1, FS_EmptySet
  <2>2. CASE S # {}
    <3>1. PICK r \in S : TRUE
      BY <2>2
    <3>2. S = {r}
      BY <1>3, <3>1
    <3> QED
      BY <3>2, FS_Singleton
  <2> QED
    BY <2>1, <2>2
<1> QED
  BY <1>2, <1>3

(* The first MinDepth tokens of a prompt that long.                        *)
Prefix(r) == SubSeq(Key(r), 1, MinDepth)
Long(r) == Len(Key(r)) >= MinDepth

(* The requests that share that much with another.                         *)
Shared == {r \in Pending : \E o \in Pending \ {r} : Long(r) /\ Long(o) /\ Prefix(r) = Prefix(o)}

(* The nodes that deep with two requests below them.                       *)
Tops == {p \in DOMAIN disp.trie : Len(p) = MinDepth /\ \E r, o \in Under(p) : r # o}

(* The one node that deep above a request is its prefix.                   *)
LEMMA PrefixFacts ==
    ASSUME IInv, NEW r \in Pending
    PROVE  /\ Long(r) => Prefix(r) \in DOMAIN disp.trie /\ Len(Prefix(r)) = MinDepth
           /\ \A p \in DOMAIN disp.trie : Len(p) = MinDepth =>
                 (r \in Under(p) <=> Long(r) /\ p = Prefix(r))
<1>1. PICK k, n : k = Key(r) /\ n = Len(k)
  BY Zenon
<1>2. OwnIndex(disp.info) /\ r \in Req /\ r \in DOMAIN disp.info
  BY DEF IInv, DispExact, IndexExact, OwnIndex, Pending
<1>3. k \in Seq(Nat) /\ n \in Nat /\ MinDepth \in Nat \ {0}
  BY <1>1, <1>2, KeyFacts, DispatcherAssumption
<1>4. DOMAIN disp.trie \subseteq Seq(Nat)
  BY DEF IInv, DispExact, IsTrie, NodesOf
<1>5. ASSUME n >= MinDepth
      PROVE  /\ Prefix(r) \in Seq(Nat) /\ Len(Prefix(r)) = MinDepth
             /\ \A i \in 1..MinDepth : Prefix(r)[i] = k[i]
             /\ Begins(Prefix(r), k) /\ Prefix(r) # <<>>
  <2>1. PICK q : q = SubSeq(k, 1, MinDepth)
    BY Zenon
  <2>2. q \in Seq(Nat) /\ Len(q) = MinDepth /\ \A i \in 1..MinDepth : q[i] = k[i]
    BY <1>1, <1>3, <1>5, <2>1
  <2>3. Begins(q, k) /\ q # <<>>
    BY <1>1, <1>3, <1>5, <2>2 DEF Begins
  <2> QED
    BY <1>1, <2>1, <2>2, <2>3 DEF Prefix
<1>6. ASSUME n >= MinDepth PROVE Prefix(r) \in DOMAIN disp.trie
  <2>1. Prefix(r) \in Along(k)
    BY <1>3, <1>5, <1>6, AlongFacts
  <2>2. DOMAIN disp.trie = {<<>>} \cup UNION {Along(Key(o)) : o \in Pending}
    BY NodesAreBeginnings
  <2> QED
    BY <1>1, <2>1, <2>2
<1>7. ASSUME NEW p \in DOMAIN disp.trie, Len(p) = MinDepth
      PROVE  r \in Under(p) <=> n >= MinDepth /\ p = Prefix(r)
  <2>1. p \in Seq(Nat)
    BY <1>4
  <2>2. r \in Under(p) <=> Begins(p, k)
    BY <1>1, <1>2, <2>1, PassingUnder
  <2>3. ASSUME Begins(p, k) PROVE n >= MinDepth /\ p = Prefix(r)
    <3>1. n >= MinDepth /\ \A i \in 1..MinDepth : p[i] = k[i]
      BY <1>1, <1>3, <1>7, <2>3 DEF Begins
    <3>2. \A i \in 1..MinDepth : p[i] = Prefix(r)[i]
      BY <1>5, <3>1
    <3> QED
      BY <1>5, <1>7, <2>1, <3>1, <3>2, SeqEqual
  <2> QED
    BY <1>5, <2>2, <2>3
<1> QED
  BY <1>1, <1>5, <1>6, <1>7 DEF Long

(* The nodes that deep group the requests that share that much.            *)
LEMMA TopsFacts ==
    ASSUME IInv
    PROVE  /\ Tops = {Prefix(r) : r \in Shared}
           /\ Shared = UNION {Under(p) : p \in Tops}
           /\ \A p, q \in Tops : p # q => Under(p) \cap Under(q) = {}
<1>1. \A p : Under(p) \subseteq Pending
  BY DEF Under
<1>2. \A r \in Pending : /\ Long(r) => Prefix(r) \in DOMAIN disp.trie /\ Len(Prefix(r)) = MinDepth
                         /\ \A p \in DOMAIN disp.trie : Len(p) = MinDepth =>
                               (r \in Under(p) <=> Long(r) /\ p = Prefix(r))
  BY PrefixFacts
<1>3. ASSUME NEW p \in Tops, NEW r \in Under(p) PROVE r \in Shared /\ p = Prefix(r)
  <2>1. p \in DOMAIN disp.trie /\ Len(p) = MinDepth /\ r \in Pending
    BY <1>1 DEF Tops
  <2>2. PICK o \in Under(p) : o # r
    BY DEF Tops
  <2>3. o \in Pending
    BY <1>1
  <2> QED
    BY <1>2, <2>1, <2>2, <2>3 DEF Shared
<1>4. ASSUME NEW r \in Shared PROVE Prefix(r) \in Tops /\ r \in Under(Prefix(r))
  <2>1. PICK o \in Pending \ {r} : Long(r) /\ Long(o) /\ Prefix(r) = Prefix(o)
    BY DEF Shared
  <2>2. r \in Pending
    BY DEF Shared
  <2>3. Prefix(r) \in DOMAIN disp.trie /\ Len(Prefix(r)) = MinDepth
    BY <1>2, <2>1, <2>2
  <2>4. r \in Under(Prefix(r)) /\ o \in Under(Prefix(r))
    BY <1>2, <2>1, <2>2, <2>3
  <2> QED
    BY <2>1, <2>3, <2>4 DEF Tops
<1>5. \A p \in Tops : \E r \in Under(p) : TRUE
  BY DEF Tops
<1> QED
  BY <1>3, <1>4, <1>5

(* The count and the members of a node that is not the root.               *)
LEMMA NodesCount ==
    ASSUME IInv, NEW p \in DOMAIN disp.trie, p # <<>>
    PROVE  /\ disp.trie[p].count = Cardinality(Under(p)) /\ Cardinality(Under(p)) \in Nat
           /\ IsFiniteSet(Under(p))
           /\ disp.trie[p].count >= 2 <=> \E r, o \in Under(p) : r # o
<1>1. disp.trie[p].count = Cardinality(Under(p))
  BY NodesHold
<1>2. IsFiniteSet(Under(p))
  <2>1. OwnIndex(disp.info)
    BY DEF IInv, DispExact, IndexExact
  <2>2. Under(p) \subseteq DOMAIN disp.info
    BY DEF Under, Pending
  <2> QED
    BY <2>1, <2>2, AsManyIndices
<1> QED
  BY <1>1, <1>2, TwoOrMore, FS_CardinalityType

(* sharing_score looks at these nodes.                                     *)
LEMMA ScoredNodes ==
    ASSUME IInv
    PROVE  Maximal({p \in DOMAIN disp.trie : disp.trie[p].count >= 2}, MinDepth) = Tops
<1>1. PICK t, S : t = disp.trie /\ S = {p \in DOMAIN t : t[p].count >= 2}
  BY Zenon
<1>2. MinDepth \in Nat \ {0}
  BY DispatcherAssumption
<1>3. PICK m : m = PathsIn(disp.info)
  BY Zenon
<1>4. IsTrie(t, m, Nat) /\ OwnIndex(disp.info)
  BY <1>1, <1>3 DEF IInv, DispExact, IndexExact
<1>5. PathsOf(m, Nat) /\ DOMAIN t = NodesOf(m, Nat) /\ DOMAIN t \subseteq Seq(Nat)
  BY <1>4 DEF IsTrie, NodesOf
<1>6. \A p \in DOMAIN t : t[p].count >= 2 => p # <<>>
  <2>1. <<>> \in DOMAIN t => t[<<>>].count = 0
    BY <1>4 DEF IsTrie, NodeExact
  <2> QED
    BY <2>1
<1>7. \A p \in Seq(Nat) : Len(p) >= MinDepth => p # <<>>
  BY <1>2
<1>8. ASSUME NEW p \in S, NEW q \in Seq(Nat), Begins(q, p), Len(q) >= MinDepth PROVE q \in S
  <2>1. p \in DOMAIN t /\ p # <<>> /\ p \in Seq(Nat) /\ q # <<>>
    BY <1>1, <1>5, <1>6, <1>7, <1>8
  <2>2. q \in DOMAIN t /\ Passing(m, p) \subseteq Passing(m, q)
    BY <1>5, <1>8, <2>1, NodesClosed
  <2>3. \E r, o \in Under(p) : r # o
    BY <1>1, <2>1, NodesCount
  <2>4. \A r \in DOMAIN disp.info : r \in Under(p) => r \in Under(q)
    <3>1. \A r \in DOMAIN disp.info : r \in Under(p) <=> Begins(p, Key(r))
      BY <1>4, <2>1, PassingUnder
    <3>2. \A r \in DOMAIN disp.info : r \in Under(q) <=> Begins(q, Key(r))
      BY <1>4, PassingUnder
    <3>3. \A r \in DOMAIN disp.info : Key(r) \in Seq(Nat)
      BY <1>4, KeyFacts DEF OwnIndex
    <3> QED
      BY <1>8, <2>1, <3>1, <3>2, <3>3, BeginsTrans
  <2>5. \A r \in Under(p) : r \in DOMAIN disp.info
    BY DEF Under, Pending
  <2>6. \E r, o \in Under(q) : r # o
    BY <2>3, <2>4, <2>5
  <2> QED
    BY <1>1, <2>1, <2>2, <2>6, NodesCount
<1>9. S \in SUBSET Seq(Nat)
  BY <1>1, <1>5
<1>10. Maximal(S, MinDepth) = {p \in S : Len(p) = MinDepth}
  BY <1>2, <1>8, <1>9, MaximalFacts
<1>11. \A p \in DOMAIN t : Len(p) = MinDepth => (t[p].count >= 2 <=> \E r, o \in Under(p) : r # o)
  <2>1. \A p \in DOMAIN t : Len(p) = MinDepth => p # <<>>
    BY <1>2, <1>5
  <2> QED
    BY <1>1, <2>1, NodesCount
<1>12. {p \in S : Len(p) = MinDepth} = Tops
  BY <1>1, <1>11 DEF Tops
<1> QED
  BY <1>1, <1>10, <1>12

(* A node that has no prompt and one child is as deep as that child.       *)
PassesOn(t, p) == Len(t[p].kids) = 1 /\ t[p].idx = <<>>
OnlyChild(t, p) == Append(p, t[p].kids[1])
DepthAt(t, f, p) == IF PassesOn(t, p) THEN f[OnlyChild(t, p)] ELSE Len(p)
Depths(t, D, f) == f = [p \in D |-> DepthAt(t, f, p)]

(* An only child is a node, one token deeper.                              *)
LEMMA OnlyChildFacts ==
    ASSUME NEW K, NEW t, NEW m, IsTrie(t, m, K), NEW p \in DOMAIN t, PassesOn(t, p)
    PROVE  OnlyChild(t, p) \in DOMAIN t /\ Len(OnlyChild(t, p)) = Len(p) + 1 /\ Len(p) \in Nat
<1>1. /\ Enumerates(t[p].kids, {k \in K : Append(p, k) \in DOMAIN t})
      /\ p \in Seq(K) /\ Len(t[p].kids) = 1
  BY DEF IsTrie, NodesOf, NodeExact, PassesOn
<1>2. PICK s, S : s = t[p].kids /\ S = {k \in K : Append(p, k) \in DOMAIN t}
  BY Zenon
<1>3. \A i \in 1..Len(s) : s[i] \in S
  BY <1>1, <1>2, EnumFacts
<1>4. s[1] \in S
  BY <1>1, <1>2, <1>3
<1>5. PICK k : k = s[1]
  BY Zenon
<1>6. k \in K /\ Append(p, k) \in DOMAIN t
  BY <1>2, <1>4, <1>5
<1>7. Len(Append(p, k)) = Len(p) + 1 /\ Len(p) \in Nat
  BY <1>1, <1>6
<1> QED
  BY <1>2, <1>5, <1>6, <1>7 DEF OnlyChild

(* No node is deeper than the trie may be.                                 *)
LEMMA DepthBound ==
    ASSUME NEW K, NEW t, NEW m, IsTrie(t, m, K)
    PROVE  MaxDepth \in Nat /\ \A p \in DOMAIN t : Len(p) \in Nat /\ Len(p) <= MaxDepth
<1>1. PICK kids : kids = [p \in DOMAIN t |-> t[p].kids]
  BY Zenon
<1>2. \A p \in DOMAIN t : Enumerates(kids[p], Kids(t, K, p))
  BY <1>1 DEF IsTrie, NodeExact, Kids
<1>3. TreeOf(DOMAIN t, K, MaxDepth, kids)
  BY <1>2, TrieIsTree
<1> QED
  BY <1>3 DEF TreeOf

(* The recursion of the real depth is well defined.                        *)
LEMMA DepthsDefined ==
    ASSUME NEW K, NEW t, NEW m, IsTrie(t, m, K)
    PROVE  \E f : Depths(t, DOMAIN t, f)
<1>1. PICK D, M : D = DOMAIN t /\ M = MaxDepth
  BY Zenon
<1>2. M \in Nat /\ \A p \in D : Len(p) \in Nat /\ Len(p) <= M
  BY <1>1, DepthBound
<1>3. \A p \in D : PassesOn(t, p) => OnlyChild(t, p) \in D /\ Len(OnlyChild(t, p)) = Len(p) + 1
  BY <1>1, OnlyChildFacts
<1>4. PICK Low : Low = [n \in 0..(M + 1) |-> {p \in D : Len(p) + n > M}]
  BY Zenon
<1>5. PICK G : G = {n \in 0..(M + 1) : \E f : Depths(t, Low[n], f)}
  BY Zenon
<1>6. 0 \in G
  <2>1. 0 \in 0..(M + 1)
    BY <1>2
  <2>2. Low[0] = {p \in D : Len(p) + 0 > M}
    BY <1>4, <2>1
  <2>3. Low[0] = {}
    BY <1>2, <2>2
  <2>4. PICK f : f = [p \in {} |-> 0]
    BY Zenon
  <2>5. Depths(t, {}, f)
    BY <2>4 DEF Depths
  <2> QED
    BY <1>5, <2>1, <2>3, <2>5
<1>7. ASSUME NEW n \in 1..(M + 1), n - 1 \in G PROVE n \in G
  <2>1. n \in 0..(M + 1) /\ n - 1 \in 0..(M + 1)
    BY <1>2
  <2>2. PICK f : Depths(t, Low[n - 1], f)
    BY <1>5, <1>7
  <2>3. PICK A, B : A = Low[n - 1] /\ B = Low[n]
    BY Zenon
  <2>4. A = {p \in D : Len(p) + (n - 1) > M} /\ B = {p \in D : Len(p) + n > M}
    BY <1>4, <2>1, <2>3
  <2>5. PICK g : g = [p \in B |-> IF p \in A THEN f[p] ELSE DepthAt(t, f, p)]
    BY Zenon
  <2>6. A \subseteq B /\ B \subseteq D
    BY <1>2, <2>1, <2>4
  <2>7. f = [p \in A |-> DepthAt(t, f, p)]
    BY <2>2, <2>3, Zenon DEF Depths
  <2>8. ASSUME NEW p \in B PROVE DepthAt(t, f, p) = DepthAt(t, g, p)
    <3>1. ASSUME PassesOn(t, p) PROVE f[OnlyChild(t, p)] = g[OnlyChild(t, p)]
      <4>1. PICK c : c = OnlyChild(t, p)
        BY Zenon
      <4>2. c \in D /\ Len(c) = Len(p) + 1
        BY <1>3, <2>6, <3>1, <4>1
      <4>3. c \in A
        BY <1>2, <2>1, <2>4, <2>6, <4>2
      <4>4. g[c] = f[c]
        BY <2>5, <2>6, <4>3
      <4> QED
        BY <4>1, <4>4
    <3> QED
      BY <3>1, Zenon DEF DepthAt
  <2>9. ASSUME NEW p \in B PROVE g[p] = DepthAt(t, g, p)
    <3>1. CASE p \in A
      <4>1. g[p] = f[p] /\ f[p] = DepthAt(t, f, p)
        BY <2>5, <2>7, <3>1
      <4> QED
        BY <2>8, <4>1
    <3>2. CASE p \notin A
      <4>1. g[p] = DepthAt(t, f, p)
        BY <2>5, <3>2
      <4> QED
        BY <2>8, <4>1
    <3> QED
      BY <3>1, <3>2
  <2>10. Depths(t, B, g)
    BY <2>5, <2>9 DEF Depths
  <2> QED
    BY <1>5, <2>1, <2>3, <2>10
<1>8. \A n \in 0..(M + 1) : n \in G
  <2>1. M + 1 \in Nat
    BY <1>2
  <2> QED
    BY <1>6, <1>7, <2>1, UpFromZero
<1>9. M + 1 \in G
  BY <1>2, <1>8
<1>10. Low[M + 1] = D
  <2>1. Low[M + 1] = {p \in D : Len(p) + (M + 1) > M}
    BY <1>2, <1>4
  <2> QED
    BY <1>2, <2>1
<1> QED
  BY <1>1, <1>5, <1>9, <1>10

(* It is at least the depth.                                               *)
LEMMA DepthsDeep ==
    ASSUME NEW K, NEW t, NEW m, IsTrie(t, m, K), NEW f, Depths(t, DOMAIN t, f)
    PROVE  \A p \in DOMAIN t : f[p] \in Nat /\ f[p] >= Len(p)
<1>1. PICK D, M : D = DOMAIN t /\ M = MaxDepth
  BY Zenon
<1>2. M \in Nat /\ \A p \in D : Len(p) \in Nat /\ Len(p) <= M
  BY <1>1, DepthBound
<1>3. \A p \in D : PassesOn(t, p) => OnlyChild(t, p) \in D /\ Len(OnlyChild(t, p)) = Len(p) + 1
  BY <1>1, OnlyChildFacts
<1>4. \A p \in D : f[p] = DepthAt(t, f, p)
  BY <1>1 DEF Depths
<1>5. PICK G : G = {n \in 0..(M + 1) : \A p \in D : Len(p) + n > M => f[p] \in Nat /\ f[p] >= Len(p)}
  BY Zenon
<1>6. 0 \in G
  BY <1>2, <1>5
<1>7. ASSUME NEW n \in 1..(M + 1), n - 1 \in G PROVE n \in G
  <2>1. \A p \in D : Len(p) + (n - 1) > M => f[p] \in Nat /\ f[p] >= Len(p)
    BY <1>5, <1>7
  <2>2. ASSUME NEW p \in D, Len(p) + n > M PROVE f[p] \in Nat /\ f[p] >= Len(p)
    <3>1. PICK l : l = Len(p)
      BY Zenon
    <3>2. l \in Nat
      BY <1>2, <3>1
    <3>3. CASE PassesOn(t, p)
      <4>1. PICK c : c = OnlyChild(t, p)
        BY Zenon
      <4>2. c \in D /\ Len(c) = l + 1
        BY <1>3, <3>1, <3>3, <4>1
      <4>3. f[p] = f[c]
        BY <1>4, <3>3, <4>1 DEF DepthAt
      <4>4. f[c] \in Nat /\ f[c] >= l + 1
        <5>1. Len(c) + (n - 1) > M
          BY <1>2, <2>2, <3>1, <3>2, <4>2
        <5> QED
          BY <2>1, <4>2, <5>1
      <4> QED
        BY <3>1, <3>2, <4>3, <4>4
    <3>4. CASE ~PassesOn(t, p)
      <4>1. f[p] = l
        BY <1>4, <3>1, <3>4 DEF DepthAt
      <4> QED
        BY <3>1, <3>2, <4>1
    <3> QED
      BY <3>3, <3>4
  <2>3. n \in 0..(M + 1)
    BY <1>2
  <2> QED
    BY <1>5, <2>2, <2>3
<1>8. M + 1 \in G
  <2>1. M + 1 \in Nat /\ M + 1 \in 0..(M + 1)
    BY <1>2
  <2>2. \A n \in 0..(M + 1) : n \in G
    BY <1>6, <1>7, <2>1, UpFromZero
  <2> QED
    BY <2>1, <2>2
<1>9. \A p \in D : Len(p) + (M + 1) > M
  BY <1>2
<1> QED
  BY <1>1, <1>5, <1>8, <1>9

-----------------------------------------------------------------------------
(* A sum whose terms are at least k times those of another is so itself.   *)
LEMMA SumAtLeast ==
    ASSUME NEW S, IsFiniteSet(S), NEW k \in Nat, NEW f, NEW e,
           \A x \in S : e[x] \in Nat /\ f[x] \in Nat /\ f[x] >= k * e[x]
    PROVE  SumFunctionOnSet(f, S) >= k * SumFunctionOnSet(e, S)
<1>1. PICK G : G = {T \in SUBSET S : SumFunctionOnSet(f, T) >= k * SumFunctionOnSet(e, T)}
  BY Zenon
<1>2. ASSUME NEW T \in SUBSET S, \A U \in SUBSET T : U # T => U \in G PROVE T \in G
  <2>1. IsFiniteSet(T) /\ (\A x \in T : f[x] \in Nat) /\ (\A x \in T : e[x] \in Nat)
    BY FS_Subset
  <2>2. /\ SumFunctionOnSet(f, T) \in Nat /\ SumFunctionOnSet(f, {}) = 0
        /\ \A x \in T : SumFunctionOnSet(f, T) = f[x] + SumFunctionOnSet(f, T \ {x})
    BY <2>1, SumOut
  <2>3. /\ SumFunctionOnSet(e, T) \in Nat /\ SumFunctionOnSet(e, {}) = 0
        /\ \A x \in T : SumFunctionOnSet(e, T) = e[x] + SumFunctionOnSet(e, T \ {x})
    BY <2>1, SumOut
  <2>4. CASE T = {}
    <3>1. k * 0 = 0
      OBVIOUS
    <3>2. SumFunctionOnSet(f, T) >= k * SumFunctionOnSet(e, T)
      BY <2>2, <2>3, <2>4, <3>1
    <3> QED
      BY <1>1, <3>2
  <2>5. CASE T # {}
    <3>1. PICK x \in T : TRUE
      BY <2>5
    <3>2. PICK a, b, c, d : /\ a = f[x] /\ b = SumFunctionOnSet(f, T \ {x})
                           /\ c = e[x] /\ d = SumFunctionOnSet(e, T \ {x})
      BY Zenon
    <3>3. T \ {x} \in G
      BY <1>2
    <3>4. b >= k * d /\ a >= k * c /\ a \in Nat /\ c \in Nat
      BY <1>1, <3>2, <3>3
    <3>5. b \in Nat /\ d \in Nat
      <4>1. IsFiniteSet(T \ {x}) /\ (\A y \in T \ {x} : f[y] \in Nat) /\ (\A y \in T \ {x} : e[y] \in Nat)
        BY <2>1, FS_Subset
      <4> QED
        BY <3>2, <4>1, SumOut
    <3>6. k * (c + d) = k * c + k * d /\ k * c \in Nat /\ k * d \in Nat
      BY <3>4, <3>5
    <3>7. SumFunctionOnSet(f, T) = a + b /\ SumFunctionOnSet(e, T) = c + d
      BY <2>2, <2>3, <3>1, <3>2
    <3>8. a + b >= k * (c + d)
      BY <3>4, <3>5, <3>6
    <3> QED
      BY <1>1, <3>7, <3>8
  <2> QED
    BY <2>4, <2>5
<1>3. S \in G
  <2>1. \A T \in SUBSET S : T \in G
    BY <1>2, FromSmaller
  <2> QED
    BY <2>1
<1> QED
  BY <1>1, <1>3

(* sharing_score, with the recursion of its real depth by name.            *)
TopOf(t, d) == Maximal({p \in DOMAIN t : t[p].count >= 2}, d)
RealDepth(t) == CHOOSE g : Depths(t, DOMAIN t, g)

(* The score is made of sums over these nodes.                             *)
LEMMA ScoreUnfolds ==
    ASSUME NEW t, NEW d
    PROVE  SharingScore(t, d) =
             [grouped |-> SumFunctionOnSet([p \in TopOf(t, d) |-> t[p].count], TopOf(t, d)),
              most    |-> Max({t[p].count : p \in TopOf(t, d)} \cup {0}),
              depths  |-> SumFunctionOnSet([p \in TopOf(t, d) |-> RealDepth(t)[p] * t[p].count],
                                           TopOf(t, d))]
BY Zenon DEF SharingScore, TopOf, RealDepth, Depths, DepthAt, PassesOn, OnlyChild

(* The score counts the requests that share, and their depth is enough.    *)
LEMMA ScoreExact ==
    ASSUME IInv
    PROVE  /\ SharingScore(disp.trie, MinDepth).grouped = Cardinality(Shared)
           /\ SharingScore(disp.trie, MinDepth).depths
                >= MinDepth * SharingScore(disp.trie, MinDepth).grouped
<1>1. PICK t, score : t = disp.trie /\ score = SharingScore(t, MinDepth)
  BY Zenon
<1>2. PICK top, f : /\ top = TopOf(t, MinDepth) /\ f = RealDepth(t)
                    /\ score.grouped = SumFunctionOnSet([p \in top |-> t[p].count], top)
                    /\ score.depths = SumFunctionOnSet([p \in top |-> f[p] * t[p].count], top)
  <2>1. PICK top, f : top = TopOf(t, MinDepth) /\ f = RealDepth(t)
    BY Zenon
  <2>2. score = [grouped |-> SumFunctionOnSet([p \in top |-> t[p].count], top),
                 most    |-> Max({t[p].count : p \in top} \cup {0}),
                 depths  |-> SumFunctionOnSet([p \in top |-> f[p] * t[p].count], top)]
    BY <1>1, <2>1, ScoreUnfolds
  <2> QED
    BY <2>1, <2>2
<1>3. top = Tops
  BY <1>1, <1>2, ScoredNodes DEF TopOf
<1>4. MinDepth \in Nat \ {0}
  BY DispatcherAssumption
<1>5. PICK m : IsTrie(t, m, Nat)
  BY <1>1 DEF IInv, DispExact
<1>6. \A p \in DOMAIN t : f[p] \in Nat /\ f[p] >= Len(p)
  <2>1. \E g : Depths(t, DOMAIN t, g)
    BY <1>5, DepthsDefined
  <2>2. Depths(t, DOMAIN t, f)
    BY <1>2, <2>1 DEF RealDepth
  <2> QED
    BY <1>5, <2>2, DepthsDeep
<1>7. ASSUME NEW p \in top
      PROVE  /\ p \in DOMAIN t /\ Len(p) = MinDepth /\ IsFiniteSet(Under(p))
             /\ t[p].count = Cardinality(Under(p)) /\ t[p].count \in Nat
  <2>1. p \in DOMAIN t /\ Len(p) = MinDepth
    BY <1>1, <1>3 DEF Tops
  <2>2. p # <<>>
    BY <1>4, <2>1
  <2> QED
    BY <1>1, <2>1, <2>2, NodesCount
<1>8. IsFiniteSet(top)
  <2>1. OwnIndex(disp.info) /\ Shared \subseteq DOMAIN disp.info
    BY DEF IInv, DispExact, IndexExact, Shared, Pending
  <2>2. IsFiniteSet(Shared)
    BY <2>1, AsManyIndices
  <2>3. PICK g : g = [r \in Shared |-> Prefix(r)]
    BY Zenon
  <2>4. top = {Prefix(r) : r \in Shared}
    BY <1>3, TopsFacts
  <2>5. g \in Surjection(Shared, top)
    BY <2>3, <2>4 DEF Surjection
  <2> QED
    BY <2>2, <2>5, FS_Surjection
<1>9. PICK A, c : A = [p \in top |-> Under(p)] /\ c = [p \in top |-> t[p].count]
  BY Zenon
<1>10. score.grouped = Cardinality(Shared)
  <2>1. \A p \in top : IsFiniteSet(A[p]) /\ c[p] = Cardinality(A[p])
    BY <1>7, <1>9
  <2>2. \A p, q \in top : p # q => A[p] \cap A[q] = {}
    BY <1>3, <1>9, TopsFacts
  <2>3. UNION {A[p] : p \in top} = Shared
    <3>1. {A[p] : p \in top} = {Under(p) : p \in top}
      BY <1>9
    <3> QED
      BY <1>3, <3>1, TopsFacts
  <2>4. Cardinality(UNION {A[p] : p \in top}) = SumFunctionOnSet(c, top)
    BY <1>8, <2>1, <2>2, SumSizes
  <2> QED
    BY <1>2, <1>9, <2>3, <2>4
<1>11. score.depths >= MinDepth * score.grouped
  <2>1. PICK h : h = [p \in top |-> f[p] * t[p].count]
    BY Zenon
  <2>2. ASSUME NEW p \in top PROVE c[p] \in Nat /\ h[p] \in Nat /\ h[p] >= MinDepth * c[p]
    <3>1. PICK a, b : a = f[p] /\ b = c[p]
      BY Zenon
    <3>2. a \in Nat /\ a >= MinDepth /\ b \in Nat /\ h[p] = a * b
      BY <1>6, <1>7, <1>9, <2>1, <3>1
    <3>3. PICK e \in Nat : a = MinDepth + e
      <4>1. a - MinDepth \in Nat /\ a = MinDepth + (a - MinDepth)
        BY <1>4, <3>2
      <4> QED
        BY <4>1
    <3>4. a * b = MinDepth * b + e * b /\ e * b \in Nat /\ MinDepth * b \in Nat
      BY <1>4, <3>2, <3>3
    <3> QED
      BY <3>1, <3>2, <3>4
  <2>3. SumFunctionOnSet(h, top) >= MinDepth * SumFunctionOnSet(c, top)
    <3>1. MinDepth \in Nat
      BY <1>4
    <3> QED
      BY <1>8, <2>2, <3>1, SumAtLeast
  <2> QED
    BY <1>2, <1>9, <2>1, <2>3
<1> QED
  BY <1>1, <1>10, <1>11

-----------------------------------------------------------------------------
(* The prompts below a node are those that pass it.                        *)
LEMMA AllIndicesAre ==
    ASSUME NEW K, NEW t, NEW m, IsTrie(t, m, K), NEW p \in DOMAIN t
    PROVE  AllIndices(t, p) = Passing(m, p)
<1>1. /\ PathsOf(m, K) /\ DOMAIN t = NodesOf(m, K) /\ p \in Seq(K) /\ DOMAIN t \subseteq Seq(K)
      /\ \A q \in DOMAIN t : Enumerates(t[q].idx, {i \in DOMAIN m : m[i] = q})
  BY DEF IsTrie, NodesOf, NodeExact
<1>2. \A q \in DOMAIN t : Range(t[q].idx) = {i \in DOMAIN m : m[i] = q}
  BY <1>1 DEF Enumerates, ToSet, Range
<1>3. \A q \in DOMAIN t : IsPrefix(p, q) <=> Begins(p, q)
  BY <1>1, BeginsFacts
<1>4. AllIndices(t, p) = UNION {{i \in DOMAIN m : m[i] = q} : q \in {q \in DOMAIN t : Begins(p, q)}}
  BY <1>2, <1>3 DEF AllIndices
<1>5. \A i \in DOMAIN m : m[i] \in DOMAIN t
  <2>1. Ends(m) \subseteq DOMAIN t
    BY EndsFacts
  <2> QED
    BY <2>1 DEF Ends
<1>6. ASSUME NEW i
      PROVE  i \in AllIndices(t, p) <=> i \in Passing(m, p)
  BY <1>4, <1>5 DEF Passing
<1> QED
  BY <1>6

(* prefix_groups looks at the same nodes.                                  *)
LEMMA GroupedNodes ==
    ASSUME IInv
    PROVE  Maximal({p \in DOMAIN disp.trie : Cardinality(AllIndices(disp.trie, p)) >= 2}, MinDepth) = Tops
<1>1. PICK t, S : t = disp.trie /\ S = {p \in DOMAIN t : Cardinality(AllIndices(t, p)) >= 2}
  BY Zenon
<1>2. PICK m : m = PathsIn(disp.info)
  BY Zenon
<1>3. IsTrie(t, m, Nat) /\ OwnIndex(disp.info) /\ MinDepth \in Nat
  BY <1>1, <1>2, DispatcherAssumption DEF IInv, DispExact, IndexExact
<1>4. PathsOf(m, Nat) /\ DOMAIN t = NodesOf(m, Nat) /\ DOMAIN t \subseteq Seq(Nat)
  BY <1>3 DEF IsTrie, NodesOf
<1>5. \A p \in DOMAIN t : AllIndices(t, p) = Passing(m, p)
  BY <1>3, AllIndicesAre
<1>6. \A p : IsFiniteSet(Passing(m, p)) /\ Cardinality(Passing(m, p)) \in Nat
  <2>1. \A p : Passing(m, p) \subseteq DOMAIN m
    BY DEF Passing
  <2>2. IsFiniteSet(DOMAIN m)
    BY <1>4 DEF PathsOf
  <2> QED
    BY <2>1, <2>2, FS_Subset, FS_CardinalityType
<1>7. \A p : p \in S <=> p \in DOMAIN t /\ Cardinality(Passing(m, p)) >= 2
  BY <1>1, <1>5
<1>8. ASSUME NEW p \in S, NEW q \in Seq(Nat), Begins(q, p), Len(q) >= MinDepth PROVE q \in S
  <2>1. p \in DOMAIN t /\ Cardinality(Passing(m, p)) >= 2
    BY <1>7
  <2>2. q \in DOMAIN t /\ Passing(m, p) \subseteq Passing(m, q)
    BY <1>4, <1>8, <2>1, NodesClosed
  <2>3. Cardinality(Passing(m, p)) <= Cardinality(Passing(m, q))
    BY <1>6, <2>2, FS_Subset
  <2>4. Cardinality(Passing(m, q)) >= 2
    BY <1>6, <2>1, <2>3
  <2> QED
    BY <1>7, <2>2, <2>4
<1>9. S \in SUBSET Seq(Nat)
  BY <1>4, <1>7
<1>10. Maximal(S, MinDepth) = {p \in S : Len(p) = MinDepth}
  BY <1>3, <1>8, <1>9, MaximalFacts
<1>11. ASSUME NEW p \in DOMAIN t
       PROVE  Cardinality(Passing(m, p)) >= 2 <=> \E r, o \in Under(p) : r # o
  <2>1. Passing(m, p) = {disp.info[r] : r \in Under(p)} /\ Under(p) \subseteq DOMAIN disp.info
    BY <1>2, <1>3, <1>4, PassingUnder
  <2>2. IsFiniteSet(Under(p)) /\ Cardinality(Passing(m, p)) = Cardinality(Under(p))
    BY <1>3, <2>1, AsManyIndices
  <2> QED
    BY <2>2, TwoOrMore
<1>12. {p \in S : Len(p) = MinDepth} = Tops
  BY <1>1, <1>7, <1>11 DEF Tops
<1> QED
  BY <1>1, <1>10, <1>12

(* The groups it returns are the largest that share that much.             *)
LEMMA GroupsExact ==
    ASSUME IInv
    PROVE  {g[2] : g \in PrefixGroups(disp.trie, MinDepth)}
             = {{disp.info[o] : o \in Under(Prefix(r))} : r \in Shared}
<1>1. PICK t, G : t = disp.trie /\ G = PrefixGroups(t, MinDepth)
  BY Zenon
<1>2. G = {<<p, AllIndices(t, p)>> : p \in Tops}
  BY <1>1, GroupedNodes DEF PrefixGroups
<1>3. PICK m : m = PathsIn(disp.info)
  BY Zenon
<1>4. IsTrie(t, m, Nat) /\ OwnIndex(disp.info)
  BY <1>1, <1>3 DEF IInv, DispExact, IndexExact
<1>5. ASSUME NEW p \in Tops PROVE AllIndices(t, p) = {disp.info[o] : o \in Under(p)}
  <2>1. p \in DOMAIN t /\ p \in Seq(Nat)
    BY <1>1, <1>4 DEF Tops, IsTrie, NodesOf
  <2>2. AllIndices(t, p) = Passing(m, p)
    BY <1>4, <2>1, AllIndicesAre
  <2> QED
    BY <1>3, <1>4, <2>1, <2>2, PassingUnder
<1>6. {g[2] : g \in G} = {AllIndices(t, p) : p \in Tops}
  <2>1. PICK A : A = [p \in Tops |-> AllIndices(t, p)]
    BY Zenon
  <2>2. G = {<<p, A[p]>> : p \in Tops} /\ {AllIndices(t, p) : p \in Tops} = {A[p] : p \in Tops}
    BY <1>2, <2>1
  <2>3. \A p \in Tops : <<p, A[p]>> \in G /\ <<p, A[p]>>[2] = A[p]
    BY <2>2
  <2>4. \A g \in G : \E p \in Tops : g[2] = A[p]
    BY <2>2, <2>3
  <2>5. ASSUME NEW x PROVE x \in {g[2] : g \in G} <=> x \in {A[p] : p \in Tops}
    <3>1. ASSUME NEW p \in Tops, x = A[p] PROVE \E g \in G : x = g[2]
      <4>1. PICK g : g = <<p, A[p]>>
        BY Zenon
      <4>2. g \in G /\ g[2] = A[p]
        BY <2>3, <4>1
      <4> QED
        BY <3>1, <4>2
    <3> QED
      BY <2>4, <3>1
  <2> QED
    BY <2>2, <2>5
<1>7. Tops = {Prefix(r) : r \in Shared}
  BY TopsFacts
<1>8. {AllIndices(t, p) : p \in Tops} = {{disp.info[o] : o \in Under(Prefix(r))} : r \in Shared}
  <2>1. \A r \in Shared : AllIndices(t, Prefix(r)) = {disp.info[o] : o \in Under(Prefix(r))}
    BY <1>5, <1>7
  <2>2. {AllIndices(t, p) : p \in Tops} = {AllIndices(t, Prefix(r)) : r \in Shared}
    BY <1>7
  <2> QED
    BY <2>1, <2>2
<1> QED
  BY <1>1, <1>6, <1>8

-----------------------------------------------------------------------------
(* reorder_for_prefix_sharing.                                             *)

(* One prompt after the other is inserted.                                 *)
Builds(seqs, after) ==
    after = [n \in 0..Len(seqs) |-> IF n = 0 THEN EmptyTrie ELSE InsertPrompt(after[n - 1], seqs[n], n)]

(* build, with its recursion by name.                                      *)
LEMMA BuildUnfolds ==
    ASSUME NEW seqs
    PROVE  BuildTrie(seqs) = (CHOOSE after : Builds(seqs, after))[Len(seqs)]
BY Zenon DEF BuildTrie, Builds

(* The recursion of build defines a function.                              *)
LEMMA BuildsDefined ==
    ASSUME NEW seqs, Len(seqs) \in Nat
    PROVE  \E after : Builds(seqs, after)
<1>1. PICK n : n = Len(seqs)
  BY Zenon
<1>2. PICK G : G = {i \in 0..n : \E f : f = [j \in 0..i |->
                      IF j = 0 THEN EmptyTrie ELSE InsertPrompt(f[j - 1], seqs[j], j)]}
  BY Zenon
<1>3. 0 \in G
  <2>1. PICK f : f = [j \in 0..0 |-> EmptyTrie]
    BY Zenon
  <2>2. f = [j \in 0..0 |-> IF j = 0 THEN EmptyTrie ELSE InsertPrompt(f[j - 1], seqs[j], j)]
    BY <2>1
  <2> QED
    BY <1>1, <1>2, <2>2
<1>4. ASSUME NEW i \in 1..n, i - 1 \in G PROVE i \in G
  <2>1. PICK f : f = [j \in 0..(i - 1) |->
                        IF j = 0 THEN EmptyTrie ELSE InsertPrompt(f[j - 1], seqs[j], j)]
    BY <1>2, <1>4
  <2>2. PICK g : g = [j \in 0..i |-> IF j < i THEN f[j] ELSE InsertPrompt(f[i - 1], seqs[i], i)]
    BY Zenon
  <2>3. ASSUME NEW j \in 0..i PROVE g[j] = IF j = 0 THEN EmptyTrie ELSE InsertPrompt(g[j - 1], seqs[j], j)
    <3>1. g[0] = f[0] /\ \A k \in 0..(i - 1) : g[k] = f[k]
      BY <2>2
    <3>2. CASE j = 0
      <4>1. f[0] = EmptyTrie
        BY <2>1
      <4> QED
        BY <3>1, <3>2, <4>1
    <3>3. CASE j # 0 /\ j < i
      <4>1. j \in 0..(i - 1) /\ j - 1 \in 0..(i - 1)
        BY <3>3
      <4>2. f[j] = IF j = 0 THEN EmptyTrie ELSE InsertPrompt(f[j - 1], seqs[j], j)
        BY <2>1, <4>1
      <4>3. g[j] = f[j] /\ g[j - 1] = f[j - 1]
        BY <3>1, <4>1
      <4> QED
        BY <3>3, <4>2, <4>3
    <3>4. CASE j = i
      <4>1. g[i] = InsertPrompt(f[i - 1], seqs[i], i) /\ g[i - 1] = f[i - 1]
        BY <2>2, <3>1
      <4> QED
        BY <3>4, <4>1
    <3> QED
      BY <3>2, <3>3, <3>4
  <2>4. g = [j \in 0..i |-> IF j = 0 THEN EmptyTrie ELSE InsertPrompt(g[j - 1], seqs[j], j)]
    BY <2>2, <2>3
  <2>5. i \in 0..n
    BY <1>1
  <2> QED
    BY <1>2, <2>4, <2>5
<1>5. \A i \in 0..n : i \in G
  BY <1>1, <1>3, <1>4, UpFromZero
<1>6. n \in 0..n
  BY <1>1
<1> QED
  BY <1>1, <1>2, <1>5, <1>6 DEF Builds

(* The paths of the first n of these prompts.                              *)
FirstPaths(seqs, n) == [i \in 1..n |-> PathOf(seqs[i])]

(* build makes the trie of the paths of the prompts.                       *)
LEMMA BuiltIsTrie ==
    ASSUME NEW K, NEW seqs \in Seq(Seq(K))
    PROVE  IsTrie(BuildTrie(seqs), FirstPaths(seqs, Len(seqs)), K)
<1>1. PICK n : n = Len(seqs)
  BY Zenon
<1>2. n \in Nat /\ \A i \in 1..n : seqs[i] \in Seq(K)
  BY <1>1
<1>3. PICK a : Builds(seqs, a) /\ BuildTrie(seqs) = a[n]
  <2>1. \E after : Builds(seqs, after)
    BY <1>1, <1>2, BuildsDefined
  <2>2. PICK a : a = CHOOSE after : Builds(seqs, after)
    BY Zenon
  <2> QED
    BY <1>1, <2>1, <2>2, BuildUnfolds
<1>4. a[0] = EmptyTrie /\ \A i \in 1..n : a[i] = InsertPrompt(a[i - 1], seqs[i], i)
  <2>1. a = [i \in 0..n |-> IF i = 0 THEN EmptyTrie ELSE InsertPrompt(a[i - 1], seqs[i], i)]
    BY <1>1, <1>3, Zenon DEF Builds
  <2>2. 0 \in 0..n /\ \A i \in 1..n : i \in 0..n /\ i # 0
    BY <1>2
  <2>3. \A i \in 0..n : a[i] = IF i = 0 THEN EmptyTrie ELSE InsertPrompt(a[i - 1], seqs[i], i)
    BY <2>1
  <2> QED
    BY <2>2, <2>3
<1>5. PICK G : G = {i \in 0..n : IsTrie(a[i], FirstPaths(seqs, i), K)}
  BY Zenon
<1>6. 0 \in G
  <2>1. DOMAIN FirstPaths(seqs, 0) = {}
    BY DEF FirstPaths
  <2>2. IsTrie(a[0], FirstPaths(seqs, 0), K)
    BY <1>4, <2>1, EmptyIsTrie
  <2> QED
    BY <1>2, <1>5, <2>2
<1>7. ASSUME NEW i \in 1..n, i - 1 \in G PROVE i \in G
  <2>1. PICK m, g, path : m = FirstPaths(seqs, i - 1) /\ g = FirstPaths(seqs, i) /\ path = PathOf(seqs[i])
    BY Zenon
  <2>2. DOMAIN m = 1..(i - 1) /\ DOMAIN g = 1..i /\ i \notin DOMAIN m
    BY <1>2, <2>1 DEF FirstPaths
  <2>3. Grown(m, i, path, g)
    <3>1. 1..i = 1..(i - 1) \cup {i}
      BY <1>2
    <3> QED
      BY <2>1, <2>2, <3>1 DEF FirstPaths, Grown
  <2>4. IsTrie(a[i - 1], m, K) /\ seqs[i] \in Seq(K)
    BY <1>2, <1>5, <1>7, <2>1
  <2>5. IsTrie(InsertPrompt(a[i - 1], seqs[i], i), g, K)
    BY <2>1, <2>2, <2>3, <2>4, InsertIsTrie
  <2>6. i \in 0..n
    BY <1>2
  <2> QED
    BY <1>4, <1>5, <2>1, <2>5, <2>6
<1>8. n \in G
  <2>1. \A i \in 0..n : i \in G
    BY <1>2, <1>6, <1>7, UpFromZero
  <2> QED
    BY <1>2, <2>1
<1> QED
  BY <1>1, <1>3, <1>5, <1>8

(* The pending prompts, each once, in the order they came.                 *)
LEMMA PromptsFacts ==
    ASSUME IInv
    PROVE  \E rs : /\ Enumerates(rs, Pending) /\ PendingPrompts = [i \in DOMAIN rs |-> Prompt[rs[i]]]
                   /\ PendingPrompts \in Seq(Seq(Nat)) /\ DOMAIN PendingPrompts = DOMAIN rs
<1>1. PICK R, rs : /\ R = {p \in Pending \X Pending : disp.info[p[1]] < disp.info[p[2]]}
                   /\ rs = InOrder(Pending, R)
  BY Zenon
<1>2. /\ OwnIndex(disp.info) /\ disp.next \in Nat \ {0}
      /\ \A r \in Pending : disp.info[r] \in 1..(disp.next - 1)
  BY DEF IInv, DispExact, IndexExact, Pending
<1>3. Orders(R, Pending)
  <2>1. \A r \in Pending : disp.info[r] \in Int
    BY <1>2
  <2>2. \A r, o \in Pending : <<r, o>> \in R <=> disp.info[r] < disp.info[o]
    BY <1>1
  <2>3. \A r, o \in Pending : disp.info[r] = disp.info[o] => r = o
    BY <1>2 DEF OwnIndex, Pending
  <2> QED
    BY <2>1, <2>2, <2>3 DEF Orders
<1>4. IsFiniteSet(Pending)
  BY <1>2, PathsFacts DEF Pending
<1>5. Enumerates(rs, Pending)
  BY <1>1, <1>3, <1>4, EnumInOrder
<1>6. PendingPrompts = [i \in DOMAIN rs |-> Prompt[rs[i]]]
  BY <1>1 DEF PendingPrompts
<1>7. DOMAIN rs = 1..Len(rs) /\ Len(rs) \in Nat /\ \A i \in 1..Len(rs) : rs[i] \in Pending
  BY <1>5, EnumFacts
<1>8. \A r \in Pending : Prompt[r] \in Seq(Nat)
  BY <1>2, KeyFacts DEF OwnIndex, Pending
<1>9. PendingPrompts \in [1..Len(rs) -> Seq(Nat)]
  BY <1>6, <1>7, <1>8
<1>10. PendingPrompts \in Seq(Seq(Nat)) /\ DOMAIN PendingPrompts = DOMAIN rs
  BY <1>6, <1>7, <1>9, SeqIntro
<1> QED
  BY <1>5, <1>6, <1>10

(* A reordering keeps the order or takes that of the trie.                 *)
LEMMA ReorderedIs ==
    ASSUME NEW seqs, NEW d, NEW a, NEW u, u = ReorderForPrefixSharing(seqs, d, a)
    PROVE  u = [i \in DOMAIN seqs |-> i] \/ u = DfsOrder(BuildTrie(seqs), TRUE)
BY Zenon DEF ReorderForPrefixSharing

(* A permutation; one that is not the identity keeps sharers of a          *)
(* beginning of a prompt together.                                         *)
ReorderedWell(seqs, u) ==
    /\ IsInjective(u) /\ Range(u) = DOMAIN seqs
    /\ u # [i \in DOMAIN seqs |-> i] =>
          \A j \in DOMAIN seqs : \A p \in Along(PathOf(seqs[j])) :
             Contiguous(u, {i \in DOMAIN seqs : IsPrefix(p, PathOf(seqs[i]))})

(* Every reordering is such a one.                                         *)
LEMMA ReorderedExact ==
    ASSUME NEW seqs \in Seq(Seq(Nat)), NEW d, NEW a, NEW u, u = ReorderForPrefixSharing(seqs, d, a)
    PROVE  ReorderedWell(seqs, u)
<1>1. CASE u = [i \in DOMAIN seqs |-> i]
  <2>1. IsInjective(u)
    BY <1>1 DEF IsInjective
  <2>2. Range(u) = DOMAIN seqs
    <3>1. DOMAIN u = DOMAIN seqs /\ \A i \in DOMAIN seqs : u[i] = i
      BY <1>1
    <3>2. \A x : x \in Range(u) <=> \E i \in DOMAIN seqs : x = u[i]
      BY <3>1, Zenon DEF Range
    <3> QED
      BY <3>1, <3>2
  <2> QED
    BY <1>1, <2>1, <2>2 DEF ReorderedWell
<1>2. CASE u = DfsOrder(BuildTrie(seqs), TRUE)
  <2>1. PICK t, n, m : t = BuildTrie(seqs) /\ n = Len(seqs) /\ m = FirstPaths(seqs, n)
    BY Zenon
  <2>2. IsTrie(t, m, Nat)
    BY <2>1, BuiltIsTrie
  <2>3. Enumerates(u, DOMAIN m) /\ \A r \in DOMAIN t : Together(u, Passing(m, r))
    <3>1. PICK w : w = DfsOrder(t, TRUE)
      BY Zenon
    <3>2. Enumerates(w, DOMAIN m) /\ \A r \in DOMAIN t : Together(w, Passing(m, r))
      BY <2>2, <3>1, OrderFacts
    <3> QED
      BY <1>2, <2>1, <3>1, <3>2
  <2>4. DOMAIN m = DOMAIN seqs /\ \A i \in DOMAIN m : m[i] = PathOf(seqs[i])
    BY <2>1 DEF FirstPaths
  <2>5. u \in Seq(DOMAIN m) /\ IsInjective(u) /\ Range(u) = DOMAIN seqs
    BY <2>3, <2>4 DEF Enumerates, ToSet, Range
  <2>6. ASSUME NEW j \in DOMAIN seqs, NEW p \in Along(PathOf(seqs[j]))
        PROVE  Contiguous(u, {i \in DOMAIN seqs : IsPrefix(p, PathOf(seqs[i]))})
    <3>1. \A i \in DOMAIN seqs : PathOf(seqs[i]) \in Seq(Nat)
      <4>1. \A i \in DOMAIN seqs : seqs[i] \in Seq(Nat)
        OBVIOUS
      <4> QED
        BY <4>1, PathOfFacts
    <3>2. p \in Seq(Nat) /\ p # <<>> /\ Begins(p, PathOf(seqs[j]))
      BY <3>1, AlongFacts
    <3>3. \A i \in DOMAIN seqs : IsPrefix(p, PathOf(seqs[i])) <=> Begins(p, PathOf(seqs[i]))
      BY <3>1, <3>2, BeginsFacts
    <3>4. {i \in DOMAIN seqs : IsPrefix(p, PathOf(seqs[i]))} = Passing(m, p)
      BY <2>4, <3>3 DEF Passing
    <3>5. p \in DOMAIN t
      <4>1. j \in Passing(m, p)
        BY <2>4, <3>2 DEF Passing
      <4> QED
        BY <2>2, <3>2, <4>1 DEF IsTrie, NodesOf
    <3>6. Together(u, Passing(m, p))
      BY <2>3, <3>5
    <3> QED
      BY <2>5, <3>4, <3>6, TogetherContiguous
  <2> QED
    BY <2>5, <2>6 DEF ReorderedWell
<1> QED
  BY <1>1, <1>2, ReorderedIs

(* Every beginning of a pending prompt is one of a prompt in the list.     *)
LEMMA PromptsReordered ==
    ASSUME IInv, NEW seqs, seqs = PendingPrompts, NEW u,
           u = ReorderForPrefixSharing(seqs, MinDepth, MinDepth)
    PROVE  /\ IsInjective(u) /\ Range(u) = DOMAIN seqs
           /\ u # [i \in DOMAIN seqs |-> i] =>
                 \A p \in PendingPaths :
                    Contiguous(u, {i \in DOMAIN seqs : IsPrefix(p, PathOf(seqs[i]))})
<1>1. PICK rs : /\ Enumerates(rs, Pending) /\ seqs = [i \in DOMAIN rs |-> Prompt[rs[i]]]
                /\ seqs \in Seq(Seq(Nat)) /\ DOMAIN seqs = DOMAIN rs
  BY PromptsFacts
<1>2. ReorderedWell(seqs, u)
  BY <1>1, ReorderedExact
<1>3. ASSUME NEW p \in PendingPaths PROVE \E j \in DOMAIN seqs : p \in Along(PathOf(seqs[j]))
  <2>1. PICK r \in Pending : p \in Along(Key(r))
    BY DEF PendingPaths
  <2>2. PICK j \in DOMAIN rs : rs[j] = r
    <3>1. \A x \in Pending : \E i \in DOMAIN rs : rs[i] = x
      BY <1>1, Zenon DEF Enumerates, ToSet
    <3> QED
      BY <3>1
  <2>3. PathOf(seqs[j]) = Key(r)
    BY <1>1, <2>2 DEF Key
  <2> QED
    BY <1>1, <2>1, <2>2, <2>3
<1> QED
  BY <1>2, <1>3 DEF ReorderedWell

(* The answers are exact for every exact trie.                             *)
LEMMA QueriesFromInv == IInv => QueriesExact
<1> SUFFICES ASSUME IInv PROVE QueriesExact
  OBVIOUS
<1>1. \A aware \in BOOLEAN : TraversalExact(aware)
  BY TraversalsExact
<1>2. /\ SharingScore(disp.trie, MinDepth).grouped = Cardinality(Shared)
      /\ SharingScore(disp.trie, MinDepth).depths
           >= MinDepth * SharingScore(disp.trie, MinDepth).grouped
  BY ScoreExact
<1>3. {g[2] : g \in PrefixGroups(disp.trie, MinDepth)}
        = {{disp.info[o] : o \in Under(Prefix(r))} : r \in Shared}
  BY GroupsExact
<1>4. PICK u : u = ReorderForPrefixSharing(PendingPrompts, MinDepth, MinDepth)
  BY Zenon
<1>5. /\ IsInjective(u) /\ Range(u) = DOMAIN PendingPrompts
      /\ u # [i \in DOMAIN PendingPrompts |-> i] =>
            \A p \in PendingPaths :
               Contiguous(u, {i \in DOMAIN PendingPrompts : IsPrefix(p, PathOf(PendingPrompts[i]))})
  BY <1>4, PromptsReordered
<1>6. Shared = {r \in Pending : \E o \in Pending \ {r} :
                  /\ Len(Key(r)) >= MinDepth /\ Len(Key(o)) >= MinDepth
                  /\ SubSeq(Key(r), 1, MinDepth) = SubSeq(Key(o), 1, MinDepth)}
  BY DEF Shared, Long, Prefix
<1> QED
  BY <1>1, <1>2, <1>3, <1>4, <1>5, <1>6, Zenon DEF QueriesExact, TraversalExact, Prefix

(* dfs_order, sharing_score, prefix_groups and reorder_for_prefix_sharing  *)
(* answer exactly, on every trie the dispatcher can have: QueriesExact.    *)
THEOREM QueriesSound == Spec => []QueriesExact
BY InvariantHolds, QueriesFromInv, PTL
==============================================================================
