------------------------------ MODULE HookProofs ------------------------------
(***************************************************************************)
(* The two online hooks, for any finite set of request ids and any token   *)
(* sequences: first what _intern and _sync preserve, which both use; then  *)
(* SglangHook; then VllmHook, for any block hash chains. The bookkeeping   *)
(* and the demand index are exact whatever ids the client uses; the fast   *)
(* path of _sync is sound when ids do not come back unseen.                *)
(***************************************************************************)
EXTENDS SglangHook, VllmHook, FiniteSetTheorems, WellFoundedInduction, TLAPS

-----------------------------------------------------------------------------
(* What _intern and _sync preserve.                                        *)

(* _intern numbers the rids R above the counter, each rid once, and the    *)
(* reverse map leads back.                                                 *)
LEMMA NumberingFacts ==
    ASSUME counter \in Nat, NEW R, IsFiniteSet(R), NEW f \in Numberings(R)
    PROVE  /\ Cardinality(R) \in Nat
           /\ DOMAIN f = R
           /\ \A r \in R : f[r] \in (counter + 1)..(counter + Cardinality(R))
           /\ DOMAIN Names(f) = {f[r] : r \in R}
           /\ \A r \in R : Names(f)[f[r]] = r
<1>1. Cardinality(R) \in Nat
  BY FS_CardinalityType
<1>2. /\ f \in [R -> (counter + 1)..(counter + Cardinality(R))]
      /\ \A a, b \in R : f[a] = f[b] => a = b
  BY DEF Numberings, Injection, IsInjective
<1>3. DOMAIN Names(f) = {f[r] : r \in R}
  BY <1>2 DEF Names, AntiFunction, Inverse, Range
<1>4. ASSUME NEW r \in R PROVE Names(f)[f[r]] = r
  <2>1. Names(f)[f[r]] = CHOOSE s \in R : f[r] \in Range(f) => f[s] = f[r]
    BY <1>2 DEF Names, AntiFunction, Inverse, Range
  <2>2. f[r] \in Range(f)
    BY <1>2 DEF Range
  <2>3. \A s \in R : (f[r] \in Range(f) => f[s] = f[r]) <=> s = r
    BY <1>2, <2>2
  <2> QED
    BY <2>1, <2>3
<1> QED
  BY <1>1, <1>2, <1>3, <1>4

-----------------------------------------------------------------------------
(* int and name are rid_interner and rid_unintern extended by the rids R:  *)
(* still inverse to each other, still below the counter, nothing moved.    *)
Extended(int, name, R, n) ==
    /\ DOMAIN int = DOMAIN rid_interner \cup R
    /\ \A r \in DOMAIN int :
          int[r] \in 1..(counter + n) /\ int[r] \in DOMAIN name /\ name[int[r]] = r
    /\ \A i \in DOMAIN name :
          i \in 1..(counter + n) /\ name[i] \in DOMAIN int /\ int[name[i]] = i
    /\ \A i \in DOMAIN rid_unintern : i \in DOMAIN name /\ name[i] = rid_unintern[i]
    /\ \A r \in DOMAIN rid_interner : int[r] = rid_interner[r]

(* Numbering the new requests of a queue (_intern) keeps the two interner  *)
(* maps inverse, changes no old entry and uses numbers above the counter.  *)
LEMMA InternExtends ==
    ASSUME counter \in Nat, InternerInverse, NEW R, IsFiniteSet(R),
           NEW f \in Numberings(R \ DOMAIN rid_interner)
    PROVE  /\ Cardinality(R \ DOMAIN rid_interner) \in Nat
           /\ Extended(Override(rid_interner, f), Override(rid_unintern, Names(f)),
                       R, Cardinality(R \ DOMAIN rid_interner))
<1> DEFINE new  == R \ DOMAIN rid_interner
           n    == Cardinality(new)
           int  == Override(rid_interner, f)
           name == Override(rid_unintern, Names(f))
<1>1. IsFiniteSet(new)
  BY FS_Subset, new \subseteq R
<1>2. /\ n \in Nat
      /\ DOMAIN f = new
      /\ \A r \in new : f[r] \in (counter + 1)..(counter + n)
      /\ DOMAIN Names(f) = {f[r] : r \in new}
      /\ \A r \in new : Names(f)[f[r]] = r
  BY <1>1, NumberingFacts
<1> HIDE DEF n
<1>3. \A i \in DOMAIN rid_unintern : i \in 1..counter
  BY DEF InternerInverse
<1>4. DOMAIN rid_unintern \cap DOMAIN Names(f) = {}
  BY <1>2, <1>3
<1>5. /\ DOMAIN int = DOMAIN rid_interner \cup R
      /\ \A r \in DOMAIN rid_interner : int[r] = rid_interner[r]
      /\ \A r \in new : int[r] = f[r]
  BY <1>2 DEF Override
<1>6. /\ DOMAIN name = DOMAIN rid_unintern \cup DOMAIN Names(f)
      /\ \A i \in DOMAIN rid_unintern : name[i] = rid_unintern[i]
      /\ \A i \in DOMAIN Names(f) : name[i] = Names(f)[i]
  BY <1>4 DEF Override
<1>7. ASSUME NEW r \in DOMAIN int
      PROVE  int[r] \in 1..(counter + n) /\ int[r] \in DOMAIN name /\ name[int[r]] = r
  <2>1. CASE r \in DOMAIN rid_interner
    BY <2>1, <1>2, <1>3, <1>5, <1>6 DEF InternerInverse
  <2>2. CASE r \in new
    BY <2>2, <1>2, <1>5, <1>6
  <2> QED
    BY <2>1, <2>2, <1>5
<1>8. ASSUME NEW i \in DOMAIN name
      PROVE  i \in 1..(counter + n) /\ name[i] \in DOMAIN int /\ int[name[i]] = i
  <2>1. CASE i \in DOMAIN rid_unintern
    BY <2>1, <1>2, <1>3, <1>5, <1>6 DEF InternerInverse
  <2>2. CASE i \in DOMAIN Names(f)
    BY <2>2, <1>2, <1>5, <1>6
  <2> QED
    BY <2>1, <2>2, <1>6
<1> QED
  BY <1>2, <1>5, <1>6, <1>7, <1>8 DEF Extended, n

(* A slow sync preserves the core invariant and leaves exactly the queue w *)
(* tracked: what was tracked keeps its tokens, the rest gets those of w.   *)
LEMMA SyncToStep ==
    ASSUME CoreInv, NEW w, DOMAIN w \subseteq Rid, \A r \in DOMAIN w : w[r] \in Content,
           NEW int, NEW name, NEW n \in Nat,
           Extended(int, name, DOMAIN w, n), SyncTo(w, int, name), counter' = counter + n
    PROVE  /\ CoreInv'
           /\ last_rids' = DOMAIN w
           /\ \A r \in DOMAIN w :
                 /\ r \in DOMAIN rid_interner' /\ rid_interner'[r] \in seen'
                 /\ tree'[rid_interner'[r]] =
                      IF r \in DOMAIN rid_interner /\ rid_interner[r] \in seen
                      THEN tree[rid_interner[r]] ELSE w[r]
           /\ InternerPruned => InternerPruned'
<1> DEFINE current == {int[r] : r \in DOMAIN w}
           gone    == seen \ current
           left    == {name[i] : i \in gone}
<1>1. /\ HookTypeOK /\ InternerInverse /\ TreeIsSeen /\ PhasesMatch /\ SeenWereQueued
  BY DEF CoreInv
<1>2. /\ DOMAIN tree' = current
      /\ \A i \in current : tree'[i] = IF i \in seen THEN tree[i] ELSE w[name[i]]
  BY <1>1 DEF SyncTo, Tracked, TreeIsSeen
<1>3. /\ seen' = current
      /\ last_rids' = DOMAIN w
      /\ rid_interner' = [r \in DOMAIN int \ left |-> int[r]]
      /\ rid_unintern' = [i \in DOMAIN name \ gone |-> name[i]]
      /\ phase' = PhaseAfter({r \in DOMAIN w : int[r] \notin seen}, last_rids \ DOMAIN w)
  BY DEF SyncTo, Drop, Restrict, Forgotten
<1>4. seen \subseteq DOMAIN name
  BY <1>1 DEF Extended, TreeIsSeen
<1>5. current \subseteq DOMAIN name \ gone /\ left \cap DOMAIN w = {}
  BY <1>4 DEF Extended
<1>6. InternerInverse'
  BY <1>1, <1>3, <1>4 DEF InternerInverse, Extended, HookTypeOK
<1>7. TreeIsSeen'
  BY <1>2, <1>3, <1>5 DEF TreeIsSeen
<1>8. SeenWereQueued'
  BY <1>3, <1>5 DEF SeenWereQueued, Extended
<1>9. HookTypeOK'
  <2>1. DOMAIN int \subseteq Rid
    BY <1>1 DEF Extended, HookTypeOK
  <2>2. /\ DOMAIN rid_interner' \subseteq Rid
        /\ \A r \in DOMAIN rid_interner' : rid_interner'[r] \in Nat
        /\ \A i \in DOMAIN rid_unintern' : i \in Nat /\ rid_unintern'[i] \in Rid
    BY <1>1, <1>3, <2>1 DEF Extended, HookTypeOK
  <2>3. counter' \in Nat /\ seen' \subseteq Nat /\ last_rids' \subseteq Rid
    BY <1>1, <1>3 DEF Extended, HookTypeOK
  <2>4. \A i \in DOMAIN tree' : tree'[i] \in Content
    BY <1>1, <1>2 DEF Extended, HookTypeOK, TreeIsSeen
  <2>5. phase' \in [Rid -> {"none", "waiting", "picked"}]
    BY <1>1, <1>3 DEF PhaseAfter, HookTypeOK
  <2> QED
    BY <2>2, <2>3, <2>4, <2>5 DEF HookTypeOK
<1>10. PhasesMatch'
  <2>1. ASSUME NEW r \in DOMAIN w, int[r] \in seen PROVE r \in last_rids
    BY <1>1, <2>1 DEF SeenWereQueued, TreeIsSeen, Extended
  <2>2. \A r \in Rid : phase'[r] = "waiting" <=> r \in DOMAIN w
    BY <1>1, <1>3, <2>1 DEF PhaseAfter, PhasesMatch, HookTypeOK
  <2> QED
    BY <1>3, <2>2 DEF PhasesMatch
<1>11. ASSUME NEW r \in DOMAIN w
       PROVE  /\ r \in DOMAIN rid_interner' /\ rid_interner'[r] \in seen'
              /\ tree'[rid_interner'[r]] =
                   IF r \in DOMAIN rid_interner /\ rid_interner[r] \in seen
                   THEN tree[rid_interner[r]] ELSE w[r]
  <2>1. /\ r \in DOMAIN rid_interner' /\ rid_interner'[r] = int[r]
        /\ int[r] \in current /\ name[int[r]] = r
    BY <1>3, <1>5 DEF Extended
  <2>2. tree'[int[r]] = IF int[r] \in seen THEN tree[int[r]] ELSE w[r]
    BY <1>2, <2>1
  <2>3. int[r] \in seen <=> r \in DOMAIN rid_interner /\ rid_interner[r] \in seen
    <3>1. ASSUME int[r] \in seen PROVE r \in DOMAIN rid_interner
      BY <3>1, <1>1, <2>1 DEF TreeIsSeen, InternerInverse, Extended
    <3> QED
      BY <3>1 DEF Extended
  <2>4. r \in DOMAIN rid_interner => rid_interner[r] = int[r]
    BY DEF Extended
  <2> QED
    BY <1>3, <2>1, <2>2, <2>3, <2>4
<1>12. InternerPruned => InternerPruned'
  <2>1. ASSUME InternerPruned PROVE DOMAIN name \ gone \subseteq current
    <3> SUFFICES ASSUME NEW i \in DOMAIN name, i \notin seen PROVE i \in current
      BY DEF InternerPruned
    <3>1. name[i] \in DOMAIN int /\ int[name[i]] = i
      BY DEF Extended
    <3>2. name[i] \notin DOMAIN rid_interner
      BY <2>1, <3>1 DEF Extended, InternerInverse, InternerPruned, CoreInv
    <3> QED
      BY <3>1, <3>2 DEF Extended
  <2> QED
    BY <2>1, <1>3, <1>5 DEF InternerPruned
<1> QED
  BY <1>3, <1>6, <1>7, <1>8, <1>9, <1>10, <1>11, <1>12 DEF CoreInv

-----------------------------------------------------------------------------
(* Every request of w that is in last_rids is tracked with its tokens; all *)
(* of w is.                                                                *)
Agrees(w) ==
    \A r \in last_rids \cap DOMAIN w :
       /\ r \in DOMAIN rid_interner /\ rid_interner[r] \in seen
       /\ tree[rid_interner[r]] = w[r]

AllTracked(w) ==
    \A r \in DOMAIN w :
       /\ r \in DOMAIN rid_interner /\ rid_interner[r] \in seen
       /\ tree[rid_interner[r]] = w[r]

IsQueue(w) == DOMAIN w \subseteq Rid /\ \A r \in DOMAIN w : w[r] \in Content

(* The slow path of _sync keeps the core invariant and remembers the       *)
(* queue's ids; where tree and queue agreed on what both knew, the tree    *)
(* then holds the whole queue and the interner nothing else.               *)
LEMMA SlowSyncStep ==
    ASSUME CoreInv, NEW w, IsQueue(w), SlowSync(w)
    PROVE  /\ CoreInv'
           /\ last_rids' = DOMAIN w
           /\ \A r \in DOMAIN w :
                 /\ r \in DOMAIN rid_interner' /\ rid_interner'[r] \in seen'
                 /\ Agrees(w) => tree'[rid_interner'[r]] = w[r]
           /\ InternerPruned => InternerPruned'
<1>1. PICK f \in Numberings(DOMAIN w \ DOMAIN rid_interner) :
         /\ SyncTo(w, Override(rid_interner, f), Override(rid_unintern, Names(f)))
         /\ counter' = counter + Cardinality(DOMAIN w \ DOMAIN rid_interner)
  BY DEF SlowSync, Count
<1>2. IsFiniteSet(DOMAIN w)
  BY RidFinite, FS_Subset DEF IsQueue
<1>3. counter \in Nat /\ InternerInverse
  BY DEF CoreInv, HookTypeOK
<1>4. /\ Cardinality(DOMAIN w \ DOMAIN rid_interner) \in Nat
      /\ Extended(Override(rid_interner, f), Override(rid_unintern, Names(f)),
                  DOMAIN w, Cardinality(DOMAIN w \ DOMAIN rid_interner))
  BY <1>2, <1>3, InternExtends
<1>5. /\ CoreInv'
      /\ last_rids' = DOMAIN w
      /\ \A r \in DOMAIN w :
            /\ r \in DOMAIN rid_interner' /\ rid_interner'[r] \in seen'
            /\ tree'[rid_interner'[r]] =
                 IF r \in DOMAIN rid_interner /\ rid_interner[r] \in seen
                 THEN tree[rid_interner[r]] ELSE w[r]
      /\ InternerPruned => InternerPruned'
  BY <1>1, <1>4, SyncToStep DEF IsQueue
<1>6. ASSUME NEW r \in DOMAIN w, r \in DOMAIN rid_interner, rid_interner[r] \in seen
      PROVE  r \in last_rids
  BY <1>6 DEF CoreInv, SeenWereQueued, InternerInverse
<1> QED
  BY <1>5, <1>6 DEF Agrees

(* Both paths of _sync.  The fast path is right because the queue agrees   *)
(* with what was tracked at the last sync.                                 *)
LEMMA SyncStep ==
    ASSUME CoreInv, NEW w, IsQueue(w), Sync(w)
    PROVE  /\ CoreInv'
           /\ last_rids' = DOMAIN w
           /\ Agrees(w) => AllTracked(w)'
           /\ InternerPruned => InternerPruned'
<1>1. CASE SameRids(w)
  BY <1>1 DEF Sync, SameRids, syncVars, CoreInv, HookTypeOK, InternerInverse, TreeIsSeen,
              PhasesMatch, SeenWereQueued, Agrees, AllTracked, InternerPruned
<1>2. CASE ~SameRids(w)
  <2>1. SlowSync(w)
    BY <1>2 DEF Sync
  <2> QED
    BY <2>1, SlowSyncStep DEF AllTracked
<1> QED
  BY <1>1, <1>2

(* Interning outside a sync, as the two priority functions do.             *)
LEMMA InternOnlyStep ==
    ASSUME CoreInv, NEW R \in SUBSET Rid, InternOnly(R)
    PROVE  /\ CoreInv'
           /\ UNCHANGED <<seen, last_rids, tree, phase>>
           /\ \A r \in DOMAIN rid_interner :
                 r \in DOMAIN rid_interner' /\ rid_interner'[r] = rid_interner[r]
           /\ R \subseteq DOMAIN rid_interner => (InternerPruned => InternerPruned')
<1>1. PICK f \in Numberings(R \ DOMAIN rid_interner) :
         /\ rid_interner' = Override(rid_interner, f)
         /\ rid_unintern' = Override(rid_unintern, Names(f))
         /\ counter' = counter + Cardinality(R \ DOMAIN rid_interner)
         /\ UNCHANGED <<seen, last_rids, tree, phase>>
  BY DEF InternOnly, Count
<1>2. IsFiniteSet(R)
  BY RidFinite, FS_Subset
<1>3. counter \in Nat /\ InternerInverse
  BY DEF CoreInv, HookTypeOK
<1>4. /\ Cardinality(R \ DOMAIN rid_interner) \in Nat
      /\ Extended(rid_interner', rid_unintern', R, Cardinality(R \ DOMAIN rid_interner))
  BY <1>1, <1>2, <1>3, InternExtends
<1>5. InternerInverse'
  BY <1>1, <1>4 DEF Extended, InternerInverse
<1>6. HookTypeOK'
  BY <1>1, <1>3, <1>4 DEF Extended, HookTypeOK, CoreInv
<1>7. TreeIsSeen' /\ PhasesMatch' /\ SeenWereQueued'
  BY <1>1, <1>4 DEF Extended, TreeIsSeen, PhasesMatch, SeenWereQueued, CoreInv
<1>8. R \subseteq DOMAIN rid_interner => (InternerPruned => InternerPruned')
  <2> SUFFICES ASSUME R \subseteq DOMAIN rid_interner, NEW i \in DOMAIN rid_unintern'
               PROVE  i \in DOMAIN rid_unintern
    BY <1>1, <1>4 DEF InternerPruned, Extended
  <2> QED
    BY <1>3, <1>4 DEF Extended, InternerInverse
<1> QED
  BY <1>1, <1>4, <1>5, <1>6, <1>7, <1>8 DEF CoreInv, Extended

(* The initial state.                                                      *)
LEMMA SyncInitCore ==
    ASSUME SyncInit
    PROVE  QueueTypeOK /\ CoreInv /\ UniqueInv /\ running \cap DOMAIN waiting = {}
BY DEF SyncInit, QueueTypeOK, CoreInv, HookTypeOK, InternerInverse, TreeIsSeen, PhasesMatch,
       SeenWereQueued, UniqueInv, InternerPruned, StillTracked

(* UniqueInv gives the soundness of the fast path.                         *)
LEMMA FastPathFromUnique ==
    ASSUME CoreInv, UniqueInv
    PROVE  FastPathSound
<1> SUFFICES ASSUME SameRids(waiting) PROVE TracksQueue
  BY DEF FastPathSound
<1>1. last_rids = DOMAIN waiting
  BY DEF SameRids
<1>2. \A r \in DOMAIN waiting :
         /\ r \in DOMAIN rid_interner /\ rid_interner[r] \in seen
         /\ tree[rid_interner[r]] = waiting[r]
  BY <1>1 DEF UniqueInv, StillTracked
<1>3. \A i \in seen : \E r \in DOMAIN waiting : rid_interner[r] = i
  BY <1>1 DEF CoreInv, SeenWereQueued, TreeIsSeen, InternerInverse
<1> QED
  BY <1>2, <1>3 DEF TracksQueue

(* The engine never has a request both waiting and running.                *)
Disjoint == running \cap DOMAIN waiting = {}

-----------------------------------------------------------------------------
(* SglangHook.                                                             *)

SglangInv == SglangTypeOK /\ CoreInv /\ Disjoint

(* A scheduling call: _sync and then the interning of calc_priority, which *)
(* happens even when the sync took its fast path.                          *)
LEMMA SyncAndRankStep ==
    ASSUME CoreInv, QueueTypeOK, SyncAndRank, NEW w, w = waiting
    PROVE  /\ CoreInv'
           /\ last_rids' = DOMAIN w
           /\ UniqueInv => AllTracked(w)' /\ InternerPruned'
<1>1. IsQueue(w) /\ DOMAIN w \in SUBSET Rid
  BY DEF IsQueue, QueueTypeOK
<1>2. UniqueInv => Agrees(w) /\ InternerPruned
  BY DEF UniqueInv, StillTracked, Agrees
<1>3. CASE Sync(w)
  BY <1>1, <1>2, <1>3, SyncStep
<1>4. CASE SameRids(w) /\ InternOnly(DOMAIN w)
  <2>1. /\ CoreInv'
        /\ UNCHANGED <<seen, last_rids, tree, phase>>
        /\ \A r \in DOMAIN rid_interner :
              r \in DOMAIN rid_interner' /\ rid_interner'[r] = rid_interner[r]
        /\ DOMAIN w \subseteq DOMAIN rid_interner => (InternerPruned => InternerPruned')
    BY <1>1, <1>4, InternOnlyStep
  <2>2. UniqueInv => AllTracked(w)
    BY <1>2, <1>4 DEF Agrees, AllTracked, SameRids
  <2> QED
    BY <1>2, <1>4, <2>1, <2>2 DEF AllTracked, SameRids
<1> QED
  BY <1>3, <1>4 DEF SyncAndRank, Sync

(* One step of the event loop.                                             *)
LEMMA SglangStep ==
    ASSUME SglangInv, [SglangNext]_sglangVars
    PROVE  /\ SglangInv'
           /\ ~ReuseIds /\ UniqueInv => UniqueInv'
<1> USE DEF SglangInv, SglangTypeOK
<1>1. ASSUME NEW aborted \in SUBSET Rid, NEW A \in SUBSET Rid, NEW added \in [A -> Content],
             ProcessInput(aborted, added)
      PROVE  SglangInv' /\ (~ReuseIds /\ UniqueInv => UniqueInv')
  <2>1. PICK w : w = waiting'
    OBVIOUS
  <2>2. /\ DOMAIN w = (DOMAIN waiting \ aborted) \cup A
        /\ \A r \in DOMAIN w : w[r] = IF r \in A THEN added[r] ELSE waiting[r]
    BY <1>1, <2>1 DEF ProcessInput, Override, Drop, Restrict
  <2>3. IsQueue(w)
    BY <2>2 DEF IsQueue, QueueTypeOK
  <2>4. Sync(w)
    BY <1>1, <2>1 DEF ProcessInput
  <2>5. /\ CoreInv'
        /\ last_rids' = DOMAIN w
        /\ Agrees(w) => AllTracked(w)'
        /\ InternerPruned => InternerPruned'
    BY <2>3, <2>4, SyncStep
  <2>6. A \cap running = {}
    BY <1>1 DEF ProcessInput, MaySubmit
  <2>7. Disjoint' /\ QueueTypeOK'
    BY <1>1, <2>1, <2>2, <2>3, <2>6 DEF ProcessInput, Disjoint, QueueTypeOK, IsQueue
  <2>8. ~ReuseIds => A \cap last_rids = {}
    BY <1>1 DEF ProcessInput, MaySubmit
  <2>9. ~ReuseIds /\ UniqueInv => Agrees(w)
    BY <2>2, <2>8 DEF UniqueInv, StillTracked, Agrees
  <2> QED
    BY <2>1, <2>5, <2>7, <2>9 DEF CoreInv, UniqueInv, StillTracked, AllTracked
<1>2. ASSUME SyncAndRank, NEW back,
             IsQueue(back), DOMAIN back \cap DOMAIN waiting = {}, QueueTypeOK', Disjoint',
             \A r \in DOMAIN waiting' : \/ r \in DOMAIN back
                                        \/ r \in DOMAIN waiting /\ waiting'[r] = waiting[r]
      PROVE  SglangInv' /\ (UniqueInv => UniqueInv')
  <2>1. PICK w : w = waiting
    OBVIOUS
  <2>2. /\ CoreInv'
        /\ last_rids' = DOMAIN w
        /\ UniqueInv => AllTracked(w)' /\ InternerPruned'
    BY <1>2, <2>1, SyncAndRankStep
  <2>3. UniqueInv => StillTracked'
    BY <1>2, <2>1, <2>2 DEF StillTracked, AllTracked
  <2> QED
    BY <1>2, <2>2, <2>3 DEF CoreInv, UniqueInv
<1>3. ASSUME NEW picked \in SUBSET Rid, GetNextBatch(picked)
      PROVE  SglangInv' /\ (UniqueInv => UniqueInv')
  <2>1. /\ DOMAIN waiting' = DOMAIN waiting \ picked
        /\ \A r \in DOMAIN waiting' : waiting'[r] = waiting[r]
        /\ running' = running \cup picked
    BY <1>3 DEF GetNextBatch, Drop, Restrict
  <2>2. QueueTypeOK' /\ Disjoint'
    BY <2>1 DEF QueueTypeOK, Disjoint
  <2>3. IsQueue([r \in {} |-> {}]) /\ DOMAIN [r \in {} |-> {}] = {}
    BY DEF IsQueue
  <2> QED
    BY <1>2, <1>3, <2>1, <2>2, <2>3 DEF GetNextBatch
<1>4. ASSUME NEW R \in SUBSET Rid, NEW back \in [R -> Content], Retract(back)
      PROVE  SglangInv' /\ (UniqueInv => UniqueInv')
  <2>1. /\ DOMAIN waiting' = DOMAIN waiting \cup R
        /\ \A r \in DOMAIN waiting' : waiting'[r] = IF r \in R THEN back[r] ELSE waiting[r]
        /\ running' = running \ R /\ R \subseteq running
    BY <1>4 DEF Retract, Override
  <2>2. QueueTypeOK' /\ Disjoint'
    BY <2>1 DEF QueueTypeOK, Disjoint
  <2>3. IsQueue(back) /\ DOMAIN back \cap DOMAIN waiting = {}
    BY <2>1 DEF IsQueue, Disjoint
  <2> QED
    BY <1>2, <1>4, <2>1, <2>2, <2>3 DEF Retract
<1>5. ASSUME NEW r \in Rid, SglangComplete(r)
      PROVE  SglangInv' /\ (UniqueInv => UniqueInv')
  BY <1>5 DEF SglangComplete, syncVars, CoreInv, HookTypeOK, QueueTypeOK, InternerInverse,
              TreeIsSeen, PhasesMatch, SeenWereQueued, Disjoint, UniqueInv, InternerPruned,
              StillTracked
<1>6. CASE UNCHANGED sglangVars
  BY <1>6 DEF sglangVars, engineVars, syncVars, CoreInv, HookTypeOK, QueueTypeOK, InternerInverse,
              TreeIsSeen, PhasesMatch, SeenWereQueued, Disjoint, UniqueInv, InternerPruned,
              StillTracked
<1> QED
  BY <1>1, <1>3, <1>4, <1>5, <1>6 DEF SglangNext

(* The hook starts empty, which satisfies both invariants.                 *)
LEMMA SglangStart == SglangInit => SglangInv /\ UniqueInv
BY SyncInitCore DEF SglangInit, SglangInv, SglangTypeOK, CoreInv, Disjoint

(* Whatever ids the client uses, every variable keeps its type.            *)
THEOREM SglangTypeCorrect == SglangSpec => []SglangTypeOK
<1>1. SglangInv => SglangTypeOK
  BY DEF SglangInv
<1> QED
  BY SglangStart, SglangStep, <1>1, PTL DEF SglangSpec

(* Whatever ids the client uses: the interner's maps stay inverse and its  *)
(* numbers fresh, the tree holds exactly the ids marked seen, and the      *)
(* phase records match the last sync.                                      *)
THEOREM SglangBookkeepingSound == SglangSpec => [](InternerInverse /\ TreeIsSeen /\ PhasesMatch)
<1>1. SglangInv => InternerInverse /\ TreeIsSeen /\ PhasesMatch
  BY DEF SglangInv, CoreInv
<1> QED
  BY SglangStart, SglangStep, <1>1, PTL DEF SglangSpec

(* When no id comes back before a sync saw it leave, skipping the work of  *)
(* _sync is right whenever its fast path is taken, and the interner keeps  *)
(* no entry for a request that left.                                       *)
THEOREM SglangFastPathCorrect ==
    ASSUME ~ReuseIds
    PROVE  SglangSpec => [](FastPathSound /\ InternerPruned)
<1>1. SglangInv /\ UniqueInv => FastPathSound /\ InternerPruned
  BY FastPathFromUnique DEF SglangInv, UniqueInv
<1>2. SglangInv /\ UniqueInv /\ [SglangNext]_sglangVars => (SglangInv /\ UniqueInv)'
  BY SglangStep
<1> QED
  BY SglangStart, <1>1, <1>2, PTL DEF SglangSpec

(* When no id comes back before a sync saw it leave, what _validate_sync   *)
(* checks holds each time process_input_requests returns.                  *)
THEOREM SglangValidateSyncHolds ==
    ASSUME ~ReuseIds
    PROVE  SglangSpec => SyncedAfterInput
<1> DEFINE I == SglangInv /\ UniqueInv
           Ok == \A aborted \in SUBSET Rid, A \in SUBSET Rid : \A added \in [A -> Content] :
                    ProcessInput(aborted, added) => TracksQueue'
<1>1. I /\ [SglangNext]_sglangVars => I'
  BY SglangStep
<1>2. I => (SameRids(waiting) => TracksQueue)
  BY FastPathFromUnique DEF SglangInv, FastPathSound
<1>3. ASSUME NEW aborted \in SUBSET Rid, NEW A \in SUBSET Rid, NEW added \in [A -> Content],
             ProcessInput(aborted, added)
      PROVE  SameRids(waiting)'
  BY <1>3 DEF ProcessInput, Sync, SameRids, SlowSync, SyncTo, syncVars
<1>4. (I => (SameRids(waiting) => TracksQueue))'
  BY <1>2, PTL
<1>5. I /\ [SglangNext]_sglangVars => [Ok]_sglangVars
  BY <1>1, <1>3, <1>4
<1> QED
  BY SglangStart, <1>1, <1>5, PTL DEF SglangSpec, SyncedAfterInput

-----------------------------------------------------------------------------
(* VllmHook.                                                               *)

(* A nonempty finite set of naturals has a greatest element: the elements  *)
(* above x form a strictly smaller set as x grows.                         *)
LEMMA FiniteMax ==
    ASSUME NEW S \in SUBSET Nat, IsFiniteSet(S), S # {}
    PROVE  \E x \in S : \A y \in S : x >= y
<1> DEFINE Above(x) == {y \in S : y > x}
           T == {Above(x) : x \in S}
<1>1. IsWellFoundedOn(StrictSubsetOrdering(S), SUBSET S)
  BY FS_StrictSubsetOrderingWellFounded, FS_FiniteSubsetsOfFinite
<1>2. T \subseteq SUBSET S /\ T # {}
  OBVIOUS
<1>3. PICK A \in T : \A B \in T : ~(<<B, A>> \in StrictSubsetOrdering(S))
  BY <1>1, <1>2, WFMin
<1>4. PICK x \in S : A = Above(x)
  OBVIOUS
<1>5. ASSUME NEW y \in S, y > x PROVE FALSE
  <2>1. Above(y) \subseteq A /\ y \in A /\ y \notin Above(y)
    <3>1. \A z \in S : z \in Nat
      OBVIOUS
    <3>2. \A z : z \in A <=> z \in S /\ z > x
      BY <1>4
    <3>3. \A z : z \in Above(y) <=> z \in S /\ z > y
      OBVIOUS
    <3> HIDE DEF Above, T
    <3>4. \A z \in S : z > y => z > x
      BY <1>5, <3>1
    <3>5. ~(y > y)
      BY <3>1
    <3> QED
      BY <1>5, <3>2, <3>3, <3>4, <3>5
  <2>2. PICK B : B = Above(y)
    OBVIOUS
  <2>3. B \in T /\ B \in SUBSET S /\ A \in SUBSET S /\ B \subseteq A /\ B # A
    BY <1>2, <2>1, <2>2
  <2> HIDE DEF T, Above
  <2>4. <<B, A>> \in StrictSubsetOrdering(S)
    BY <2>3 DEF StrictSubsetOrdering
  <2> QED
    BY <1>3, <2>3, <2>4
<1> QED
  BY <1>5
-----------------------------------------------------------------------------
(* The tracked ids are finitely many: they are numbers up to the counter.  *)
LEMMA BelowFinite ==
    ASSUME NEW c \in Nat, NEW S \in SUBSET (1..c)
    PROVE  IsFiniteSet(S)
<1>1. IsFiniteSet(1..c)
  BY c \in Int, 1 \in Int, FS_Interval
<1> QED
  BY <1>1, FS_Subset

DemandTypeOK ==
    /\ demand \in [Hash -> Nat] /\ max_depth \in [Hash -> Nat]
    /\ \A i \in DOMAIN rid_to_hashes : rid_to_hashes[i] \in Seq(Hash)

(* The demand index after the tracked ids went from seen to seen'.         *)
LEMMA DemandSyncStep ==
    ASSUME CoreInv, CoreInv', DemandTypeOK, DemandExact, DemandSync
    PROVE  /\ DemandExact'
           /\ demand' \in [Hash -> Nat]
           /\ \A i \in DOMAIN rid_to_hashes' : rid_to_hashes'[i] \in Seq(Hash)
           /\ \A i \in seen \cap seen' : rid_to_hashes'[i] = rid_to_hashes[i]
<1> DEFINE bumped  == seen' \ seen
           dropped == seen \ seen'
<1>1. DOMAIN rid_to_hashes = seen
  BY DEF DemandExact
<1>2. /\ rid_to_hashes' = [i \in seen' |-> IF i \in bumped THEN BlockHashes[tree'[i]]
                                                           ELSE rid_to_hashes[i]]
      /\ demand' = [h \in Hash |-> DemandAfter(bumped, dropped, h)]
  <2>1. (seen \ seen') \cup (bumped \cap DOMAIN rid_to_hashes) = dropped
    BY <1>1
  <2> QED
    BY <2>1 DEF DemandSync
<1>3. \A i \in seen' : rid_to_hashes'[i] \in Seq(Hash)
  <2>1. \A i \in seen' : tree'[i] \in Content
    BY DEF CoreInv, HookTypeOK, TreeIsSeen
  <2> QED
    BY <1>1, <1>2, <2>1, ChainsOK DEF DemandTypeOK
<1>4. ASSUME NEW h \in Hash
      PROVE  /\ demand'[h] \in Nat
             /\ demand'[h] = Cardinality(Through(seen', rid_to_hashes', h))
  <2> DEFINE old  == Through(seen, rid_to_hashes, h)
             gone == Through(dropped, rid_to_hashes, h)
             new  == Through(bumped, rid_to_hashes', h)
             now  == Through(seen', rid_to_hashes', h)
  <2>1. now = (old \ gone) \cup new /\ (old \ gone) \cap new = {} /\ gone \subseteq old
    BY <1>2 DEF Through
  <2>2. IsFiniteSet(old) /\ IsFiniteSet(new)
    <3>1. IsFiniteSet(seen) /\ IsFiniteSet(seen')
      <4>1. counter \in Nat /\ seen \in SUBSET (1..counter)
        BY DEF CoreInv, HookTypeOK, TreeIsSeen, InternerInverse
      <4>2. counter' \in Nat /\ seen' \in SUBSET (1..counter')
        BY DEF CoreInv, HookTypeOK, TreeIsSeen, InternerInverse
      <4> QED
        BY <4>1, <4>2, BelowFinite
    <3>2. old \subseteq seen /\ new \subseteq seen'
      BY DEF Through
    <3> QED
      BY <3>1, <3>2, FS_Subset
  <2> HIDE DEF old, gone, new, now
  <2>3. /\ IsFiniteSet(gone) /\ IsFiniteSet(old \ gone)
        /\ Cardinality(old \ gone) = Cardinality(old) - Cardinality(gone)
    <3>1. old \cap gone = gone /\ gone \in SUBSET old
      BY <2>1
    <3>2. IsFiniteSet(gone)
      BY <2>2, <3>1, FS_Subset
    <3>3. /\ IsFiniteSet(old \ gone)
          /\ Cardinality(old \ gone) = Cardinality(old) - Cardinality(old \cap gone)
      BY <2>2, FS_Difference
    <3> QED
      BY <3>1, <3>2, <3>3
  <2>4. Cardinality(now) = Cardinality(old \ gone) + Cardinality(new)
    <3>1. Cardinality((old \ gone) \cup new)
            = Cardinality(old \ gone) + Cardinality(new) - Cardinality((old \ gone) \cap new)
      BY <2>2, <2>3, FS_Union
    <3>2. Cardinality((old \ gone) \cap new) = 0
      BY <2>1, FS_EmptySet
    <3>3. Cardinality(old \ gone) \in Nat /\ Cardinality(new) \in Nat
      BY <2>2, <2>3, FS_CardinalityType
    <3> QED
      BY <2>1, <3>1, <3>2, <3>3
  <2>5. /\ Cardinality(old) \in Nat /\ Cardinality(gone) \in Nat /\ Cardinality(new) \in Nat
        /\ Cardinality(old \ gone) \in Nat
    BY <2>2, <2>3, FS_CardinalityType
  <2>6. demand[h] = Cardinality(old)
    BY DEF DemandExact, old
  <2>7. demand'[h] = Decremented(Cardinality(old) + Cardinality(new), Cardinality(gone))
    <3>1. demand'[h] = DemandAfter(bumped, dropped, h)
      BY <1>2
    <3> QED
      BY <2>6, <3>1 DEF DemandAfter, gone, new
  <2>8. demand'[h] \in Nat /\ demand'[h] = Cardinality(now)
    BY <2>3, <2>4, <2>5, <2>7 DEF Decremented
  <2> QED
    BY <2>8 DEF now
<1> QED
  BY <1>2, <1>3, <1>4 DEF DemandExact

(* The position of a hash in a request's block list is a positive number.  *)
LEMMA PositionFact ==
    ASSUME NEW s \in Seq(Hash), NEW h, In(h, s)
    PROVE  Position(h, s) \in Nat /\ Position(h, s) >= 1
<1>1. PICK k \in DOMAIN s : s[k] = h
  BY DEF In
<1>2. Position(h, s) \in DOMAIN s
  BY <1>1 DEF Position
<1>3. DOMAIN s = 1..Len(s) /\ Len(s) \in Nat
  OBVIOUS
<1> QED
  BY <1>2, <1>3

(* The depth entries after the tracked ids went from seen to seen'.        *)
LEMMA DepthSyncStep ==
    ASSUME CoreInv, CoreInv', DemandTypeOK, DemandExact, DepthCovers, DemandSync
    PROVE  max_depth' \in [Hash -> Nat] /\ DepthCovers'
<1> DEFINE bumped == seen' \ seen
<1>1. /\ DemandExact'
      /\ demand' \in [Hash -> Nat]
      /\ \A i \in DOMAIN rid_to_hashes' : rid_to_hashes'[i] \in Seq(Hash)
      /\ \A i \in seen \cap seen' : rid_to_hashes'[i] = rid_to_hashes[i]
  BY DemandSyncStep
<1>2. max_depth' = [h \in Hash |-> DepthAfter(bumped, h)]
  BY DEF DemandSync
<1>3. ASSUME NEW h \in Hash
      PROVE  /\ max_depth'[h] \in Nat
             /\ demand'[h] = 0 <=> max_depth'[h] = 0
             /\ \A i \in Through(seen', rid_to_hashes', h) :
                   max_depth'[h] >= Position(h, rid_to_hashes'[i])
  <2> DEFINE now    == Through(seen', rid_to_hashes', h)
             new    == Through(bumped, rid_to_hashes', h)
             at     == [i \in new |-> Position(h, rid_to_hashes'[i])]
             depths == {Position(h, rid_to_hashes'[i]) : i \in new} \cup {max_depth[h]}
  <2>1. max_depth'[h] = IF demand'[h] = 0 THEN 0
                        ELSE CHOOSE d \in depths : \A e \in depths : d >= e
    BY <1>2 DEF DepthAfter
  <2>2. \A i \in now : Position(h, rid_to_hashes'[i]) \in Nat
                         /\ Position(h, rid_to_hashes'[i]) >= 1
    <3> SUFFICES ASSUME NEW i \in now
                 PROVE  /\ Position(h, rid_to_hashes'[i]) \in Nat
                        /\ Position(h, rid_to_hashes'[i]) >= 1
      OBVIOUS
    <3>1. rid_to_hashes'[i] \in Seq(Hash) /\ In(h, rid_to_hashes'[i])
      BY <1>1 DEF DemandExact, Through
    <3> QED
      BY <3>1, PositionFact
  <2>3. new \subseteq now /\ now \subseteq seen'
    BY DEF Through
  <2>4. IsFiniteSet(now) /\ IsFiniteSet(new)
    <3>1. counter' \in Nat /\ seen' \in SUBSET (1..counter')
      BY DEF CoreInv, HookTypeOK, TreeIsSeen, InternerInverse
    <3>2. now \in SUBSET (1..counter') /\ new \in SUBSET (1..counter')
      BY <2>3, <3>1
    <3> QED
      BY <3>1, <3>2, BelowFinite
  <2>5. demand'[h] = Cardinality(now)
    BY <1>1 DEF DemandExact
  <2> HIDE DEF now, new
  <2>6. demand'[h] = 0 <=> now = {}
    BY <2>4, <2>5, FS_EmptySet
  <2>7. CASE now = {}
    BY <2>1, <2>6, <2>7 DEF now
  <2>8. CASE now # {}
    <3>1. max_depth[h] \in Nat
      BY DEF DemandTypeOK
    <3>2. IsFiniteSet({Position(h, rid_to_hashes'[i]) : i \in new})
      <4>1. at \in Surjection(new, {Position(h, rid_to_hashes'[i]) : i \in new})
        BY DEF Surjection
      <4> QED
        BY <2>4, <4>1, FS_Surjection
    <3>3. IsFiniteSet(depths) /\ depths \in SUBSET Nat /\ depths # {}
      BY <2>2, <2>3, <3>1, <3>2, FS_AddElement
    <3>4. \E d \in depths : \A e \in depths : d >= e
      BY <3>3, FiniteMax
    <3>5. /\ max_depth'[h] \in depths
          /\ \A e \in depths : max_depth'[h] >= e
      BY <2>1, <2>6, <2>8, <3>4
    <3>6. ASSUME NEW i \in now
          PROVE  /\ max_depth'[h] >= Position(h, rid_to_hashes'[i])
                 /\ max_depth'[h] # 0
      <4>1. CASE i \in seen
        <5>1. rid_to_hashes'[i] = rid_to_hashes[i] /\ i \in Through(seen, rid_to_hashes, h)
          BY <1>1, <4>1 DEF Through, now
        <5>2. max_depth[h] >= Position(h, rid_to_hashes'[i])
          BY <5>1 DEF DepthCovers
        <5>3. max_depth'[h] \in Nat /\ max_depth'[h] >= max_depth[h]
          BY <3>3, <3>5
        <5> QED
          BY <2>2, <3>1, <5>2, <5>3
      <4>2. CASE i \notin seen
        <5>1. i \in new
          BY <4>2 DEF Through, now, new
        <5>2. max_depth'[h] >= Position(h, rid_to_hashes'[i]) /\ max_depth'[h] \in Nat
          BY <3>3, <3>5, <5>1
        <5> QED
          BY <2>2, <5>2
      <4> QED
        BY <4>1, <4>2
    <3>7. max_depth'[h] \in Nat
      BY <3>3, <3>5
    <3> QED
      BY <2>6, <2>8, <3>6, <3>7 DEF now
  <2> QED
    BY <2>7, <2>8
<1> QED
  BY <1>2, <1>3 DEF DepthCovers

-----------------------------------------------------------------------------
QueueInv  == QueueTypeOK /\ CoreInv /\ Disjoint
DemandInv == DemandTypeOK /\ DemandExact /\ DepthCovers

(* A schedule call up to the original schedule.                            *)
LEMMA SyncAndReorderStep ==
    ASSUME QueueInv, SyncAndReorder, NEW w, w = waiting
    PROVE  /\ CoreInv'
           /\ last_rids' = DOMAIN w
           /\ UniqueInv => AllTracked(w)' /\ InternerPruned'
<1>1. IsQueue(w) /\ DOMAIN w \in SUBSET Rid /\ CoreInv
  BY DEF IsQueue, QueueTypeOK, QueueInv
<1>2. UniqueInv => Agrees(w) /\ InternerPruned
  BY DEF UniqueInv, StillTracked, Agrees
<1>3. CASE Sync(w)
  BY <1>1, <1>2, <1>3, SyncStep
<1>4. CASE SameRids(w) /\ InternOnly(DOMAIN w)
  <2>1. /\ CoreInv'
        /\ UNCHANGED <<seen, last_rids, tree, phase>>
        /\ \A r \in DOMAIN rid_interner :
              r \in DOMAIN rid_interner' /\ rid_interner'[r] = rid_interner[r]
        /\ DOMAIN w \subseteq DOMAIN rid_interner => (InternerPruned => InternerPruned')
    BY <1>1, <1>4, InternOnlyStep
  <2>2. UniqueInv => AllTracked(w)
    BY <1>2, <1>4 DEF Agrees, AllTracked, SameRids
  <2> QED
    BY <1>2, <1>4, <2>1, <2>2 DEF AllTracked, SameRids
<1> QED
  BY <1>3, <1>4 DEF SyncAndReorder

(* A request queued by add_request.                                        *)
LEMMA AddRequestStep ==
    ASSUME QueueInv, NEW r \in Rid, NEW c \in Content, AddRequest(r, c)
    PROVE  /\ QueueInv'
           /\ ~ReuseIds /\ UniqueInv =>
                /\ UniqueInv'
                /\ r \in DOMAIN rid_interner' /\ rid_interner'[r] \in seen'
<1>1. PICK w : w = waiting'
  OBVIOUS
<1>2. /\ DOMAIN w = DOMAIN waiting \cup {r}
      /\ \A q \in DOMAIN w : w[q] = IF q = r THEN c ELSE waiting[q]
  BY <1>1 DEF AddRequest, Override
<1>3. IsQueue(w) /\ Sync(w)
  BY <1>1, <1>2 DEF IsQueue, QueueTypeOK, QueueInv, AddRequest
<1>4. /\ CoreInv'
      /\ last_rids' = DOMAIN w
      /\ Agrees(w) => AllTracked(w)'
      /\ InternerPruned => InternerPruned'
  BY <1>3, SyncStep DEF QueueInv
<1>5. r \notin running /\ (~ReuseIds => r \notin last_rids) /\ running' = running
  BY DEF AddRequest, MaySubmit
<1>6. QueueTypeOK' /\ Disjoint'
  BY <1>1, <1>2, <1>3, <1>5 DEF QueueTypeOK, Disjoint, QueueInv, IsQueue
<1>7. ~ReuseIds /\ UniqueInv => Agrees(w)
  BY <1>2, <1>5 DEF UniqueInv, StillTracked, Agrees
<1> QED
  BY <1>1, <1>2, <1>4, <1>6, <1>7 DEF QueueInv, UniqueInv, StillTracked, AllTracked

(* A schedule call whose original leaves of the queue, unchanged, all but  *)
(* some requests, and adds only requests that were not in it.              *)
LEMMA ScheduleStep ==
    ASSUME QueueInv, SyncAndReorder, QueueTypeOK', Disjoint',
           \A r \in DOMAIN waiting' \cap DOMAIN waiting : waiting'[r] = waiting[r]
    PROVE  QueueInv' /\ (UniqueInv => UniqueInv')
<1>1. PICK w : w = waiting
  OBVIOUS
<1>2. /\ CoreInv'
      /\ last_rids' = DOMAIN w
      /\ UniqueInv => AllTracked(w)' /\ InternerPruned'
  BY <1>1, SyncAndReorderStep
<1>3. UniqueInv => StillTracked'
  BY <1>1, <1>2 DEF StillTracked, AllTracked
<1> QED
  BY <1>2, <1>3 DEF QueueInv, UniqueInv

(* finish_requests drops what is tracked of R and nothing else.            *)
LEMMA FinishStep ==
    ASSUME QueueInv, NEW R \in SUBSET Rid, FinishRequests(R)
    PROVE  QueueInv' /\ (UniqueInv => UniqueInv')
<1> DEFINE dropped == {i \in seen : \E r \in R \cap DOMAIN rid_interner : rid_interner[r] = i}
           names   == {rid_unintern[i] : i \in dropped}
<1>1. /\ DOMAIN waiting' = DOMAIN waiting \ R
      /\ \A r \in DOMAIN waiting' : waiting'[r] = waiting[r]
      /\ running' = running \ R
  BY DEF FinishRequests, Drop, Restrict
<1>2. /\ tree' = [i \in DOMAIN tree \ dropped |-> tree[i]]
      /\ seen' = seen \ dropped
      /\ rid_interner' = [r \in DOMAIN rid_interner \ names |-> rid_interner[r]]
      /\ rid_unintern' = [i \in DOMAIN rid_unintern \ dropped |-> rid_unintern[i]]
      /\ UNCHANGED <<counter, last_rids, phase>>
  BY DEF FinishRequests, Drop, Restrict, Forgotten
<1>3. HookTypeOK /\ InternerInverse /\ TreeIsSeen /\ PhasesMatch /\ SeenWereQueued
  BY DEF QueueInv, CoreInv
<1>4. names \subseteq R
  BY <1>3 DEF InternerInverse
<1> HIDE DEF dropped, names
<1>5. \A i \in dropped : i \in seen /\ rid_unintern[i] \in names
  BY DEF dropped, names
<1>6. \A r \in names : r \in DOMAIN rid_interner /\ rid_interner[r] \in dropped
  BY <1>3 DEF names, dropped, TreeIsSeen, InternerInverse
<1>7. InternerInverse'
  BY <1>2, <1>3, <1>5, <1>6 DEF InternerInverse
<1>8. TreeIsSeen' /\ PhasesMatch' /\ SeenWereQueued'
  BY <1>2, <1>3 DEF TreeIsSeen, PhasesMatch, SeenWereQueued
<1>9. HookTypeOK'
  BY <1>2, <1>3 DEF HookTypeOK
<1>10. QueueTypeOK' /\ Disjoint'
  BY <1>1 DEF QueueInv, QueueTypeOK, Disjoint
<1>11. UniqueInv => InternerPruned'
  BY <1>2 DEF UniqueInv, InternerPruned
<1>12. UniqueInv => StillTracked'
  <2> SUFFICES ASSUME UniqueInv, NEW r \in last_rids \cap DOMAIN waiting'
               PROVE  /\ r \in DOMAIN rid_interner' /\ rid_interner'[r] \in seen'
                      /\ tree'[rid_interner'[r]] = waiting'[r]
    BY <1>2 DEF StillTracked
  <2>1. /\ r \in DOMAIN rid_interner /\ rid_interner[r] \in seen
        /\ tree[rid_interner[r]] = waiting[r] /\ r \notin R /\ waiting'[r] = waiting[r]
    BY <1>1 DEF UniqueInv, StillTracked
  <2>2. r \notin names /\ rid_interner[r] \notin dropped
    BY <1>3, <1>4, <1>5, <2>1 DEF InternerInverse
  <2> QED
    BY <1>2, <1>3, <2>1, <2>2 DEF TreeIsSeen
<1> QED
  BY <1>7, <1>8, <1>9, <1>10, <1>11, <1>12 DEF QueueInv, CoreInv, UniqueInv

-----------------------------------------------------------------------------
(* One call of the engine core: the queue side, the demand index, and what *)
(* becomes of a request that was neither waiting nor running.              *)
Indexed(r) == r \in DOMAIN rid_interner /\ rid_interner[r] \in seen

(* What any patched method does to the queue side: QueueInv is kept, the   *)
(* demand index is synced or untouched, and with unique ids a request that *)
(* has just been added is indexed when the method returns.                 *)
LEMMA QueueStep ==
    ASSUME QueueInv, Next
    PROVE  /\ QueueInv'
           /\ DemandSync \/ UNCHANGED <<seen, demandVars>>
           /\ ~ReuseIds /\ UniqueInv =>
                /\ UniqueInv'
                /\ \A r \in DOMAIN waiting' \ DOMAIN waiting :
                      r \notin running => Indexed(r)'
<1> DEFINE Goal == /\ QueueInv'
                   /\ DemandSync \/ UNCHANGED <<seen, demandVars>>
                   /\ ~ReuseIds /\ UniqueInv =>
                        /\ UniqueInv'
                        /\ \A r \in DOMAIN waiting' \ DOMAIN waiting :
                              r \notin running => Indexed(r)'
<1>1. ASSUME NEW r \in Rid, NEW c \in Content, AddRequest(r, c) PROVE Goal
  <2>1. DOMAIN waiting' = DOMAIN waiting \cup {r} /\ DemandSync
    BY <1>1 DEF AddRequest, Override
  <2> QED
    BY <1>1, <2>1, AddRequestStep DEF Indexed
<1>2. ASSUME NEW picked \in SUBSET Rid, ScheduleAdmit(picked) PROVE Goal
  <2>1. /\ DOMAIN waiting' = DOMAIN waiting \ picked
        /\ \A r \in DOMAIN waiting' : waiting'[r] = waiting[r]
        /\ running' = running \cup picked
        /\ SyncAndReorder /\ DemandSync
    BY <1>2 DEF ScheduleAdmit, SyncAndReorder, Drop, Restrict
  <2>2. QueueTypeOK' /\ Disjoint'
    BY <2>1 DEF QueueInv, QueueTypeOK, Disjoint
  <2> QED
    BY <2>1, <2>2, ScheduleStep
<1>3. ASSUME NEW R \in SUBSET Rid, NEW back \in [R -> Content], SchedulePreempt(back)
      PROVE  Goal
  <2>1. /\ DOMAIN waiting' = DOMAIN waiting \cup R
        /\ \A r \in DOMAIN waiting' : waiting'[r] = IF r \in R THEN back[r] ELSE waiting[r]
        /\ running' = running \ R /\ R \subseteq running
        /\ SyncAndReorder /\ DemandSync
    BY <1>3 DEF SchedulePreempt, SyncAndReorder, Override
  <2>2. QueueTypeOK' /\ Disjoint' /\ R \cap DOMAIN waiting = {}
    BY <2>1 DEF QueueInv, QueueTypeOK, Disjoint
  <2> QED
    BY <2>1, <2>2, ScheduleStep
<1>4. ASSUME NEW r \in Rid, Complete(r) PROVE Goal
  BY <1>4 DEF Complete, syncVars, QueueInv, CoreInv, HookTypeOK, QueueTypeOK,
              InternerInverse, TreeIsSeen, PhasesMatch, SeenWereQueued, Disjoint,
              UniqueInv, InternerPruned, StillTracked
<1>5. ASSUME NEW R \in SUBSET Rid, FinishRequests(R) PROVE Goal
  <2>1. DOMAIN waiting' \subseteq DOMAIN waiting /\ DemandSync
    BY <1>5 DEF FinishRequests, Drop, Restrict
  <2> QED
    BY <1>5, <2>1, FinishStep
<1> QED
  BY <1>1, <1>2, <1>3, <1>4, <1>5 DEF Next

(* Every step of the vllm hook, and every stutter, keeps the invariants of *)
(* the queue side and of the demand index.                                 *)
LEMMA InvStep ==
    ASSUME QueueInv, DemandInv, [Next]_vars
    PROVE  /\ QueueInv' /\ DemandInv'
           /\ ~ReuseIds /\ UniqueInv => UniqueInv'
<1>1. CASE Next
  <2>1. /\ QueueInv'
        /\ DemandSync \/ UNCHANGED <<seen, demandVars>>
        /\ ~ReuseIds /\ UniqueInv => UniqueInv'
    BY <1>1, QueueStep
  <2>2. CASE DemandSync
    <3>1. CoreInv /\ CoreInv'
      BY <2>1 DEF QueueInv
    <3> QED
      BY <2>1, <2>2, <3>1, DemandSyncStep, DepthSyncStep DEF DemandInv, DemandTypeOK
  <2>3. CASE UNCHANGED <<seen, demandVars>>
    BY <2>1, <2>3 DEF DemandInv, DemandTypeOK, DemandExact, DepthCovers, demandVars, Through
  <2> QED
    BY <2>1, <2>2, <2>3
<1>2. CASE UNCHANGED vars
  BY <1>2 DEF vars, engineVars, syncVars, demandVars, QueueInv, CoreInv, HookTypeOK,
              QueueTypeOK, InternerInverse, TreeIsSeen, PhasesMatch, SeenWereQueued,
              Disjoint, UniqueInv, InternerPruned, StillTracked, DemandInv, DemandTypeOK,
              DemandExact, DepthCovers, Through
<1> QED
  BY <1>1, <1>2

(* The hook starts empty, which satisfies all three invariants.            *)
LEMMA InvInit == Init => QueueInv /\ DemandInv /\ UniqueInv
<1> SUFFICES ASSUME Init PROVE QueueInv /\ DemandInv /\ UniqueInv
  OBVIOUS
<1>1. QueueInv /\ UniqueInv /\ seen = {}
  BY SyncInitCore DEF Init, SyncInit, QueueInv, Disjoint
<1>2. \A h \in Hash : Through(seen, rid_to_hashes, h) = {}
  BY <1>1 DEF Through
<1>3. DemandInv
  BY <1>1, <1>2, FS_EmptySet DEF Init, DemandInv, DemandTypeOK, DemandExact, DepthCovers
<1> QED
  BY <1>1, <1>3

(* Whatever ids the client uses, every variable keeps its type: no demand  *)
(* count goes below zero.                                                  *)
THEOREM TypeCorrect == Spec => []TypeOK
<1>1. QueueInv /\ DemandInv => TypeOK
  BY DEF QueueInv, DemandInv, DemandTypeOK, CoreInv, TypeOK
<1> QED
  BY InvInit, InvStep, <1>1, PTL DEF Spec

(* Whatever ids the client uses: the interner's maps stay inverse and its  *)
(* numbers fresh, the tree holds exactly the ids marked seen, and the      *)
(* phase records match the last sync.                                      *)
THEOREM BookkeepingSound == Spec => [](InternerInverse /\ TreeIsSeen /\ PhasesMatch)
<1>1. QueueInv => InternerInverse /\ TreeIsSeen /\ PhasesMatch
  BY DEF QueueInv, CoreInv
<1> QED
  BY InvInit, InvStep, <1>1, PTL DEF Spec

(* The demand the block pool reads for a block hash is the number of       *)
(* tracked requests that pass through it, and in cluster mode its depth    *)
(* covers theirs, after any history of arrivals, preemptions and aborts.   *)
THEOREM DemandCorrect == Spec => [](DemandExact /\ DepthCovers)
<1>1. DemandInv => DemandExact /\ DepthCovers
  BY DEF DemandInv
<1> QED
  BY InvInit, InvStep, <1>1, PTL DEF Spec

(* When no id comes back before a sync saw it leave, skipping the work of  *)
(* _sync is right whenever its fast path is taken, and the interner keeps  *)
(* no entry for a request that left.                                       *)
THEOREM FastPathCorrect ==
    ASSUME ~ReuseIds
    PROVE  Spec => [](FastPathSound /\ InternerPruned)
<1> DEFINE I == QueueInv /\ DemandInv /\ UniqueInv
<1>1. I => FastPathSound /\ InternerPruned
  BY FastPathFromUnique DEF QueueInv, UniqueInv
<1>2. I /\ [Next]_vars => I'
  BY InvStep
<1> QED
  BY InvInit, <1>1, <1>2, PTL DEF Spec

(* Under the same condition interner and tree agree: no number is given to *)
(* two requests and none outlives its request (_intern, _forget_rid, _sync *)
(* and _patched_finish_requests): NumbersExact.                            *)
THEOREM NumbersCorrect ==
    ASSUME ~ReuseIds
    PROVE  Spec => []NumbersExact
<1> DEFINE I == QueueInv /\ DemandInv /\ UniqueInv
<1>1. I => NumbersExact
  BY DEF QueueInv, UniqueInv, CoreInv, NumbersExact
<1>2. I /\ [Next]_vars => I'
  BY InvStep
<1> QED
  BY InvInit, <1>1, <1>2, PTL DEF Spec

(* When no id comes back before a sync saw it leave, the tree gains an     *)
(* arriving request within add_request.                                    *)
THEOREM ArrivalCorrect ==
    ASSUME ~ReuseIds
    PROVE  Spec => ArrivalIndexed
<1> DEFINE I == QueueInv /\ DemandInv /\ UniqueInv
           A == \A r \in DOMAIN waiting' \ DOMAIN waiting :
                   r \notin running => r \in DOMAIN rid_interner' /\ rid_interner'[r] \in seen'
<1>1. I /\ [Next]_vars => I'
  BY InvStep
<1>2. I /\ [Next]_vars => [A]_vars
  BY QueueStep DEF Indexed
<1>3. ArrivalIndexed <=> [][A]_vars
  BY DEF ArrivalIndexed
<1> HIDE DEF A
<1> QED
  BY InvInit, <1>1, <1>2, <1>3, PTL DEF Spec
=============================================================================
