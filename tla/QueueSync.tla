------------------------------ MODULE QueueSync ------------------------------
(***************************************************************************)
(* How the engine hooks keep the pending tree in step with the engine's    *)
(* waiting queue: the _sync closure, the rid interner and the per-request  *)
(* phase record that the sglang and the vllm patch_hook.py both carry.     *)
(* SglangHook and VllmHook add the engine entry points that call it.       *)
(*                                                                         *)
(* The queue is a map from request id to tokens: its order plays no part   *)
(* in _sync but for the order in which new ids are numbered, which is left *)
(* open.  The pending tree is the map PendingTree is shown to implement.   *)
(***************************************************************************)
EXTENDS Naturals, FiniteSets, Functions

CONSTANTS
    Rid,        \* request ids (strings, chosen by the client or the engine)
    Content,    \* token sequences: prompt and output so far
    ReuseIds,   \* may an id come back before a sync saw it leave?
    MaxId       \* bound: no new submission once the counter is past it

ASSUME RidFinite == IsFiniteSet(Rid)
ASSUME ReuseBoolean == ReuseIds \in BOOLEAN
ASSUME MaxIdNat == MaxId \in Nat

VARIABLES
    waiting,        \* external: the waiting queue, rid -> tokens
    running,        \* external: the running batch, a set of rids
    rid_interner,   \* rid -> interned id
    rid_unintern,   \* interned id -> rid
    counter,        \* last interned id handed out, never rewinds
    seen,           \* _seen_this_session: ids the tree tracks
    last_rids,      \* rids of the queue at the last sync
    tree,           \* the pending tree, id -> tokens
    phase           \* _phase_timings: has a rid arrived, been picked?

engineVars == <<waiting, running>>
syncVars   == <<rid_interner, rid_unintern, counter, seen, last_rids, tree, phase>>

(* f without the keys in S; f overridden by g.                             *)
Drop(f, S)     == Restrict(f, DOMAIN f \ S)
Override(f, g) == [x \in DOMAIN f \cup DOMAIN g |-> IF x \in DOMAIN g THEN g[x] ELSE f[x]]

(* The ways _intern can number the rids R in turn: any order.              *)
Numberings(R) == Injection(R, (counter + 1)..(counter + Cardinality(R)))

(* The reverse map of a numbering.                                         *)
Names(f) == AntiFunction(f)

Count(n) == counter' = counter + n

SyncInit ==
    /\ waiting = [r \in {} |-> {}] /\ running = {}
    /\ rid_interner = [r \in {} |-> 0] /\ rid_unintern = [i \in {} |-> 0]
    /\ counter = 0 /\ seen = {} /\ last_rids = {}
    /\ tree = [i \in {} |-> {}]
    /\ phase = [r \in Rid |-> "none"]

(* _intern for each rid of R, outside a sync.                              *)
InternOnly(R) ==
    \E f \in Numberings(R \ DOMAIN rid_interner) :
       /\ rid_interner' = Override(rid_interner, f)
       /\ rid_unintern' = Override(rid_unintern, Names(f))
       /\ Count(Cardinality(R \ DOMAIN rid_interner))
       /\ UNCHANGED <<seen, last_rids, tree, phase>>

(* Mutant: _forget_rid is not called.                                      *)
ForgottenNone(gone) == {}

(* Ids whose interner entries go when the ids in `gone` leave the queue.   *)
Forgotten(gone) == gone

(* Mutant: pick_ts is not recorded.                                        *)
PhaseArrivalsOnly(arrived, left) ==
    [r \in Rid |-> IF r \in arrived THEN "waiting" ELSE phase[r]]

(* arrive_ts opens a rid's record, pick_ts closes it once.                 *)
PhaseAfter(arrived, left) ==
    [r \in Rid |-> CASE r \in arrived -> "waiting"
                     [] r \in left \ arrived /\ phase[r] = "waiting" -> "picked"
                     [] OTHER -> phase[r]]

(* The ids in the tree after the inserts and discards of a slow sync that  *)
(* found the ids `current` in the queue.                                   *)
Tracked(current) == (DOMAIN tree \cup current) \ (seen \ current)

(* The slow path of _sync against the queue w, once its rids are interned  *)
(* (int and name are the two maps after that): insert what is new (an id   *)
(* the tree already holds is discarded and inserted again), discard and    *)
(* forget what left, remember the rid set.                                 *)
SyncTo(w, int, name) ==
    LET current == {int[r] : r \in DOMAIN w}
        gone    == seen \ current
    IN /\ tree' = [i \in Tracked(current) |->
                      IF i \in current \ seen THEN w[name[i]] ELSE tree[i]]
       /\ seen' = current
       /\ rid_interner' = Drop(int, {name[i] : i \in Forgotten(gone)})
       /\ rid_unintern' = Drop(name, Forgotten(gone))
       /\ last_rids' = DOMAIN w
       /\ phase' = PhaseAfter({r \in DOMAIN w : int[r] \notin seen}, last_rids \ DOMAIN w)

SlowSync(w) ==
    \E f \in Numberings(DOMAIN w \ DOMAIN rid_interner) :
       /\ SyncTo(w, Override(rid_interner, f), Override(rid_unintern, Names(f)))
       /\ Count(Cardinality(DOMAIN w \ DOMAIN rid_interner))

(* Mutant: only the number of queued requests is compared.                 *)
SameLength(w) == Cardinality(DOMAIN w) = Cardinality(last_rids)

(* The fast path's test: the rid set is the one of the last sync.          *)
SameRids(w) == DOMAIN w = last_rids

Sync(w) == IF SameRids(w) THEN UNCHANGED syncVars ELSE SlowSync(w)

(* May the client submit the rids R, when the queue is down to w?  Ids are *)
(* unique among live requests; when ReuseIds is FALSE an id comes back     *)
(* only after a sync saw it leave.                                         *)
MaySubmit(R, w) ==
    /\ R \cap (DOMAIN w \cup running) = {}
    /\ ReuseIds \/ R \cap (last_rids \cup DOMAIN waiting) = {}
    /\ counter < MaxId

-----------------------------------------------------------------------------
(* Types of the engine's state and of the state the hooks keep, for the    *)
(* TypeOK of each hook.                                                    *)
QueueTypeOK ==
    /\ DOMAIN waiting \subseteq Rid /\ \A r \in DOMAIN waiting : waiting[r] \in Content
    /\ running \subseteq Rid

HookTypeOK ==
    /\ DOMAIN rid_interner \subseteq Rid
    /\ \A r \in DOMAIN rid_interner : rid_interner[r] \in Nat
    /\ \A i \in DOMAIN rid_unintern : i \in Nat /\ rid_unintern[i] \in Rid
    /\ counter \in Nat
    /\ seen \subseteq Nat
    /\ last_rids \subseteq Rid
    /\ \A i \in DOMAIN tree : tree[i] \in Content
    /\ phase \in [Rid -> {"none", "waiting", "picked"}]

(* The two interner maps are inverse to each other, and no number above    *)
(* the counter is in use: the next number handed out is fresh.             *)
InternerInverse ==
    /\ \A r \in DOMAIN rid_interner :
          /\ rid_interner[r] \in DOMAIN rid_unintern
          /\ rid_unintern[rid_interner[r]] = r
    /\ \A i \in DOMAIN rid_unintern :
          /\ i \in 1..counter
          /\ rid_unintern[i] \in DOMAIN rid_interner
          /\ rid_interner[rid_unintern[i]] = i

(* The tree holds exactly the ids marked seen, and each of them can be     *)
(* traced back to its rid: the ValueError branch of _sync (discard and     *)
(* insert again) is never taken and no entry of the tree is orphaned.      *)
TreeIsSeen ==
    /\ DOMAIN tree = seen
    /\ seen \subseteq DOMAIN rid_unintern

(* No interner entry outlives the request's stay in the tree ("Without     *)
(* that they would grow for the life of the server").                      *)
InternerPruned == DOMAIN rid_unintern = seen

(* The interner and the tree agree: over arrivals, departures, returns and *)
(* requests that finish between two syncs no number is given to two        *)
(* requests, every entry of the tree belongs to one, and none is kept.     *)
NumbersExact == InternerInverse /\ TreeIsSeen /\ InternerPruned

(* The tree tracks exactly the waiting requests, with the tokens they have *)
(* now (the invariant _validate_sync states).                              *)
TracksQueue ==
    /\ DOMAIN waiting \subseteq DOMAIN rid_interner
    /\ seen = {rid_interner[r] : r \in DOMAIN waiting}
    /\ \A r \in DOMAIN waiting : tree[rid_interner[r]] = waiting[r]

(* Whenever the fast path of _sync would be taken, skipping is right.      *)
FastPathSound == SameRids(waiting) => TracksQueue

(* The record of a rid is open (arrived, not picked) exactly while the     *)
(* last sync saw the rid waiting: every departure is stamped, once.        *)
PhasesMatch == {r \in Rid : phase[r] = "waiting"} = last_rids

-----------------------------------------------------------------------------
(* What makes the properties above inductive.                              *)

(* What the tree tracks was in the queue at the last sync.                 *)
SeenWereQueued == \A i \in seen : rid_unintern[i] \in last_rids

(* Preserved by every hook, whatever the client does with ids.             *)
CoreInv ==
    HookTypeOK /\ InternerInverse /\ TreeIsSeen /\ PhasesMatch /\ SeenWereQueued

(* A request that was in the queue at the last sync and is in it now is    *)
(* tracked with the tokens it has: nothing slipped out and in unseen.      *)
StillTracked ==
    \A r \in last_rids \cap DOMAIN waiting :
       /\ r \in DOMAIN rid_interner /\ rid_interner[r] \in seen
       /\ tree[rid_interner[r]] = waiting[r]

(* Preserved when ids do not come back before a sync saw them leave.       *)
UniqueInv == InternerPruned /\ StillTracked
=============================================================================
