------------------------------- MODULE VllmHook -------------------------------
(***************************************************************************)
(* python/peek/online/engines/vllm/patch_hook.py: the patched              *)
(* Scheduler.add_request, schedule and finish_requests around the          *)
(* scheduler of vllm, and the inverted index block hash -> demand that the *)
(* patched block pool reads when it picks eviction victims.                *)
(* The engine core calls the three entry points from one loop, so each is  *)
(* one step.                                                               *)
(***************************************************************************)
EXTENDS QueueSync, Sequences

CONSTANTS
    Hash,           \* block hashes
    BlockHashes     \* external: the block hash chain of a token sequence

ASSUME ChainsOK ==
    /\ BlockHashes \in [Content -> Seq(Hash)]
    /\ \A c \in Content : \A i, j \in DOMAIN BlockHashes[c] :
          BlockHashes[c][i] = BlockHashes[c][j] => i = j

VARIABLES
    rid_to_hashes,  \* id -> snapshot of the request's block hashes
    demand,         \* _block_hash_demand, 0 where there is no entry
    max_depth       \* _block_hash_max_depth (cluster mode), 0 where none

demandVars == <<rid_to_hashes, demand, max_depth>>
vars == <<engineVars, syncVars, demandVars>>

In(h, s) == \E k \in DOMAIN s : s[k] = h

Init ==
    /\ SyncInit
    /\ rid_to_hashes = [i \in {} |-> <<>>]
    /\ demand = [h \in Hash |-> 0]
    /\ max_depth = [h \in Hash |-> 0]

(* Of the ids in I, those whose snapshot in `snap` passes through h.       *)
Through(I, snap, h) == {i \in I : In(h, snap[i])}

(* Mutant: _drop_rid reads the tokens the request has now, not the         *)
(* snapshot (here: it drops nothing for a request that is gone).           *)
DemandKeepsGone(bumped, dropped, h) ==
    demand[h] + Cardinality(Through(bumped, rid_to_hashes', h))

(* Mutant: a departure is subtracted twice, without the test for zero.     *)
DemandDropsTwice(bumped, dropped, h) ==
    demand[h] + Cardinality(Through(bumped, rid_to_hashes', h))
              - 2 * Cardinality(Through(dropped, rid_to_hashes, h))

(* A count after n decrements: the entry is removed, never below zero.     *)
Decremented(count, n) == IF n >= count THEN 0 ELSE count - n

(* _bump_rid for each id in `bumped`, then _drop_rid for each in `dropped`.*)
DemandAfter(bumped, dropped, h) ==
    Decremented(demand[h] + Cardinality(Through(bumped, rid_to_hashes', h)),
                Cardinality(Through(dropped, rid_to_hashes, h)))

(* The 1-indexed position of h in a chain.                                 *)
Position(h, s) == CHOOSE k \in DOMAIN s : s[k] = h

DepthAfter(bumped, h) ==
    LET depths == {Position(h, rid_to_hashes'[i]) : i \in Through(bumped, rid_to_hashes', h)}
                    \cup {max_depth[h]}
    IN IF demand'[h] = 0 THEN 0
       ELSE CHOOSE d \in depths : \A e \in depths : d >= e

(* What becomes of the index when the tracked ids go from seen to seen'.   *)
(* A tracked id the tree already held is dropped before it is bumped.      *)
DemandSync ==
    LET bumped  == seen' \ seen
        dropped == (seen \ seen') \cup (bumped \cap DOMAIN rid_to_hashes)
    IN /\ rid_to_hashes' = [i \in seen' |-> IF i \in bumped THEN BlockHashes[tree'[i]]
                                                            ELSE rid_to_hashes[i]]
       /\ demand' = [h \in Hash |-> DemandAfter(bumped, dropped, h)]
       /\ max_depth' = [h \in Hash |-> DepthAfter(bumped, h)]

(* _patched_add_request: the engine queues the request, then a sync.       *)
AddRequest(r, c) ==
    /\ MaySubmit({r}, waiting)
    /\ waiting' = Override(waiting, [x \in {r} |-> c])
    /\ Sync(waiting')
    /\ DemandSync
    /\ UNCHANGED running

(* _patched_schedule up to the call of the original: sync, then            *)
(* _reorder_waiting, which returns early (a single request, a priority     *)
(* queue, a long queue) or interns every waiting rid of a queue of two or  *)
(* more (a slow sync has interned them all already).                       *)
SyncAndReorder ==
    /\ \/ Sync(waiting)
       \/ /\ SameRids(waiting) /\ Cardinality(DOMAIN waiting) > 1
          /\ InternOnly(DOMAIN waiting)
    /\ DemandSync

(* The original schedule admits waiting requests ...                       *)
ScheduleAdmit(picked) ==
    /\ picked \subseteq DOMAIN waiting
    /\ SyncAndReorder
    /\ waiting' = Drop(waiting, picked)
    /\ running' = running \cup picked

(* ... or preempts running ones, which wait again with the output they     *)
(* have produced (never both in one call).                                 *)
SchedulePreempt(back) ==
    /\ DOMAIN back \subseteq running /\ counter < MaxId
    /\ SyncAndReorder
    /\ waiting' = Override(waiting, back)
    /\ running' = running \ DOMAIN back

(* A running request completes; the hooks are not told.                    *)
Complete(r) ==
    /\ r \in running
    /\ running' = running \ {r}
    /\ UNCHANGED <<waiting, syncVars, demandVars>>

(* _patched_finish_requests, after the engine removed the requests: what   *)
(* the tree tracks of them is dropped at once.  last_rids is not touched.  *)
FinishRequests(R) ==
    LET dropped == {i \in seen : \E r \in R \cap DOMAIN rid_interner : rid_interner[r] = i}
    IN /\ R # {} /\ R \subseteq DOMAIN waiting \cup running
       /\ waiting' = Drop(waiting, R)
       /\ running' = running \ R
       /\ tree' = Drop(tree, dropped)
       /\ seen' = seen \ dropped
       /\ rid_interner' = Drop(rid_interner, {rid_unintern[i] : i \in Forgotten(dropped)})
       /\ rid_unintern' = Drop(rid_unintern, Forgotten(dropped))
       /\ UNCHANGED <<counter, last_rids, phase>>
       /\ DemandSync

Next ==
    \/ \E r \in Rid, c \in Content : AddRequest(r, c)
    \/ \E picked \in SUBSET Rid : ScheduleAdmit(picked)
    \/ \E R \in SUBSET Rid : \E back \in [R -> Content] : SchedulePreempt(back)
    \/ \E r \in Rid : Complete(r)
    \/ \E R \in SUBSET Rid : FinishRequests(R)

Schedule ==
    \/ \E picked \in SUBSET Rid : ScheduleAdmit(picked)
    \/ \E R \in SUBSET Rid : \E back \in [R -> Content] : SchedulePreempt(back)

Spec == Init /\ [][Next]_vars

(* The engine core calls schedule over and over (its busy loop), so a      *)
(* changed queue is met by a call; nothing says that a call admits.        *)
FairSpec == Spec /\ WF_vars(~SameRids(waiting) /\ Schedule)

-----------------------------------------------------------------------------
(* Every variable has its type; a demand count that is decremented twice   *)
(* for one departure would go below zero.                                  *)
TypeOK ==
    /\ QueueTypeOK /\ HookTypeOK
    /\ demand \in [Hash -> Nat] /\ max_depth \in [Hash -> Nat]
    /\ \A i \in DOMAIN rid_to_hashes : rid_to_hashes[i] \in Seq(Hash)

(* The demand of a block hash is the number of tracked requests whose      *)
(* snapshot passes through it, whatever order requests came and left in:   *)
(* the counts neither drift nor leave an entry behind.                     *)
DemandExact ==
    /\ DOMAIN rid_to_hashes = seen
    /\ \A h \in Hash : demand[h] = Cardinality(Through(seen, rid_to_hashes, h))

(* In cluster mode a demanded hash has a depth, at least as deep as every  *)
(* tracked request has it ("stale-high tolerated"), and only a demanded    *)
(* hash has one.                                                           *)
DepthCovers ==
    \A h \in Hash :
       /\ demand[h] = 0 <=> max_depth[h] = 0
       /\ \A i \in Through(seen, rid_to_hashes, h) : max_depth[h] >= Position(h, rid_to_hashes[i])

(* A queued request is indexed by the tree or leaves the queue: preempted  *)
(* requests, which no hook announces, are found by the next schedule.      *)
EventuallyIndexed ==
    \A r \in Rid : r \in DOMAIN waiting
        ~> \/ r \notin DOMAIN waiting
           \/ r \in DOMAIN rid_interner /\ rid_interner[r] \in seen

(* What the header of the hook says of add_request: "sync-on-arrival fast  *)
(* path (peek tree gains the rid immediately)".                            *)
ArrivalIndexed ==
    [][\A r \in DOMAIN waiting' \ DOMAIN waiting :
          r \notin running => r \in DOMAIN rid_interner' /\ rid_interner'[r] \in seen']_vars
=============================================================================
