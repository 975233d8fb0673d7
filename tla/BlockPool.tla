------------------------------- MODULE BlockPool -------------------------------
(***************************************************************************)
(* vllm's pool of KV blocks with the victim selection of either patch: the *)
(* online hook (_peek_get_new_blocks of online/engines/vllm/patch_hook.py) *)
(* and the offline one (popleft_queue_aware, offline/vllm_patches).        *)
(* A free block stays cached under its hash until it is handed out again;  *)
(* the free queue is in order of release, and stock vllm evicts its head.  *)
(* One KV cache group; the null block, which is never free, is left out.   *)
(***************************************************************************)
EXTENDS Ordering

CONSTANTS
    Block, Hash,
    Modes,          \* "off" (stock), "plain", "cluster" (the online hook's eviction
                    \* mode), "refs", "engine" (offline, PEEK_OFFLINE_SERVER_REORDER)
    ScanCap,        \* [Modes -> PEEK_ONLINE_EVICTION_SCAN_CAP], 0 when not set
    MinScanCap      \* _EVICTION_MIN_SCAN_CAP

VARIABLES
    mode,
    free,           \* free_block_queue
    ref,            \* block.ref_cnt
    cached,         \* cached_block_hash_to_block: the blocks of a hash, oldest first
    qref,           \* block.queue_ref_count
    demand, depth   \* _block_hash_demand, _block_hash_max_depth (0: no entry)

ASSUME PoolAssumption ==
    /\ IsFiniteSet(Block) /\ IsFiniteSet(Hash)
    /\ Modes \subseteq {"off", "plain", "cluster", "refs", "engine"}
    /\ ScanCap \in [Modes -> Nat] /\ MinScanCap \in Nat

poolVars == <<mode, free, ref, cached, qref, demand, depth>>

PoolInit ==
    /\ mode \in Modes
    /\ free = SetToSeq(Block)
    /\ ref = [b \in Block |-> 0] /\ qref = [b \in Block |-> 0]
    /\ cached = [h \in Hash |-> <<>>]
    /\ demand = [h \in Hash |-> 0] /\ depth = [h \in Hash |-> 0]

(* External: get_cached_block finds the block that has had the hash        *)
(* longest.                                                                *)
IsCached(h) == cached[h] # <<>>
GetCachedBlock(h) == Head(cached[h])

-----------------------------------------------------------------------------
(* Online.  The hash of a block that some waiting request wants.           *)
WantedAs(b) == {h \in Hash : b \in ToSet(cached[h]) /\ demand[h] > 0}

(* Higher is better protected; 0 when nobody wants the block.              *)
Priority(b) ==
    Max({0} \cup {demand[h] * (IF mode = "cluster" THEN 1 + depth[h] ELSE 1) : h \in WantedAs(b)})

Cap(n) == IF ScanCap[mode] > 0 THEN ScanCap[mode] ELSE Max({4 * n, MinScanCap})

(* The scan from the head: it picks what nobody wants, sets the rest aside *)
(* and stops with n picked or at the cap.                                  *)
Scan(q, n) ==
    LET look     == 1..Min({Len(q), Cap(n)})
        unwanted == {i \in look : WantedAs(q[i]) = {}}
        scanned  == {i \in look : Cardinality({j \in unwanted : j < i}) < n}
    IN [picked |-> Subsequence(q, unwanted \cap scanned),
        aside  |-> Subsequence(q, scanned \ unwanted)]

(* Mutant: what was set aside is used in queue order.                      *)
CheapestUnsorted(aside) == aside

(* low_demand.sort: lowest priority first, queue order among equals.       *)
Cheapest(aside) == StableSort(aside, LAMBDA b, c : Priority(b) < Priority(c))

(* External: popleft_n, the choice of stock vllm.                          *)
StockVictims(q, n) == SubSeq(q, 1, n)

(* _peek_get_new_blocks: stock order when there is no demand at all, or    *)
(* when the cap left too few to choose from.                               *)
OnlineVictims(q, n) ==
    LET s == Scan(q, n)
        need == n - Len(s.picked)
    IN IF (\A h \in Hash : demand[h] = 0) \/ need > Len(s.aside) THEN StockVictims(q, n)
       ELSE s.picked \o SubSeq(Cheapest(s.aside), 1, need)

-----------------------------------------------------------------------------
(* Offline: popleft_queue_aware, unprotected blocks in queue order, then   *)
(* the protected ones, fewest references first.                            *)
PopleftQueueAware(q, n) ==
    LET protected == Subsequence(q, {i \in DOMAIN q : qref[q[i]] > 0})
    IN IF protected = <<>> THEN StockVictims(q, n)
       ELSE SubSeq(Subsequence(q, {i \in DOMAIN q : qref[q[i]] = 0})
                     \o StableSort(protected, LAMBDA b, c : qref[b] < qref[c]), 1, n)

(* get_new_blocks: the n blocks of the free queue q that are handed out.   *)
GetNewBlocks(q, n) ==
    CASE mode \in {"plain", "cluster"} -> OnlineVictims(q, n)
      [] mode \in {"refs", "engine"}   -> PopleftQueueAware(q, n)
      [] mode = "off"                  -> StockVictims(q, n)

(* Mutant: as many blocks leave the queue, but from its head (popleft_n).  *)
DetachHeadOnly(q, out) == SubSeq(q, Len(out) + 1, Len(q))

(* remove of every victim from the free queue.                             *)
Detach(q, out) == Subsequence(q, {i \in DOMAIN q : q[i] \notin ToSet(out)})

(* reset_queue_ref_counts, and the counts after one inc_queue_ref_count of *)
(* the cached block of each hash in each of `lists`.                       *)
ResetQueueRefCounts == [b \in Block |-> 0]
IncQueueRefs(q, lists) ==
    LET places(b) == {x \in Places(lists) : /\ IsCached(lists[x[1]][x[2]])
                                            /\ GetCachedBlock(lists[x[1]][x[2]]) = b}
    IN [b \in Block |-> q[b] + Cardinality(places(b))]
=============================================================================
