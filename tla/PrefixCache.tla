----------------------------- MODULE PrefixCache -----------------------------
(***************************************************************************)
(* The radix cache that peek patches into sglang                           *)
(* (offline/sglang_patches/patched_files/radix_cache.py), as operators on  *)
(* a cache value.  A node is named by the path of tokens from the root to  *)
(* its end; splitting a node keeps the ends of both halves, so a path      *)
(* names the same TreeNode object for as long as the node is in the tree.  *)
(*   kv         path of a cached page -> page of KV slots                  *)
(*   node       path of a node -> [lock, qref, depth, hash]                *)
(*   evictable, protected    the two running sums of tokens                *)
(*   leaves     evictable_leaves                                           *)
(*   mirror     what a consumer of the KV events believes to be cached     *)
(* The pool is counted in pages: the paged allocator frees whole pages.    *)
(* An extra_key makes the first page of a path distinct, nothing more.     *)
(***************************************************************************)
EXTENDS Naturals, Integers, Sequences, FiniteSets, FiniteSetsExt, SequencesExt, Functions

CONSTANT PageSize

ASSUME PageSizeAssumption == PageSize \in Nat \ {0}

Root == <<>>

(* _page_align_keys, and the truncation at the head of match_prefix.       *)
Aligned(key) == SubSeq(key, 1, (Len(key) \div PageSize) * PageSize)

(* The paths of the whole pages of `key`.                                  *)
PagePaths(key) == {SubSeq(key, 1, i * PageSize) : i \in 1..(Len(key) \div PageSize)}

(* RadixCache.reset; the consumer sees AllBlocksCleared.                   *)
EmptyCache ==
    [kv |-> [p \in {} |-> 0], node |-> [p \in {} |-> 0], evictable |-> 0,
     protected |-> 0, leaves |-> {}, mirror |-> {}]

-----------------------------------------------------------------------------
(* Reading the tree: parent pointers and children.                         *)

(* The nodes a walk from `path` up to the root passes, `path` included.    *)
Ancestors(c, path) == {q \in DOMAIN c.node : IsPrefix(q, path)}

Parent(c, path) ==
    LET above == {q \in DOMAIN c.node : IsStrictPrefix(q, path)} \cup {Root}
    IN CHOOSE q \in above : \A r \in above : Len(r) <= Len(q)

KeyLen(c, path) == Len(path) - Len(Parent(c, path))

HasChild(c, path) == \E q \in DOMAIN c.node : IsStrictPrefix(path, q)

Depth(c, path) == IF path = Root THEN 0 ELSE c.node[path].depth

TotalSize(c) == PageSize * Cardinality(DOMAIN c.kv)

(* The hash chain of the pages of a key below a node whose last hash is    *)
(* `prior`.  get_hash_str of (page, prior hash) is taken as injective.     *)
ComputeNodeHashValues(prior, key) ==
    [i \in 1..(Len(key) \div PageSize) |-> prior \o SubSeq(key, 1, i * PageSize)]

(* get_last_hash_value; the root has none.                                 *)
LastHash(c, path) == IF path = Root THEN <<>> ELSE Last(c.node[path].hash)

(* _update_leaf_status of each node of `nodes` (never the root).           *)
UpdateLeafStatus(c, nodes) ==
    [c EXCEPT !.leaves = (@ \ nodes) \cup
        {n \in nodes : c.node[n].lock <= 0 /\ ~HasChild(c, n)}]

-----------------------------------------------------------------------------
(* Mutant: the upper half starts without the queue references.             *)
UpperHalfUnreferenced(c, child, at) ==
    LET above == Parent(c, child)
    IN [c.node[child] EXCEPT !.qref = 0, !.depth = Depth(c, above) + Len(at) - Len(above),
            !.hash = SubSeq(@, 1, (Len(at) - Len(above)) \div PageSize)]

(* new_node of _split_node: it takes over lock_ref and queue_ref_count.    *)
UpperHalf(c, child, at) ==
    LET above == Parent(c, child)
    IN [c.node[child] EXCEPT !.depth = Depth(c, above) + Len(at) - Len(above),
            !.hash = SubSeq(@, 1, (Len(at) - Len(above)) \div PageSize)]

(* _split_node at the path `at`, which ends inside a node.                 *)
SplitNode(c, at) ==
    LET below == {q \in DOMAIN c.node : IsStrictPrefix(at, q)}
        child == CHOOSE q \in below : \A r \in below : Len(q) <= Len(r)
        pages == (Len(at) - Len(Parent(c, child))) \div PageSize
    IN [c EXCEPT !.node = (at :> UpperHalf(c, child, at)) @@
            [@ EXCEPT ![child].hash = SubSeq(@, pages + 1, Len(@))]]

(* The longest prefix of `key`, in whole pages, that is cached.            *)
LongestCached(c, key) ==
    LET hits == (PagePaths(key) \cap DOMAIN c.kv) \cup {Root}
    IN CHOOSE p \in hits : \A q \in hits : Len(q) <= Len(p)

ExposeNode(c, at) == IF at = Root \/ at \in DOMAIN c.node THEN c ELSE SplitNode(c, at)

(* match_prefix and match_prefix_readonly: they differ in access times and *)
(* hit counts only.  A match that ends inside a node splits it.            *)
MatchPrefix(c, key) ==
    LET at == LongestCached(c, key) IN [cache |-> ExposeNode(c, at), node |-> at]

(* The KV pages along `path` (device_indices of a match).                  *)
DeviceIndices(c, path) ==
    [i \in 1..(Len(path) \div PageSize) |-> c.kv[SubSeq(path, 1, i * PageSize)]]

(* _record_store_event, _record_remove_event, applied by the consumer.     *)
RecordStoreEvent(c, path) == [c EXCEPT !.mirror = @ \cup Range(c.node[path].hash)]
RecordRemoveEvent(c, path) == [c EXCEPT !.mirror = @ \ Range(c.node[path].hash)]

(* The leaf _insert_helper adds for the pages of `key` below `at`.         *)
NewLeaf(c, at, key, value) ==
    LET leaf == [lock |-> 0, qref |-> 0, depth |-> Depth(c, at) + Len(key) - Len(at),
                 hash |-> ComputeNodeHashValues(LastHash(c, at),
                                                SubSeq(key, Len(at) + 1, Len(key)))]
        pages == PagePaths(key) \ PagePaths(at)
    IN [c EXCEPT !.kv = [p \in pages |-> value[Len(p) \div PageSize]] @@ @,
                 !.node = (key :> leaf) @@ @,
                 !.evictable = @ + Len(key) - Len(at)]

(* insert / _insert_helper.  `value` holds the pages of `key`; the pages   *)
(* of the cached prefix are not taken.                                     *)
Insert(c, key, value) ==
    LET at == LongestCached(c, key)
        s  == ExposeNode(c, at)
        g  == NewLeaf(s, at, key, value)
    IN [prefix_len |-> Len(at),
        cache |-> IF at = key THEN s
                  ELSE RecordStoreEvent(UpdateLeafStatus(g, {key, at} \ {Root}), key)]

-----------------------------------------------------------------------------
SumKeyLen(c, nodes) == SumFunctionOnSet([n \in nodes |-> KeyLen(c, n)], nodes)

AddTo(c, nodes, lock, qref) ==
    [c EXCEPT !.node = [n \in DOMAIN @ |-> IF n \notin nodes THEN @[n]
        ELSE [@[n] EXCEPT !.lock = @ + lock, !.qref = @ + qref]]]

(* inc_lock_ref: the whole path is pinned.                                 *)
IncLockRef(c, path) ==
    LET up == Ancestors(c, path)
        size == SumKeyLen(c, {n \in up : c.node[n].lock = 0})
    IN [UpdateLeafStatus(AddTo(c, up, 1, 0), up) EXCEPT
           !.evictable = @ - size, !.protected = @ + size]

(* Mutant: only the node itself is released, its ancestors stay pinned.    *)
DecLockNode(c, path) ==
    LET up == {path} \ {Root}
        size == SumKeyLen(c, {n \in up : c.node[n].lock = 1})
    IN [UpdateLeafStatus(AddTo(c, up, -1, 0), up) EXCEPT
           !.evictable = @ + size, !.protected = @ - size]

(* dec_lock_ref.                                                           *)
DecLockRef(c, path) ==
    LET up == Ancestors(c, path)
        size == SumKeyLen(c, {n \in up : c.node[n].lock = 1})
    IN [UpdateLeafStatus(AddTo(c, up, -1, 0), up) EXCEPT
           !.evictable = @ + size, !.protected = @ - size]

(* inc_queue_ref of each path of a sequence.                               *)
IncQueueRefs(c, paths) ==
    [c EXCEPT !.node = [n \in DOMAIN @ |-> [@[n] EXCEPT
        !.qref = @ + Cardinality({i \in DOMAIN paths : IsPrefix(n, paths[i])})]]]

ResetAllQueueRefs(c) == [c EXCEPT !.node = [n \in DOMAIN @ |-> [@[n] EXCEPT !.qref = 0]]]

(* queue_aware_eviction_priority: a is evicted before b.  Referenced nodes *)
(* last; among them log(1 + ref) * depth decides, compared as powers; the  *)
(* time of last access, which decides between equals, is left open.        *)
EvictedBefore(c, a, b) ==
    LET worth(n) == IF c.node[n].qref = 0 THEN 0
                    ELSE (1 + c.node[n].qref) ^ Max({c.node[n].depth, 1})
    IN worth(a) < worth(b)

(* Mutant: as with plain LRU, any leaf may go first.                       *)
VictimsUnranked(c) == c.leaves

(* What the heap of evict() may yield next.                                *)
Victims(c) == {n \in c.leaves : \A m \in c.leaves : ~EvictedBefore(c, m, n)}

(* One turn of the loop of evict(): _delete_leaf and the remove event.     *)
DeleteLeaf(c, n) ==
    LET above == Parent(c, n)
        r == RecordRemoveEvent(c, n)
        d == [r EXCEPT !.kv = Restrict(@, DOMAIN @ \ (PagePaths(n) \ PagePaths(above))),
                       !.node = Restrict(@, DOMAIN @ \ {n}),
                       !.evictable = @ - KeyLen(c, n), !.leaves = @ \ {n}]
    IN UpdateLeafStatus(d, {above} \ {Root})
=============================================================================
