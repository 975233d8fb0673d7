----------------------------- MODULE OfflineOrders -----------------------------
(***************************************************************************)
(* The reorders of a waiting queue that offline/scheduler.py offers beside *)
(* the engines.  A queue is the sequence of its requests' keys (block      *)
(* hashes, tokens); a reorder gives the order of the indices.              *)
(***************************************************************************)
EXTENDS Trie

Identity(seqs) == [i \in DOMAIN seqs |-> i]

(* detect_sharing: two requests begin with the same hash.                  *)
DetectSharing(seqs) ==
    \E i, j \in DOMAIN seqs : /\ i # j /\ seqs[i] # <<>> /\ seqs[j] # <<>>
                              /\ Head(seqs[i]) = Head(seqs[j])

(* The first n elements of a key.                                          *)
KeyPrefix(key, n) == SubSeq(key, 1, Min({n, Len(key)}))

(* Every prefix of a key of the queue.                                     *)
KeyPrefixes(seqs) == UNION {{KeyPrefix(seqs[i], n) : n \in 0..Len(seqs[i])} : i \in DOMAIN seqs}

-----------------------------------------------------------------------------
(* reorder_requests_by_prefix, of requests that have a hash.               *)
ReorderRequestsByPrefix(seqs) ==
    LET groups == GroupBy(Identity(seqs), LAMBDA i : seqs[i][1])
        sorted == StableSort(groups, LAMBDA g, h : Len(g) > Len(h))
    IN FlattenSeq([k \in DOMAIN sorted |->
                     StableSort(sorted[k], LAMBDA i, j : Len(seqs[i]) < Len(seqs[j]))])

(* _fast_prefix_group_reorder                                              *)
FastPrefixGroupReorder(seqs, keyLen) ==
    LET groups == GroupBy(Identity(seqs), LAMBDA i : KeyPrefix(seqs[i], keyLen))
    IN FlattenSeq(StableSort(groups, LAMBDA g, h : Len(g) > Len(h)))

(* sglang_post_match_reorder: groups by matched node, the one with the     *)
(* most cached tokens in all first.                                        *)
PostMatchReorder(nodes, hits) ==
    LET groups == GroupBy(Identity(nodes), LAMBDA i : nodes[i])
        total(g) == SumFunctionOnSet(hits, ToSet(g))
    IN FlattenSeq(StableSort(groups, LAMBDA g, h : total(g) > total(h)))

-----------------------------------------------------------------------------
(* Nodes in the order of prefix_groups_with_tokens: the stack yields the   *)
(* child inserted last first.                                              *)
LastChildFirst(t) ==
    LET nodes[p \in DOMAIN t] ==
          LET kids == Reverse(t[p].kids)
          IN <<p>> \o FlattenSeq([k \in DOMAIN kids |-> nodes[Append(p, kids[k])]])
    IN nodes[<<>>]

(* Groups with their common key, then the requests in no group.            *)
TrieGroups(seqs) ==
    LET t       == BuildTrie(seqs)
        order   == LastChildFirst(t)
        groups  == PrefixGroups(t, 1)
        shared  == Subsequence(order, {n \in DOMAIN order : \E g \in groups : g[1] = order[n]})
        grouped == UNION {g[2] : g \in groups}
        alone   == Ascending(DOMAIN seqs \ grouped)
    IN [k \in DOMAIN shared |-> <<shared[k], AllIndices(t, shared[k])>>]
       \o [k \in DOMAIN alone |-> <<seqs[alone[k]], {alone[k]}>>]

(* Mutant: only the groups are put back, not the requests in none.         *)
GroupAndScoreGroupsOnly(seqs, cached) ==
    LET all    == TrieGroups(seqs)
        groups == Subsequence(all, {k \in DOMAIN all : Cardinality(all[k][2]) > 1})
    IN FlattenSeq([k \in DOMAIN groups |-> Ascending(groups[k][2])])

(* The members of a group, the shortest request first.                     *)
ByLength(seqs, I) ==
    InOrder(I, {p \in I \X I : \/ Len(seqs[p[1]]) < Len(seqs[p[2]])
                               \/ Len(seqs[p[1]]) = Len(seqs[p[2]]) /\ p[1] < p[2]})

(* _group_and_score_sglang: the groups that save most first.               *)
(* cached: how much of each key is in the cache.                           *)
GroupAndScore(seqs, cached) ==
    LET score(g) == cached[g[1]] * Cardinality(g[2])
        scored   == StableSort(TrieGroups(seqs), LAMBDA g, h : score(g) > score(h))
    IN FlattenSeq([k \in DOMAIN scored |-> ByLength(seqs, scored[k][2])])

(* sglang_cached_prefix_length of a radix tree with these nodes: edges     *)
(* count as a whole or not at all.                                         *)
RadixCachedLength(nodes, key) ==
    Max({Len(n) : n \in {n \in nodes : IsPrefix(n, key)}} \cup {0})

(* sglang_group_schedule                                                   *)
SglangGroupSchedule(seqs, nodes, threshold, keyLen) ==
    IF Len(seqs) < threshold
       \/ ~\E i, j \in DOMAIN seqs : /\ i # j /\ seqs[i] # <<>>
                                     /\ KeyPrefix(seqs[i], keyLen) = KeyPrefix(seqs[j], keyLen)
    THEN Identity(seqs)
    ELSE GroupAndScore(seqs, [key \in KeyPrefixes(seqs) |-> RadixCachedLength(nodes, key)])

(* vllm_group_schedule                                                     *)
VllmGroupSchedule(seqs, cached, threshold) ==
    IF Len(seqs) <= 1 \/ Len(seqs) < threshold \/ ~DetectSharing(seqs) THEN Identity(seqs)
    ELSE GroupAndScore(seqs, cached)

(* vllm_reorder_waiting_queue: with a queue as long as the threshold the   *)
(* client is trusted to have ordered it.                                   *)
VllmReorderWaitingQueue(seqs, threshold) ==
    IF Len(seqs) <= 1 \/ Len(seqs) >= threshold THEN Identity(seqs)
    ELSE ReorderForPrefixSharing(seqs, 1, 1)

(* sglang_reorder_waiting_queue without a cache to look at.                *)
SglangReorderWaitingQueue(seqs, threshold, minDepth, minAvgDepth) ==
    IF Len(seqs) < threshold THEN Identity(seqs)
    ELSE ReorderForPrefixSharing(seqs, minDepth, minAvgDepth)
=============================================================================
