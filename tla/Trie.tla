--------------------------------- MODULE Trie ---------------------------------
(***************************************************************************)
(* PrefixTrie of offline/trie.py as operators on a trie value: a function  *)
(* from the paths of its nodes (the root is <<>>) to                       *)
(*   count   prompts whose path passes through the node; the root's is 0   *)
(*   idx     prompt_indices that end here                                  *)
(*   kids    the tokens of the children, in dict order                     *)
(* and reorder_for_prefix_sharing (offline/reorder.py), which uses it.     *)
(***************************************************************************)
EXTENDS Ordering, Functions, TLC

CONSTANT MaxDepth       \* max_depth

ASSUME TrieAssumption == MaxDepth \in Nat

EmptyTrie == [p \in {<<>>} |-> [count |-> 0, idx |-> <<>>, kids |-> <<>>]]

(* The part of a prompt that goes into the trie.                           *)
PathOf(toks) == SubSeq(toks, 1, Min({Len(toks), MaxDepth}))

(* The nodes below the root on the way to `path`.                          *)
Along(path) == {SubSeq(path, 1, i) : i \in 1..Len(path)}

(* insert: the nodes that are missing on the way are made, each the last   *)
(* child of the one before, and every node on the way counts one more.     *)
InsertPrompt(t, toks, i) ==
    LET path    == PathOf(toks)
        new     == Along(path) \ DOMAIN t
        node(p) == IF p \in new THEN [count |-> 0, idx |-> <<>>, kids |-> <<>>] ELSE t[p]
        made(p) == {k \in Range(path) : Append(p, k) \in new}
    IN [p \in DOMAIN t \cup new |->
          [count |-> node(p).count + (IF p \in Along(path) THEN 1 ELSE 0),
           idx   |-> IF p = path THEN Append(node(p).idx, i) ELSE node(p).idx,
           kids  |-> node(p).kids \o SetToSeq(made(p))]]

(* The counts and the index go; nodes stay.                                *)
Decrement(t, path, i) ==
    [[p \in DOMAIN t |-> IF p \in Along(path) THEN [t[p] EXCEPT !.count = @ - 1] ELSE t[p]]
        EXCEPT ![path].idx = RemoveFirst(@, i)]

(* Mutant: the nodes that became empty are kept.                           *)
RemoveKeepsNodes(t, toks, i) ==
    LET path == PathOf(toks)
    IN IF path \notin DOMAIN t \/ i \notin Range(t[path].idx) THEN t ELSE Decrement(t, path, i)

(* remove: useless nodes go, bottom up, until one is of use, which is one  *)
(* with more than the child on the way.                                    *)
RemovePrompt(t, toks, i) ==
    LET path   == PathOf(toks)
        u      == Decrement(t, path, i)
        InUse(p) == \/ u[p].count # 0 \/ u[p].idx # <<>>
                    \/ \E k \in Range(u[p].kids) : Append(p, k) \notin Along(path)
        gone   == {p \in Along(path) : \A q \in Along(path) : IsPrefix(p, q) => ~InUse(q)}
    IN IF path \notin DOMAIN t \/ i \notin Range(t[path].idx) THEN t
       ELSE [p \in DOMAIN u \ gone |->
               [u[p] EXCEPT !.kids = Without(@, {k \in Range(@) : Append(p, k) \in gone})]]

-----------------------------------------------------------------------------
(* The order in which the stack of a traversal yields the children.  Sorted*)
(* ascending and popped from the end: of children with equal counts the    *)
(* one inserted last comes first.                                          *)
Visit(t, p, countAware) ==
    IF countAware /\ Len(t[p].kids) > 1
    THEN Reverse(StableSort(t[p].kids,
                            LAMBDA a, b : t[Append(p, a)].count < t[Append(p, b)].count))
    ELSE t[p].kids

(* dfs_group_keys: the paths where a prompt ends.                          *)
DfsGroupKeys(t, countAware) ==
    LET keys[p \in DOMAIN t] ==
          LET kids == Visit(t, p, countAware)
          IN (IF t[p].idx = <<>> THEN <<>> ELSE <<p>>)
             \o FlattenSeq([k \in DOMAIN kids |-> keys[Append(p, kids[k])]])
    IN keys[<<>>]

(* Mutant: a node yields one of its prompts.                               *)
DfsOrderFirstOnly(t, countAware) ==
    LET keys == DfsGroupKeys(t, countAware)
    IN [k \in DOMAIN keys |-> t[keys[k]].idx[1]]

(* dfs_order                                                               *)
DfsOrder(t, countAware) ==
    LET keys == DfsGroupKeys(t, countAware)
    IN FlattenSeq([k \in DOMAIN keys |-> t[keys[k]].idx])

(* The topmost of the nodes in S that are at least `depth` deep.           *)
Maximal(S, depth) ==
    LET deep == {p \in S : Len(p) >= depth}
    IN {p \in deep : ~\E q \in deep : IsStrictPrefix(q, p)}

(* sharing_score, as [grouped, most, depths]: coverage is grouped over the *)
(* number of prompts, the average depth is depths over grouped.            *)
SharingScore(t, minDepth) ==
    LET top == Maximal({p \in DOMAIN t : t[p].count >= 2}, minDepth)
        realDepth[p \in DOMAIN t] ==
            IF Len(t[p].kids) = 1 /\ t[p].idx = <<>> THEN realDepth[Append(p, t[p].kids[1])]
            ELSE Len(p)
    IN [grouped |-> SumFunctionOnSet([p \in top |-> t[p].count], top),
        most    |-> Max({t[p].count : p \in top} \cup {0}),
        depths  |-> SumFunctionOnSet([p \in top |-> realDepth[p] * t[p].count], top)]

(* _all_indices                                                            *)
AllIndices(t, p) == UNION {Range(t[q].idx) : q \in {q \in DOMAIN t : IsPrefix(p, q)}}

(* prefix_groups, and prefix_groups_with_tokens, which also names p.       *)
PrefixGroups(t, minLen) ==
    LET big == {p \in DOMAIN t : Cardinality(AllIndices(t, p)) >= 2}
    IN {<<p, AllIndices(t, p)>> : p \in Maximal(big, minLen)}

-----------------------------------------------------------------------------
(* _full_duplication_ratio, times the number of sequences.                 *)
Duplicated(seqs) ==
    Cardinality({i \in DOMAIN seqs : \E j \in DOMAIN seqs : j # i /\ seqs[i] = seqs[j]})

(* build                                                                   *)
BuildTrie(seqs) ==
    LET after[n \in 0..Len(seqs)] ==
          IF n = 0 THEN EmptyTrie ELSE InsertPrompt(after[n - 1], seqs[n], n)
    IN after[Len(seqs)]

(* reorder_for_prefix_sharing.  The default thresholds are fractions: half *)
(* of the sequences duplicated, a tenth of them grouped.                   *)
ReorderForPrefixSharing(seqs, minDepth, minAvgDepth) ==
    LET identity == [i \in DOMAIN seqs |-> i]
        t == BuildTrie(seqs)
        s == SharingScore(t, minDepth)
    IN IF seqs = <<>> \/ 2 * Duplicated(seqs) > Len(seqs) THEN identity
       ELSE IF 10 * s.grouped < Len(seqs) \/ s.depths < minAvgDepth * s.grouped THEN identity
       ELSE DfsOrder(t, TRUE)
=============================================================================
