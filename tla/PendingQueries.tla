---------------------------- MODULE PendingQueries ----------------------------
(***************************************************************************)
(* The questions the schedulers and evictors put to the pending tree       *)
(* (src/pending.rs, src/tree.rs), each compared in every reachable state   *)
(* with its meaning over the map rid -> tokens.                            *)
(***************************************************************************)
EXTENDS PendingTree

CONSTANT Caches     \* contents of the KV cache: sets of cached sequences

ASSUME CachesAssumption == Caches \subseteq SUBSET Seq(Nat)

LongestSharedPrefix(rid) ==
    IF rid \in DOMAIN paths THEN DeepestWithCount(tree, paths[rid], 2) ELSE 0

MatchPrefix(tokens) == DeepestWithCount(tree, tokens, 1)

(* Mutant: the contribution of an edge forgets the edge's length.          *)
EdgeWeightUnit(c) == c.pending_count

EdgeWeight(c) == c.pending_count * Len(c.edge)

(* compute_req_scores: every rid with the sum of the weights of the edges  *)
(* on its way from ROOT.                                                   *)
ReqScores ==
    LET Add(found, w)    == {<<f[1], f[2] + w>> : f \in found}
        from[n \in DOMAIN tree.nodes] ==
          {<<r, 0>> : r \in tree.nodes[n].terminators} \cup
          UNION {Add(from[c], EdgeWeight(tree.nodes[c])) : c \in Range(tree.nodes[n].children)}
    IN from[ROOT]

AllClusterInfo == [r \in DOMAIN paths |-> ClusterInfo(tree, r, paths[r])]

(* The external KV cache: longest cached prefix of `tokens`.               *)
CacheMatch(cache, tokens) == Max({0} \cup {MatchEdgeLen(c, tokens) : c \in cache})

(* assign_subtree_main_hit: every terminator below gets the same hit.      *)
AssignSubtree(node, hit) ==
    {<<r, hit>> : r \in UNION {tree.nodes[n].terminators :
                                  n \in Visited(tree, node, DOMAIN tree.nodes)}}

(* Mutant: the threshold itself is skipped.                                *)
SkipAtThreshold(established, count, min_pending_count) ==
    established /\ count <= min_pending_count

SkipChild(established, count, min_pending_count) ==
    established /\ count < min_pending_count

(* dualwalk: one cache query per edge; a miss inside an edge settles the   *)
(* whole subtree, so does a skipped child.  `path`, to which edges are     *)
(* appended and cut off again, is the path of the slot that is asked for;  *)
(* every slot the walk goes on from but ROOT has been asked for.           *)
MainHits(cache, min_pending_count) ==
    LET visit[n \in DOMAIN tree.nodes] ==
          LET hit == Len(NodePath(n))
              Child(c) ==
                LET path  == NodePath(c)
                    match == CacheMatch(cache, path)
                IN IF SkipChild(n # ROOT, tree.nodes[c].pending_count, min_pending_count)
                   THEN AssignSubtree(c, hit)
                   ELSE IF match >= Len(path) THEN visit[c] ELSE AssignSubtree(c, match)
          IN {<<r, hit>> : r \in tree.nodes[n].terminators}
             \cup UNION {Child(c) : c \in Range(tree.nodes[n].children)}
    IN visit[ROOT]

(* Mutant: the walk stops at the first ancestor anybody wants.             *)
StopsAtFirst(value, best) == best > 0

(* _max_ancestor_demand stops on "demand collapse".                        *)
Stops(value, best) == value = 0 /\ best > 0

(* Tokens at risk of the cached path of length n, a prefix of `tokens`.    *)
TokensAtRisk(tokens, n) == PendingDemand(tree, SubSeq(tokens, 1, n)) * n

(* _max_ancestor_demand: `ends` are the lengths of the paths of a cached   *)
(* node and its ancestors, all prefixes of `tokens`; they are visited from *)
(* the shortest on, and the first best one is kept.                        *)
MaxAncestorDemand(tokens, ends) ==
    LET Best(S)  == Max({0} \cup {TokensAtRisk(tokens, n) : n \in S})
        Upto(n)  == {m \in ends : m <= n}
        visited  == {n \in ends : \A m \in ends :
                        m < n => ~Stops(TokensAtRisk(tokens, m), Best(Upto(m)))}
        top      == Best(visited)
    IN [value  |-> top,
        len    |-> IF top = 0 THEN 0 ELSE Min({n \in visited : TokensAtRisk(tokens, n) = top}),
        levels |-> Cardinality(visited)]

-----------------------------------------------------------------------------
(* Tokens r shares with q, and with any other pending request.             *)
Shared(r, q)       == MatchEdgeLen(paths[r], paths[q])
SharedWithOther(r) == Max({0} \cup {Shared(r, q) : q \in DOMAIN paths \ {r}})

(* Eviction reads demand by path: pending_demand counts the requests that  *)
(* begin with the path even when it ends inside an edge, terminators_at    *)
(* those that end exactly there (tree.rs).                                 *)
DemandExact ==
    \A p \in Prompts :
       /\ p # <<>> => PendingDemand(tree, p) = Cardinality(StartingWith(p))
       /\ TerminatorsAt(tree, p) = Cardinality(EndingAt(p))

(* longest_shared_prefix is the longest prefix shared with another pending *)
(* request, match_prefix the longest prefix shared with any, also where    *)
(* they end inside an edge.                                                *)
SharedPrefixExact ==
    /\ \A r \in DOMAIN paths : LongestSharedPrefix(r) = SharedWithOther(r)
    /\ \A p \in Prompts :
          MatchPrefix(p) = Max({0} \cup {MatchEdgeLen(paths[q], p) : q \in DOMAIN paths})

(* The cluster of a request, found by climbing parent links, is the group  *)
(* that shares its longest shared prefix: same depth as                    *)
(* longest_shared_prefix, all its members counted, one node per group, and *)
(* no cluster exactly for the requests that share nothing.                 *)
ClustersExact ==
    \A r \in DOMAIN paths :
       LET info == AllClusterInfo[r]
           k    == SharedWithOther(r)
           group == StartingWith(SubSeq(paths[r], 1, k))
       IN IF k = 0 THEN info = NoCluster
          ELSE /\ info[2] = k /\ info[3] = Cardinality(group)
               /\ \A q \in DOMAIN paths : AllClusterInfo[q] # NoCluster =>
                     (AllClusterInfo[q][1] = info[1]
                        <=> q \in group /\ SharedWithOther(q) = k)

(* shared_rid_count and singleton_rid_count partition the pending requests *)
(* (zero-token prompts included), and has_sharing holds iff two of them    *)
(* share a first token.                                                    *)
CountersPartition ==
    LET sharing == {r \in DOMAIN paths : SharedWithOther(r) > 0}
    IN /\ SharedRidCount(tree) = Cardinality(sharing)
       /\ SingletonRidCount(tree) = Cardinality(DOMAIN paths \ sharing)
       /\ HasSharing(tree) <=> sharing # {}

(* prefix_position identifies a prefix of a pending request: two such      *)
(* prefixes are at the same position iff they are equal (the claim key of  *)
(* lpm_order stands in for hashing the tokens).                            *)
PositionsInjective ==
    LET known == UNION {Prefixes(paths[r]) : r \in DOMAIN paths}
    IN \A p, q \in known : PrefixPosition(tree, p) = PrefixPosition(tree, q) => p = q

(* longest_match_along finds the deepest overlap with any pending request  *)
(* and every rid it may answer with has that overlap; it answers none only *)
(* when nothing matches.                                                   *)
MatchAlongSound ==
    \A p \in Prompts :
       LET a == LongestMatchAlong(tree, p)
       IN /\ a.depth = Max({0} \cup {MatchEdgeLen(paths[q], p) : q \in DOMAIN paths})
          /\ \A r \in a.rids : MatchEdgeLen(paths[r], p) = a.depth
          /\ a.rids = {} <=> a.depth = 0

(* A request's score is the total overlap, in tokens, of all pending       *)
(* requests with it, itself included, and every request gets one score.    *)
ScoresExact ==
    ReqScores = {<<r, SumFunctionOnSet([q \in DOMAIN paths |-> Shared(r, q)], DOMAIN paths)>>
                   : r \in DOMAIN paths}

(* With min_pending_count 1 the dual walk gives every request exactly the  *)
(* cache hit a query of its own would give, for any cache contents.        *)
MainHitsExact ==
    \A cache \in Caches :
       MainHits(cache, 1) = {<<r, CacheMatch(cache, paths[r])>> : r \in DOMAIN paths}

(* With min_pending_count 2 only private tails are cut: a request that     *)
(* shares a prefix is matched up to the shared prefix, one that shares     *)
(* nothing is matched in full.                                             *)
MainHitsCutTails ==
    \A cache \in Caches :
       MainHits(cache, 2) =
         {<<r, Min({CacheMatch(cache, paths[r]),
                    IF SharedWithOther(r) = 0 THEN Len(paths[r]) ELSE SharedWithOther(r)})>>
            : r \in DOMAIN paths}

(* The eviction priority of a cached node is the largest demand x length   *)
(* over all its ancestors, whichever way the cache has cut the path into   *)
(* edges: leaving the walk early never misses a better ancestor below.     *)
AncestorDemandExact ==
    \A p \in Prompts \ {<<>>} :
       \A ends \in {E \cup {Len(p)} : E \in SUBSET (1..Len(p))} :
          MaxAncestorDemand(p, ends).value =
             Max({n * Cardinality(StartingWith(SubSeq(p, 1, n))) : n \in ends})

-----------------------------------------------------------------------------
(* What the LPM order asks: shared and matched prefixes, positions and     *)
(* overlaps, wherever in an edge they end.                                 *)
LookupsExact == SharedPrefixExact /\ PositionsInjective /\ MatchAlongSound

(* What eviction asks: the demand for a path and for the paths above it.   *)
EvictionDemandExact == DemandExact /\ AncestorDemandExact

(* What the cluster-LPM order asks: clusters, counters and scores.         *)
RankingExact == ClustersExact /\ CountersPartition /\ ScoresExact

(* What both ask of the KV cache, in one walk over both trees.             *)
DualWalkExact == MainHitsExact /\ MainHitsCutTails
=============================================================================
