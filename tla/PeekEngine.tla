------------------------------ MODULE PeekEngine ------------------------------
(***************************************************************************)
(* How a scheduling round ranks the waiting queue of a patched sglang      *)
(* server: PeekEngine of offline/engine.py, the stock policies it replaces *)
(* (schedule_policy.py) and the older entry point sglang_pre_schedule of   *)
(* offline/scheduler.py.  A ranking takes a memory value, the queue and    *)
(* the nodes protected in the last round (prev, NoPrev before the first)   *)
(* and gives the set of its outcomes [mem, queue, prev]: the order of      *)
(* groups that access and waiting times decide is left open.               *)
(***************************************************************************)
EXTENDS KvMemory, Ordering

CONSTANTS
    KeyTokens,              \* PeekEngine._KEY_LEN, key_len of detect_sharing_sglang
    TagTokens,              \* max_depth of the client that tagged the requests
    CheckThreshold,         \* IN_BATCH_PREFIX_CACHING_CHECK_THRESHOLD
    DeprioritizeThreshold,  \* IN_BATCH_PREFIX_CACHING_DEPRIORITIZE_THRESHOLD
    NoPrev                  \* _peek_prev_protected has not been set yet

(* The group key: the first tokens of the prompt.                          *)
KeyOf(r) == SubSeq(Prompt[r], 1, Min({KeyTokens, Len(Prompt[r])}))

(* The group key in the tag of a rid (_parse_peek_rid): the client's hash  *)
(* of the first tokens, taken as injective.                                *)
TagOf(r) == SubSeq(Prompt[r], 1, Min({TagTokens, Len(Prompt[r])}))

(* detect_sharing_sglang                                                   *)
DetectSharing(queue) ==
    \E i, j \in DOMAIN queue : i # j /\ KeyOf(queue[i]) = KeyOf(queue[j])

(* _reset_protection: the walk up from every node protected last time.     *)
ResetProtection(c, prev) ==
    IF prev = NoPrev THEN ResetAllQueueRefs(c)
    ELSE [c EXCEPT !.node = [n \in DOMAIN @ |->
            IF \E i \in DOMAIN prev : IsPrefix(n, prev[i]) THEN [@[n] EXCEPT !.qref = 0]
            ELSE @[n]]]

Reset(m, prev) == [m EXCEPT !.tree = ResetProtection(@, prev)]

(* Protection: inc_queue_ref of each node, and the list is remembered.     *)
Protect(m, queue, nodes) ==
    [mem |-> [m EXCEPT !.tree = IncQueueRefs(@, nodes)], queue |-> queue, prev |-> nodes]

-----------------------------------------------------------------------------
(* Match the first member of a group; every member gets its result.        *)
MatchGroup(m, members) ==
    LET t == MatchPrefix(m.tree, Tokens(m, Head(members)))
    IN [m EXCEPT !.tree = t.cache,
          !.req = [r \in Req |-> IF r \notin Range(members) THEN @[r]
                   ELSE [@[r] EXCEPT !.hit = Len(t.node), !.node = t.node,
                                     !.matched = TRUE]]]

(* protect_k: three quarters of the groups whose prompts fit the cache.    *)
ProtectCount(m, groups) ==
    LET G      == Len(groups)
        sum    == FoldSeq(LAMBDA g, n : n + Len(Prompt[Head(g)]), 0, groups)
        total  == TotalSize(m.tree)
        fitting == IF G > 0 /\ total > 0 THEN (total * G) \div Max({sum, G}) ELSE G
    IN Min({G, Max({1, (fitting * 3) \div 4})})

(* The nodes of the first groups of `ranked` that have anything cached.    *)
TopNodes(m, ranked) ==
    LET top == SelectSeq(SubSeq(ranked, 1, ProtectCount(m, ranked)),
                         LAMBDA g : m.req[Head(g)].hit > 0)
    IN [i \in DOMAIN top |-> m.req[Head(top[i])].node]

(* Matching by group, any order of the groups, protection of the first.    *)
RankGroups(m, groups) ==
    LET mm == FoldLeft(MatchGroup, m, groups)
    IN {Protect(mm, FlattenSeq(ranked), TopNodes(mm, ranked)) : ranked \in Reorderings(groups)}

(* _run_tagged: requests grouped by the tag in their rid.  The queue is    *)
(* rebuilt from the groups.                                                *)
RunTagged(m, queue, prev, tagged) ==
    LET isTagged(r) == r \in tagged
    IN RankGroups(Reset(m, prev), GroupBy(SelectSeq(queue, isTagged), TagOf))

(* sglang_pre_schedule with queue-aware eviction: without sharing it       *)
(* returns before the protection of the last round is reset.               *)
PreSchedule(m, queue, prev) ==
    IF DetectSharing(queue) THEN RankGroups(Reset(m, prev), GroupBy(queue, KeyOf))
    ELSE {[mem |-> m, queue |-> queue, prev |-> prev]}

-----------------------------------------------------------------------------
CommonLen(a, b) ==
    Max({n \in 0..Min({Len(a), Len(b)}) : SubSeq(a, 1, n) = SubSeq(b, 1, n)})

(* One turn of the loop of _compute_prefix_matches.  `batch` holds what    *)
(* was put in the in-batch tree, `late` who is deprioritized.  A request   *)
(* that was matched with its group is passed over.                         *)
MatchOne(acc, r) ==
    LET toks == Tokens(acc.mem, r)
        t    == MatchPrefix(acc.mem.tree, toks)
        mm   == [acc.mem EXCEPT !.tree = t.cache, !.req[r].hit = Len(t.node),
                                !.req[r].node = t.node]
        inBatch == Max({CommonLen(toks, b) : b \in acc.batch} \cup {0})
    IN IF acc.mem.req[r].matched THEN acc
       ELSE IF Len(t.node) > CheckThreshold THEN [acc EXCEPT !.mem = mm]
       ELSE IF inBatch >= DeprioritizeThreshold
            THEN [acc EXCEPT !.mem = mm, !.late = @ \cup {r}]
            ELSE [acc EXCEPT !.mem = mm, !.batch = @ \cup {toks}]

ComputePrefixMatches(m, queue) ==
    FoldLeft(MatchOne, [mem |-> m, batch |-> {}, late |-> {}], queue)

(* _sort_by_longest_prefix                                                 *)
SortByLongestPrefix(m, queue, late) ==
    StableSort(queue, LAMBDA x, y : \/ x \notin late /\ y \in late
                                    \/ /\ x \notin late /\ y \notin late
                                       /\ m.req[x].hit > m.req[y].hit)

(* Requests of the queue at or below a node of the tree.                   *)
Below(m, queue, n) == {r \in Range(queue) : IsPrefix(n, m.req[r].node)}

(* _sort_by_dfs_weight, with _calc_weight and _get_dfs_priority: the queue *)
(* is rebuilt by a walk over the tree, the subtree with most requests      *)
(* first and a node after what is below it.  The dict order of subtrees    *)
(* with equal weights is left open.                                        *)
SortByDfsWeight(m, queue) ==
    LET node(r)   == m.req[r].node
        place(s, r) == CHOOSE i \in DOMAIN s : s[i] = r
        weight(n) == Cardinality(Below(m, queue, n))
        under(n, r) == IsPrefix(n, node(r))
        tops(x, y) == {p \in Ancestors(m.tree, node(x)) \X Ancestors(m.tree, node(y)) :
                         /\ ~under(p[1], y) /\ ~under(p[2], x)
                         /\ Parent(m.tree, p[1]) = Parent(m.tree, p[2])}
        before(s, x, y) == place(s, x) < place(s, y)
        together(s, n) == \A x, y \in Below(m, queue, n), z \in Range(s) :
                             before(s, x, z) /\ before(s, z, y) => under(n, z)
    IN {s \in Reorderings(queue) :
          /\ \A n \in DOMAIN m.tree.node : together(s, n)
          /\ \A x, y \in Range(s) : before(s, x, y) =>
                /\ node(x) = node(y) => before(queue, x, y)
                /\ ~IsStrictPrefix(node(x), node(y))
                /\ \A p \in tops(x, y) : weight(p[1]) >= weight(p[2])}

(* Statistics of a group of _queue_depth_reorder, its late members aside.  *)
GroupStats(m, g) ==
    [reqs |-> g, count |-> Len(g), plen |-> Len(Prompt[Head(g)]),
     cached |-> FoldSeq(LAMBDA r, n : n + m.req[r].hit, 0, g),
     node |-> m.req[Head(g)].node, hit |-> m.req[Head(g)].hit]

(* The target set: groups in order of investment while they fit the        *)
(* budget; the first always does.  Without a budget all are targets.       *)
Targets(stats, budget) ==
    LET used(i) == FoldSeq(LAMBDA s, n : n + s.plen, 0, SubSeq(stats, 1, i))
    IN IF budget = 0 THEN DOMAIN stats
       ELSE {i \in DOMAIN stats : \A j \in 2..i : used(j) <= budget}

(* target_bonus + cache_frac * 1000 + queue_count, as a fraction.          *)
ScoreNum(s, isTarget) ==
    ((IF isTarget THEN 10000 ELSE 0) + s.count) * s.plen * s.count + 1000 * s.cached
ScoreDen(s) == s.plen * s.count

(* Mutant: the deprioritized requests are set aside and not put back.      *)
QueueDepthReorderDropsLate(m, queue, late) ==
    Protect(m, FlattenSeq(GroupBy(SelectSeq(queue, LAMBDA r : r \notin late), KeyOf)), <<>>)

(* _queue_depth_reorder                                                    *)
QueueDepthReorder(m, queue, late) ==
    LET groups == GroupBy(queue, KeyOf)
        lateInGroups == SelectSeq(FlattenSeq(groups), LAMBDA r : r \in late)
        normal == SelectSeq([i \in DOMAIN groups |->
                               SelectSeq(groups[i], LAMBDA r : r \notin late)],
                            LAMBDA g : g # <<>>)
        stats  == StableSort([i \in DOMAIN normal |-> GroupStats(m, normal[i])],
                             LAMBDA s, t : s.count * s.plen > t.count * t.plen)
        target == Targets(stats, (TotalSize(m.tree) * 3) \div 4)
        scored == StableSort([i \in DOMAIN stats |-> <<stats[i], i \in target>>],
                             LAMBDA x, y : ScoreNum(x[1], x[2]) * ScoreDen(y[1])
                                             > ScoreNum(y[1], y[2]) * ScoreDen(x[1]))
        protect == SelectSeq([i \in DOMAIN stats |-> <<stats[i], i \in target>>],
                             LAMBDA x : x[2] /\ x[1].node # NoNode /\ x[1].hit > 0)
    IN Protect(m, FlattenSeq([i \in DOMAIN scored |-> scored[i][1].reqs]) \o lateInGroups,
               [i \in DOMAIN protect |-> protect[i][1].node])

(* _run_full                                                               *)
RunFull(m, queue, prev) ==
    LET c == ComputePrefixMatches(Reset(m, prev), queue)
    IN {IF Len(queue) > 1 /\ DetectSharing(queue)
        THEN QueueDepthReorder(c.mem, queue, c.late)
        ELSE Protect(c.mem, SortByLongestPrefix(c.mem, queue, c.late), <<>>)}

(* PeekEngine.run: the head of the queue decides which path is taken.      *)
Run(m, queue, prev, tagged) ==
    IF queue # <<>> /\ Head(queue) \in tagged THEN RunTagged(m, queue, prev, tagged)
    ELSE RunFull(m, queue, prev)

-----------------------------------------------------------------------------
(* The orders that do not look at the cache (fcfs, lof, routing-key and    *)
(* random, and the priorities of fcfs), of which random gives any.         *)
CacheAgnosticOrders(queue) == Reorderings(queue)

(* calc_priority.  With peek off the stock policy ranks.                   *)
CalcPriority(policy, m, queue, prev, tagged) ==
    LET c == ComputePrefixMatches(m, queue)
    IN CASE policy = "peek" -> Run(m, queue, prev, tagged)
         [] policy = "pre-schedule" -> PreSchedule(m, queue, prev)
         [] policy = "lpm" -> {[mem |-> c.mem, prev |-> prev,
                                queue |-> SortByLongestPrefix(c.mem, queue, c.late)]}
         [] policy = "dfs-weight" -> {[mem |-> c.mem, prev |-> prev, queue |-> q] :
                                         q \in SortByDfsWeight(c.mem, queue)}
         [] policy = "random" -> {[mem |-> m, prev |-> prev, queue |-> q] :
                                     q \in CacheAgnosticOrders(queue)}
=============================================================================
