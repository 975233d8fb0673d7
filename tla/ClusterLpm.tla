------------------------------ MODULE ClusterLpm ------------------------------
(***************************************************************************)
(* The orders in which peek admits the waiting queue                       *)
(* (python/peek/online/lpm_integration.py, lpm_sort_order of               *)
(* src/pending.rs), as operators on                                        *)
(*   queue   the waiting queue, a sequence of distinct rids;               *)
(*   hit     rid -> tokens found in the KV cache (main_hit);               *)
(*   stamp   rid -> arrive_ts.                                             *)
(* Each order is the sequence of rids it leaves in the queue.  Scores and  *)
(* clusters are what PendingQueries shows the pending tree to answer for   *)
(* the queued requests.                                                    *)
(***************************************************************************)
EXTENDS Ordering, Functions

CONSTANTS
    Prompt,                 \* rid -> tokens; rids are numbers, in the order of their strings
    CheckThreshold,         \* a hit above it is warm
    DeprioritizeThreshold   \* tokens that claim a prefix

Rid == DOMAIN Prompt

(* A prompt is a sequence of tokens; the thresholds, when negative, turn   *)
(* the claims off, which is not modelled.                                  *)
ASSUME OrderAssumption ==
    /\ IsFiniteSet(Rid) /\ \A r \in Rid : Prompt[r] \in Seq(Nat)
    /\ CheckThreshold \in Nat /\ DeprioritizeThreshold \in Nat

(* Sorting positions 1..n by tuples of numbers, ties by position: sorted() *)
(* and sort_by are stable.                                                 *)
LexLess(s, t) ==
    \E k \in DOMAIN s : s[k] < t[k] /\ \A j \in 1..(k - 1) : s[j] = t[j]

SortedBy(queue, key) ==
    LET k == Evaluated(key)
    IN Evaluated(At(queue, InOrder(DOMAIN queue, {p \in (DOMAIN queue) \X (DOMAIN queue) :
           LexLess(k[p[1]], k[p[2]]) \/ (k[p[1]] = k[p[2]] /\ p[1] < p[2])})))

-----------------------------------------------------------------------------
(* Claims: a cold request long enough claims its first tokens.             *)
Claims(hit, r) ==
    hit[r] <= CheckThreshold /\ Len(Prompt[r]) >= DeprioritizeThreshold

ClaimKey(r) == SubSeq(Prompt[r], 1, DeprioritizeThreshold)

(* compute_in_batch_deprioritize: the i-th request wants a prefix that one *)
(* before it in the queue has claimed.                                     *)
Deprioritized(queue, hit, i) ==
    /\ Claims(hit, queue[i])
    /\ \E j \in 1..(i - 1) : Claims(hit, queue[j]) /\ ClaimKey(queue[j]) = ClaimKey(queue[i])

(* Warm, pioneer, sibling.                                                 *)
Section(queue, hit, i) ==
    CASE hit[queue[i]] > CheckThreshold   -> 0
      [] Deprioritized(queue, hit, i)     -> 2
      [] OTHER                            -> 1

-----------------------------------------------------------------------------
(* What the pending tree answers about the queued requests.                *)
SharedTokens ==
    [r \in Rid |-> [q \in Rid |->
        Max({k \in 0..Min({Len(Prompt[r]), Len(Prompt[q])}) :
               SubSeq(Prompt[r], 1, k) = SubSeq(Prompt[q], 1, k)})]]

Shared(r, q) == SharedTokens[r][q]

(* Overlap with every queued request, itself included, in tokens.          *)
ReqScore(queue, r) ==
    Cardinality({x \in ToSet(queue) \X (1..Len(Prompt[r])) : x[2] <= Shared(r, x[1])})

Depth(queue, r) == Max({0} \cup {Shared(r, q) : q \in ToSet(queue) \ {r}})

(* The finest cluster of r; empty when r shares nothing.                   *)
Cluster(queue, r) ==
    IF Depth(queue, r) = 0 THEN {}
    ELSE {q \in ToSet(queue) : Shared(r, q) >= Depth(queue, r)}

ClusterSize(queue, r) == Cardinality(Cluster(queue, r))

-----------------------------------------------------------------------------
(* Lane A: cache-warm and dense first.                                     *)
LaneA(queue, hit, stamp) ==
    SortedBy(queue, [i \in DOMAIN queue |->
        <<Section(queue, hit, i), -hit[queue[i]], -ReqScore(queue, queue[i]),
          -ClusterSize(queue, queue[i]), stamp[queue[i]]>>])

(* Mutant: the fairness lane forgets the sections.                         *)
LaneBNoSection(queue, hit, stamp) ==
    SortedBy(queue, [i \in DOMAIN queue |-> <<stamp[queue[i]], -hit[queue[i]]>>])

(* Lane B: oldest first within a section.                                  *)
LaneB(queue, hit, stamp) ==
    SortedBy(queue, [i \in DOMAIN queue |->
        <<Section(queue, hit, i), stamp[queue[i]], -hit[queue[i]]>>])

(* Positions of the queue in the group of the i-th request: same section   *)
(* and same cluster node (a singleton is a group of its own).              *)
Group(queue, hit, i) ==
    {i} \cup {j \in DOMAIN queue :
                /\ Section(queue, hit, j) = Section(queue, hit, i)
                /\ Cluster(queue, queue[i]) # {}
                /\ queue[j] \in Cluster(queue, queue[i])
                /\ Depth(queue, queue[j]) = Depth(queue, queue[i])}

(* Mutant: groups are not kept together by their first member.             *)
LaneAByScore(queue, hit, stamp) ==
    SortedBy(queue, [i \in DOMAIN queue |->
        <<Section(queue, hit, i),
          -(Depth(queue, queue[i]) * ClusterSize(queue, queue[i])),
          -hit[queue[i]], stamp[queue[i]]>>])

(* Lane A with group_major: the groups of a section by depth x size, oldest*)
(* member, first member; within a group by hit and age.                    *)
LaneAByGroup(queue, hit, stamp) ==
    SortedBy(queue, [i \in DOMAIN queue |->
        <<Section(queue, hit, i),
          -(Depth(queue, queue[i]) * ClusterSize(queue, queue[i])),
          Min({stamp[queue[j]] : j \in Group(queue, hit, i)}),
          Min(Group(queue, hit, i)),
          -hit[queue[i]], stamp[queue[i]]>>])

(* Mutant: the clocks start at zero, so Lane A waits for nobody.           *)
PickAFromZero(a, b, share) == a * (share.of - share.big) <= (b + 1) * share.big

(* a_vclock <= b_vclock after a picks of Lane A and b of Lane B, when      *)
(* big_lane_share is share.big / share.of.                                 *)
PickA(a, b, share) == (a + 1) * (share.of - share.big) <= (b + 1) * share.big

(* The first of a lane that neither lane has picked.                       *)
FirstUnpicked[lane \in Seq(Rid)] ==
    [picked \in Seq(Rid) |-> lane[Min({i \in DOMAIN lane : lane[i] \notin ToSet(picked)})]]

(* The stride scheduler: every pick advances the clock of its lane.  After *)
(* n picks, the order so far and how many are of each lane.                *)
StrideInterleave(laneA, laneB, share) ==
    LET pick[s \in [order : Seq(Rid), a : Nat, b : Nat]] ==
          IF PickA(s.a, s.b, share)
          THEN [order |-> Append(s.order, FirstUnpicked[laneA][s.order]), a |-> s.a + 1, b |-> s.b]
          ELSE [order |-> Append(s.order, FirstUnpicked[laneB][s.order]), a |-> s.a, b |-> s.b + 1]
        after[n \in 0..Len(laneA)] ==
          IF n = 0 THEN [order |-> <<>>, a |-> 0, b |-> 0] ELSE pick[after[n - 1]]
    IN after[Len(laneA)].order

(* peek_clpm_sort_inplace, where share is big_lane_share or what the       *)
(* dynamic_lane controller makes of it: one lane at either end of it.      *)
ClpmOrder(queue, hit, stamp, share, group_major) ==
    LET a == IF group_major THEN LaneAByGroup(queue, hit, stamp) ELSE LaneA(queue, hit, stamp)
        b == LaneB(queue, hit, stamp)
    IN CASE share.big = share.of -> a
         [] share.big = 0        -> b
         [] OTHER                -> StrideInterleave(a, b, share)

-----------------------------------------------------------------------------
(* Mutant: deprioritized requests are ranked by their hit like the others. *)
LpmBeforeByHit(m, dm, n, dn) == m > n

(* The comparison of lpm_sort_order.                                       *)
LpmBefore(m, dm, n, dn) == (~dm /\ dn) \/ (~dm /\ ~dn /\ m > n)

(* peek_sort_inplace with peek_lpm_sort: a stable sort by that comparison. *)
LpmOrder(queue, hit) ==
    LET depr == Evaluated([i \in DOMAIN queue |-> Deprioritized(queue, hit, i)])
        before(i, j) == LpmBefore(hit[queue[i]], depr[i], hit[queue[j]], depr[j])
    IN Evaluated(At(queue, InOrder(DOMAIN queue, {p \in (DOMAIN queue) \X (DOMAIN queue) :
           before(p[1], p[2]) \/ (~before(p[2], p[1]) /\ p[1] < p[2])})))

(* _sort_by_longest_prefix of sglang's scheduler: a stable sort, the key   *)
(* of a deprioritized request being infinite.                              *)
StockLpmOrder(queue, hit) ==
    SortedBy(queue, [i \in DOMAIN queue |->
        IF Deprioritized(queue, hit, i) THEN <<1, 0>> ELSE <<0, -hit[queue[i]]>>])
=============================================================================
