----------------------------- MODULE WaitingQueue -----------------------------
(***************************************************************************)
(* The waiting queue under peek's scheduler: requests arrive at the tail,  *)
(* every scheduling tick sorts the queue in place (_patched_calc_priority  *)
(* of the sglang hook, _reorder_waiting of the vllm hook) and the engine   *)
(* admits from its head.  Sorting, and the stride clocks with it, starts   *)
(* afresh in every tick, from the order the last tick left.                *)
(***************************************************************************)
EXTENDS ClusterLpm

CONSTANTS
    Policy,         \* "clpm", "clpm_group" (group_major) or "lpm" (PEEK_ONLINE_LPM)
    Shares,         \* values of big_lane_share, [big, of]: one, or those that
                    \* the dynamic_lane controller moves between
    Hits,           \* main_hit values the cache may answer with
    Admit,          \* requests the engine has room for in a tick that admits
    FallbackLen     \* queue length above which "lpm" does not sort

VARIABLES queue, stamp

ASSUME QueueAssumption ==
    /\ Policy \in {"clpm", "clpm_group", "lpm"} /\ Admit \in Nat /\ Hits \subseteq Nat
    /\ \A share \in Shares : share.of \in Nat \ {0} /\ share.big \in 0..share.of

vars == <<queue, stamp>>

Init == queue = <<>> /\ stamp = [r \in {} |-> 0]

(* Time stamps only matter by their order: renumber those of the queue q.  *)
Renumbered(q, s) ==
    [r \in ToSet(q) |-> Cardinality({s[x] : x \in {y \in ToSet(q) : s[y] < s[r]}})]

(* External: requests arrive; one sync sees them and stamps them alike.    *)
Arrive(new) ==
    /\ new # <<>> /\ IsInjective(new) /\ ToSet(new) \cap ToSet(queue) = {}
    /\ queue' = queue \o new
    /\ stamp' = [r \in ToSet(queue') |-> IF r \in ToSet(new) THEN Cardinality(Range(stamp))
                                                             ELSE stamp[r]]

(* External: the hits one state of the KV cache can give to the requests   *)
(* of q: two requests hit alike as far as they share a prefix.             *)
HitsOf(q) ==
    {hit \in [ToSet(q) -> Hits] :
       \A r, s \in ToSet(q) :
          /\ hit[r] <= Len(Prompt[r])
          /\ Min({hit[r], Shared(r, s)}) = Min({hit[s], Shared(r, s)})}

(* What a tick may leave in the queue before the engine admits.            *)
Sorted(hit, share) ==
    CASE Policy = "clpm"       -> ClpmOrder(queue, hit, stamp, share, FALSE)
      [] Policy = "clpm_group" -> ClpmOrder(queue, hit, stamp, share, TRUE)
      [] Policy = "lpm"        -> IF Len(queue) > FallbackLen THEN queue ELSE LpmOrder(queue, hit)

(* A tick that admits n requests, or all there are.                        *)
Tick(n) ==
    /\ queue # <<>>
    /\ \E hit \in HitsOf(queue), share \in Shares :
          queue' = SubSeq(Sorted(hit, share), n + 1, Len(queue))
    /\ stamp' = Renumbered(queue', stamp)

(* The engine may have no room, or room for Admit requests.                *)
Next ==
    \/ \E r \in Rid : Arrive(<<r>>)
    \/ \E r, s \in Rid : Arrive(<<r, s>>)
    \/ Tick(0)
    \/ Tick(Admit)

Spec == Init /\ [][Next]_vars

(* Requests run to completion and leave room: time and again a tick admits.*)
FairSpec == Spec /\ WF_vars(Tick(Admit))

-----------------------------------------------------------------------------
SectionsOf(q, hit) ==
    [r \in ToSet(q) |-> Section(q, hit, CHOOSE i \in DOMAIN q : q[i] = r)]

(* Whatever the lanes, the order of cluster-LPM loses and repeats no       *)
(* request, although both lanes hold them all; it never puts a sibling ahead *)
(* of the pioneer that is to warm its prefix, nor a cold request ahead of  *)
(* a warm one; and a tick that admits nobody changes nobody's role: the    *)
(* next tick finds the same pioneers (the claim set is rebuilt from the    *)
(* order the sort left).                                                   *)
PioneersKeepLead ==
    \A hit \in HitsOf(queue), share \in Shares, group_major \in BOOLEAN :
       LET order == ClpmOrder(queue, hit, stamp, share, group_major)
           sec   == SectionsOf(queue, hit)
       IN /\ IsInjective(order) /\ ToSet(order) = ToSet(queue)
          /\ \A i, j \in DOMAIN order : i < j => sec[order[i]] <= sec[order[j]]
          /\ SectionsOf(order, hit) = sec

(* The stride bound: the first k of Lane B are among the first             *)
(* floor(k / (1 - share)) admitted, the first k of Lane A among the first  *)
(* ceil(k / share), whatever the two lanes have in common.                 *)
LaneBounds ==
    \A hit \in HitsOf(queue), share \in Shares, group_major \in BOOLEAN :
       LET order == ClpmOrder(queue, hit, stamp, share, group_major)
           a     == IF group_major THEN LaneAByGroup(queue, hit, stamp)
                                   ELSE LaneA(queue, hit, stamp)
           b     == LaneB(queue, hit, stamp)
           small == share.of - share.big
           Within(lane, k, n) ==
              ToSet(SubSeq(lane, 1, k)) \subseteq ToSet(SubSeq(order, 1, Min({n, Len(order)})))
       IN \A k \in DOMAIN queue :
             /\ small > 0     => Within(b, k, (k * share.of) \div small)
             /\ share.big > 0 => Within(a, k, (k * share.of + share.big - 1) \div share.big)

(* With group_major the members of a group are admitted by Lane A without  *)
(* an outsider of their section in between ("emits group members           *)
(* contiguously").                                                         *)
GroupsContiguous ==
    \A hit \in HitsOf(queue) :
       LET order == LaneAByGroup(queue, hit, stamp)
           Place(i) == CHOOSE p \in DOMAIN order : order[p] = queue[i]
       IN \A i \in DOMAIN queue :
             LET places == {Place(j) : j \in Group(queue, hit, i)}
             IN Max(places) - Min(places) = Cardinality(places) - 1

(* With PEEK_ONLINE_LPM the sort is the one of stock sglang, also where    *)
(* hits tie and where requests are deprioritized.                          *)
LpmIsStock == \A hit \in HitsOf(queue) : LpmOrder(queue, hit) = StockLpmOrder(queue, hit)

(* Requests that share no prefix with another.                             *)
Singletons == {r \in Rid : \A q \in Rid \ {r} : Shared(r, q) = 0}

(* Lane B "Guarantees small/singleton clusters aren't starved"             *)
(* (lpm_integration.py): a request that is a cluster of its own, whatever  *)
(* else is in the queue, is admitted sooner or later.                      *)
NoStarvation == \A r \in Singletons : r \in ToSet(queue) ~> r \notin ToSet(queue)

=============================================================================
