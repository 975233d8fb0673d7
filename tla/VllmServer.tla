------------------------------ MODULE VllmServer ------------------------------
(***************************************************************************)
(* A patched vllm server: the scheduler calls peek's hook, then admits     *)
(* waiting requests, which take cached blocks and evict others.  The       *)
(* offline hook is vllm_on_schedule (offline/scheduler.py) with            *)
(* VllmPeekEngine (offline/engine_vllm.py); of the online hook this module *)
(* uses what VllmHook and WaitingQueue promise: exact demand, and a queue  *)
(* that is reordered.                                                      *)
(* vllm's scheduler is not part of the repository: its actions are marked  *)
(* external.  It is one thread; requests arrive and finish between calls.  *)
(* phase: "idle"; "first" and "more" are inside a call of schedule, before *)
(* and after the first admission.                                          *)
(* A request is new when it has a block hash; requests of which tokens are *)
(* computed already (KV connectors) would be treated like those without.   *)
(***************************************************************************)
EXTENDS BlockPool, OfflineOrders

CONSTANTS
    Req,
    Workloads,      \* [Modes -> workloads]: sequences of sets of requests, each set
                    \* sent when the one before is served
    BlockHashes,    \* [Req -> Seq(Hash)]
    GroupKeyLen,    \* VllmPeekEngine._KEY_LEN
    BatchEst,       \* VllmPeekEngine._BATCH_EST
    ShallowDepth, DeepDepth,    \* queue depths where buffering starts, and deepens
    MediumGroup, DeepGroup,     \* smallest group that is not buffered
    MaxPreempt,     \* bound: preemptions
    NoPrev          \* _prev_protected is None

VARIABLES
    phase,
    waiting,        \* scheduler.waiting
    running,        \* in the order of admission
    held,           \* the blocks of a request
    load,           \* the workload
    st,             \* "new", "waiting", "running", "done"
    preempts,
    first_seen,     \* _group_first_seen: group key -> age, in classes (see Age)
    prev            \* _prev_protected: the hashes, or NoPrev

vars == <<poolVars, load, phase, waiting, running, held, st, preempts, first_seen, prev>>

(* The age of a group: below 10 ms, from 10 ms, from 30 ms, above 0.5 s.   *)
Age == 0..3
Stale == 3

(* A block hash covers all the tokens up to its block: none comes twice in *)
(* a prompt.                                                               *)
ASSUME ServerAssumption ==
    /\ IsFiniteSet(Req) /\ BlockHashes \in [Req -> Seq(Hash)]
    /\ \A r \in Req : IsInjective(BlockHashes[r])
    /\ \A r \in Req : Len(BlockHashes[r]) < Cardinality(Block)
    /\ \A S \in SUBSET Hash : NoPrev # S
    /\ MaxPreempt \in Nat /\ BatchEst \in Nat /\ GroupKeyLen \in Nat

Init ==
    /\ PoolInit
    /\ phase = "idle" /\ waiting = <<>> /\ running = <<>>
    /\ load \in Workloads[mode]
    /\ held = [r \in Req |-> <<>>] /\ st = [r \in Req |-> "new"] /\ preempts = 0
    /\ first_seen = [k \in {} |-> 0] /\ prev = NoPrev

-----------------------------------------------------------------------------
(* _sync of the online hook with the queue w, _bump_rid and _drop_rid: the *)
(* demand is the number of waiting requests through a block, a depth goes  *)
(* only when its demand is gone.  Hashes do not grow and ids do not come   *)
(* back here (they do in VllmHook), so a skipped sync changes nothing.     *)
OnlineSync(w) ==
    LET through(h) == {r \in ToSet(w) : h \in ToSet(BlockHashes[r])}
        depths(h)  == {n \in 1..Cardinality(Hash) :
                         \E r \in through(h) : n \in DOMAIN BlockHashes[r] /\ BlockHashes[r][n] = h}
    IN /\ demand' = [h \in Hash |-> Cardinality(through(h))]
       /\ depth' = [h \in Hash |-> IF through(h) = {} THEN 0 ELSE Max({depth[h]} \cup depths(h))]

(* External: a request is queued; the online hook syncs at once.           *)
Arrive(r) ==
    /\ phase = "idle" /\ st[r] = "new"
    /\ \E i \in DOMAIN load : /\ r \in load[i]
                              /\ \A j \in 1..(i - 1) : \A q \in load[j] : st[q] = "done"
    /\ st' = [st EXCEPT ![r] = "waiting"]
    /\ waiting' = Append(waiting, r)
    /\ IF mode \in {"plain", "cluster"} THEN OnlineSync(waiting') ELSE UNCHANGED <<demand, depth>>
    /\ UNCHANGED <<mode, load, free, ref, cached, qref, phase, running, held, preempts, first_seen, prev>>

-----------------------------------------------------------------------------
IsNew(r) == BlockHashes[r] # <<>>
NewReqs == Subsequence(waiting, {i \in DOMAIN waiting : IsNew(waiting[i])})
Keys(reqs) == [i \in DOMAIN reqs |-> BlockHashes[reqs[i]]]

(* The hook goes on: more than one new request, and two that share.        *)
HookActs == Len(NewReqs) > 1 /\ DetectSharing(Keys(NewReqs))

(* vllm_cached_prefix_length                                               *)
CachedPrefixLength(hashes) ==
    Max({n \in 0..Len(hashes) : \A i \in 1..n : IsCached(hashes[i])})

CachedPrefix(r) == SubSeq(BlockHashes[r], 1, CachedPrefixLength(BlockHashes[r]))

(* Mutant: the counts of the last round stay.                              *)
UpdateWithoutReset ==
    IncQueueRefs(qref, [i \in DOMAIN NewReqs |-> CachedPrefix(NewReqs[i])])

(* update_queue_ref_counts                                                 *)
UpdateQueueRefCounts ==
    IncQueueRefs(ResetQueueRefCounts, [i \in DOMAIN NewReqs |-> CachedPrefix(NewReqs[i])])

-----------------------------------------------------------------------------
(* _match_and_score_groups: of each group what is cached of its first      *)
(* member, and cache_frac * 1e4 - future_refs + group_size * 1e-3, times   *)
(* 1000, as a fraction.                                                    *)
Scored(members) ==
    LET hit   == CachedPrefixLength(BlockHashes[Head(members)])
        total == Len(BlockHashes[Head(members)])
        size  == Len(members)
    IN [members |-> members, key |-> KeyPrefix(BlockHashes[Head(members)], GroupKeyLen),
        hit |-> hit, den |-> total,
        num |-> 10000000 * hit + total * (size - 1000 * Max({0, size - BatchEst}))]

ScoredGroups ==
    LET groups == GroupBy(NewReqs, LAMBDA r : KeyPrefix(BlockHashes[r], GroupKeyLen))
    IN [i \in DOMAIN groups |-> Scored(groups[i])]

HigherScore(s, t) == s.num * t.den > t.num * s.den

(* members.sort, which the later protection sees too.                      *)
ShortestFirst(s) ==
    [s EXCEPT !.members = StableSort(@, LAMBDA a, b : Len(BlockHashes[a]) < Len(BlockHashes[b]))]

(* A group that is not buffered, given the ages.                           *)
Ready(s, ages) ==
    LET n == Len(waiting)
    IN CASE n < ShallowDepth -> TRUE
         [] n >= ShallowDepth /\ n <= DeepDepth -> Len(s.members) >= MediumGroup \/ ages[s.key] >= 1
         [] n > DeepDepth -> Len(s.members) >= DeepGroup \/ ages[s.key] >= 2

(* Mutant: buffered groups are held back.                                  *)
ReorderByScoreReadyOnly(scored, ages) ==
    FlattenSeq([i \in DOMAIN SelectSeq(scored, LAMBDA s : Ready(s, ages)) |->
                  SelectSeq(scored, LAMBDA s : Ready(s, ages))[i].members])

(* _reorder_by_score.  That the best buffered group is promoted when none  *)
(* is ready makes no difference to the order.                              *)
ReorderByScore(scored, ages) ==
    LET R         == {i \in DOMAIN scored : Ready(scored[i], ages)}
        ready     == StableSort(Subsequence(scored, R), HigherScore)
        buffering == StableSort(Subsequence(scored, DOMAIN scored \ R), HigherScore)
        all       == ready \o buffering
    IN FlattenSeq([i \in DOMAIN all |-> ShortestFirst(all[i]).members])

(* The first-seen times: groups that left are forgotten, new ones are of   *)
(* age 0 and the others are no younger than they were.                     *)
AgesNow(scored) ==
    LET active == {scored[i].key : i \in DOMAIN scored}
    IN {a \in [active -> Age] :
          \A k \in active : IF k \in DOMAIN first_seen THEN a[k] >= first_seen[k] ELSE a[k] = 0}

(* _reset_queue_refs: the blocks now found under the remembered hashes.    *)
ResetQueueRefs ==
    IF prev = NoPrev THEN ResetQueueRefCounts
    ELSE [b \in Block |-> IF \E h \in prev : IsCached(h) /\ GetCachedBlock(h) = b THEN 0
                          ELSE qref[b]]

(* protect_k: two thirds of the groups whose prompts fit the pool, which   *)
(* counts the null block too.                                              *)
ProtectK(scored) ==
    LET G   == Len(scored)
        sum == Cardinality(Places([i \in DOMAIN scored |-> BlockHashes[Head(scored[i].members)]]))
        capacity == (Cardinality(Block) + 1) \div Max({1, sum \div G})
    IN Min({G, Max({1, (capacity * 2) \div 3})})

(* _protect_top_groups: the hashes it protects, group by group.  The       *)
(* groups come in the order in which they were met, not by score; an old   *)
(* group of one is passed over.                                            *)
ProtectTopGroups(scored, ages) ==
    LET top   == Subsequence(scored, {i \in 1..ProtectK(scored) :
                    ~(ages[scored[i].key] = Stale /\ Len(scored[i].members) <= 1)})
        of(s) == LET key == KeyPrefix(BlockHashes[Head(s.members)], s.hit)
                 IN Subsequence(key, {k \in DOMAIN key : IsCached(key[k])})
    IN [i \in DOMAIN top |-> of(top[i])]

(* VllmPeekEngine.run, past its early returns.                             *)
EngineRun ==
    LET scored == ScoredGroups
    IN \E ages \in AgesNow(scored) :
         LET protected == ProtectTopGroups([i \in DOMAIN scored |-> ShortestFirst(scored[i])], ages)
         IN /\ first_seen' = ages
            /\ waiting' = ReorderByScore(scored, ages)
                            \o Subsequence(waiting, {i \in DOMAIN waiting : ~IsNew(waiting[i])})
            /\ qref' = IncQueueRefs(ResetQueueRefs, protected)
            /\ prev' = UNION {ToSet(protected[i]) : i \in DOMAIN protected}

(* schedule begins with the hook: vllm_on_schedule, or the online hook's   *)
(* sync and reorder.                                                       *)
Schedule ==
    /\ phase = "idle" /\ waiting # <<>>
    /\ phase' = "first"
    /\ \/ mode = "refs" /\ HookActs
          /\ qref' = UpdateQueueRefCounts /\ UNCHANGED <<waiting, first_seen, prev, demand, depth>>
       \/ mode = "engine" /\ HookActs /\ EngineRun /\ UNCHANGED <<demand, depth>>
       \/ mode \in {"plain", "cluster"} /\ OnlineSync(waiting)
          /\ waiting' \in Reorderings(waiting) /\ UNCHANGED <<qref, first_seen, prev>>
       \/ (mode \in {"refs", "engine"} => ~HookActs) /\ mode \notin {"plain", "cluster"}
          /\ UNCHANGED <<qref, waiting, first_seen, prev, demand, depth>>
    /\ UNCHANGED <<mode, load, free, ref, cached, running, held, st, preempts>>

-----------------------------------------------------------------------------
(* External: blocks of r's prefix that are cached, and how many it takes   *)
(* from the free queue in all; the last block, never full, is always new.  *)
HitBlocks(r) == [i \in DOMAIN CachedPrefix(r) |-> GetCachedBlock(CachedPrefix(r)[i])]
NewBlocks(r) == Len(BlockHashes[r]) + 1 - Len(HitBlocks(r))
Fits(r) ==
    NewBlocks(r) + Cardinality({b \in ToSet(HitBlocks(r)) : ref[b] = 0}) <= Len(free)

(* External: the first waiting request is admitted (allocate_slots): its   *)
(* hits are touched, new blocks are handed out and lose their old hash,    *)
(* and the full ones are cached, also under a hash that another block has  *)
(* already.  queue_ref_count stays with the block.                         *)
Admit ==
    /\ phase \in {"first", "more"} /\ waiting # <<>> /\ Fits(Head(waiting))
    /\ LET r    == Head(waiting)
           hit  == HitBlocks(r)
           rest == Detach(free, hit)
           out  == GetNewBlocks(rest, NewBlocks(r))
           full(h) == {out[i] : i \in {i \in DOMAIN out :
                          /\ Len(hit) + i \in DOMAIN BlockHashes[r]
                          /\ BlockHashes[r][Len(hit) + i] = h}}
       IN /\ free' = Detach(rest, out)
          /\ ref' = [b \in Block |-> IF b \in ToSet(hit) \cup ToSet(out) THEN ref[b] + 1
                                     ELSE ref[b]]
          /\ cached' = [h \in Hash |-> Detach(cached[h], out) \o SetToSeq(full(h))]
          /\ held' = [held EXCEPT ![r] = hit \o out]
          /\ waiting' = Tail(waiting) /\ running' = Append(running, r)
          /\ st' = [st EXCEPT ![r] = "running"]
    /\ phase' = "more"
    /\ UNCHANGED <<mode, load, qref, demand, depth, preempts, first_seen, prev>>

(* External: schedule returns, having admitted a request if it could.      *)
EndSchedule ==
    /\ phase \in {"first", "more"}
    /\ phase = "first" /\ waiting # <<>> => ~Fits(Head(waiting))
    /\ phase' = "idle"
    /\ UNCHANGED <<poolVars, load, waiting, running, held, st, preempts, first_seen, prev>>

(* External: r gives its blocks back, the last first.                      *)
Release(r) ==
    /\ ref' = [b \in Block |-> IF b \in ToSet(held[r]) THEN ref[b] - 1 ELSE ref[b]]
    /\ LET back == Reverse(held[r])
       IN free' = free \o Subsequence(back, {i \in DOMAIN back : ref[back[i]] = 1})
    /\ held' = [held EXCEPT ![r] = <<>>]
    /\ running' = Subsequence(running, {i \in DOMAIN running : running[i] # r})

(* External: a request is done.                                            *)
Finish(r) ==
    /\ phase = "idle" /\ st[r] = "running"
    /\ Release(r)
    /\ st' = [st EXCEPT ![r] = "done"]
    /\ UNCHANGED <<mode, load, cached, qref, demand, depth, phase, waiting, preempts, first_seen, prev>>

(* External: no block is left for the next token of a running request, and *)
(* the last one admitted makes room; such a call of schedule admits none.  *)
Preempt ==
    /\ phase = "first" /\ running # <<>> /\ free = <<>> /\ preempts < MaxPreempt
    /\ Release(Last(running))
    /\ waiting' = <<Last(running)>> \o waiting
    /\ st' = [st EXCEPT ![Last(running)] = "waiting"]
    /\ preempts' = preempts + 1 /\ phase' = "idle"
    /\ UNCHANGED <<mode, load, cached, qref, demand, depth, first_seen, prev>>

(* External: a server without requests waits.                              *)
Wait == phase = "idle" /\ waiting = <<>> /\ running = <<>> /\ UNCHANGED vars

Next ==
    \/ \E r \in Req : Arrive(r) \/ Finish(r)
    \/ Schedule \/ Admit \/ EndSchedule \/ Preempt \/ Wait

(* The engine loop calls schedule while requests wait, and a call runs to  *)
(* its end: weak fairness of Schedule and of what follows in a call.  Each *)
(* call gives every running request a token, of which it has finitely many *)
(* to produce: strong fairness of Finish, as calls come in between (for    *)
(* any one request, which is enough: none finishes twice).                 *)
(* Nothing makes requests arrive.  Written without ENABLED, which TLC      *)
(* would evaluate through the whole hook.                                  *)
InCall == phase # "idle" \/ phase' # "idle"

Fairness ==
    /\ []<>(phase = "idle" /\ waiting = <<>>) \/ []<><<InCall>>_vars
    /\ \/ <>[](phase = "idle" => running = <<>>)
       \/ []<><<\E r \in Req : st[r] = "running" /\ st'[r] = "done">>_vars

Spec == Init /\ [][Next]_vars /\ Fairness
-----------------------------------------------------------------------------
TypeOK ==
    /\ mode \in Modes /\ phase \in {"idle", "first", "more"}
    /\ free \in Seq(Block) /\ held \in [Req -> Seq(Block)] /\ cached \in [Hash -> Seq(Block)]
    /\ ref \in [Block -> Nat] /\ qref \in [Block -> Nat]
    /\ demand \in [Hash -> Nat] /\ depth \in [Hash -> Nat]
    /\ waiting \in Seq(Req) /\ running \in Seq(Req)
    /\ st \in [Req -> {"new", "waiting", "running", "done"}] /\ preempts \in 0..MaxPreempt

(* Blocks are neither lost nor handed out twice: the free queue has        *)
(* exactly the blocks nobody holds, each once, whichever victims were      *)
(* taken from its middle; ref_cnt is the number of requests that hold the  *)
(* block; a block is cached under one hash at most, and a running request  *)
(* finds the blocks of its prompt cached.                                  *)
PoolExact ==
    /\ TypeOK
    /\ \A i, j \in DOMAIN free : free[i] = free[j] => i = j
    /\ ToSet(free) = {b \in Block : ref[b] = 0}
    /\ \A b \in Block :
          /\ ref[b] = Cardinality({r \in Req : b \in ToSet(held[r])})
          /\ Cardinality({x \in Hash \X (1..Cardinality(Block)) :
                            x[2] \in DOMAIN cached[x[1]] /\ cached[x[1]][x[2]] = b}) <= 1
    /\ \A r \in Req : st[r] = "running" =>
          \A i \in DOMAIN BlockHashes[r] : held[r][i] \in ToSet(cached[BlockHashes[r][i]])

(* Blocks that a step hands out afresh.                                    *)
HandedOut == {b \in Block : /\ ref[b] = 0 /\ ref'[b] > 0
                            /\ b \notin ToSet(HitBlocks(Head(waiting)))}

(* b goes before c of the queue q: unwanted before wanted, cheap before    *)
(* dear, then least recently used.                                         *)
GoesBefore(q, b, c) ==
    LET worth(x) == CASE mode \in {"plain", "cluster"} -> Priority(x)
                      [] mode \in {"refs", "engine"}   -> qref[x]
                      [] mode = "off"                  -> 0
        place(x) == CHOOSE i \in DOMAIN q : q[i] = x
    IN worth(b) < worth(c) \/ (worth(b) = worth(c) /\ place(b) < place(c))

(* An allocation hands out, of the free blocks it looks at (the scan cap   *)
(* of the online hook, the whole queue otherwise), exactly those that go   *)
(* first: a block that a waiting request wants is evicted only when no     *)
(* unwanted block is left there, and no block is spared at the cost of a   *)
(* better protected one.  The scan that stops early, the top-up and the    *)
(* fallbacks to stock order all keep to it.                                *)
VictimsAreCheapest ==
    [][LET n      == Cardinality(HandedOut)
           q      == Detach(free, HitBlocks(Head(waiting)))
           seen   == IF mode \in {"plain", "cluster"} THEN Min({Cap(n), Len(q)}) ELSE Len(q)
           window == ToSet(SubSeq(q, 1, seen))
       IN phase' = "more" /\ n <= seen =>
             /\ HandedOut \subseteq window
             /\ \A b \in HandedOut, c \in window \ HandedOut : GoesBefore(q, b, c)]_vars

(* Reordering loses and duplicates no request: one that waits is in the    *)
(* queue exactly once, and no other is.                                    *)
QueueExact ==
    \A r \in Req : Cardinality({i \in DOMAIN waiting : waiting[i] = r})
                     = IF st[r] = "waiting" THEN 1 ELSE 0

(* A hook that acts leaves, in refs mode, on each block exactly as many    *)
(* references as new waiting requests would reuse it if they came next;    *)
(* counts of earlier rounds, and of blocks handed out since, are gone.     *)
RefsExact ==
    [][mode = "refs" /\ phase = "idle" /\ phase' = "first" /\ HookActs =>
         \A b \in Block : qref'[b] = Cardinality({r \in ToSet(NewReqs) :
                                                    b \in ToSet(HitBlocks(r))})]_vars

(* "number of waiting-queue requests whose prefix includes this block"     *)
(* (vllm_patches/install.py): after a round of the engine no block carries *)
(* a reference unless it is cached for some waiting request.               *)
ProtectionFresh ==
    [][mode = "engine" /\ phase = "idle" /\ phase' = "first" /\ HookActs =>
         \A b \in Block : qref'[b] > 0 =>
            \E r \in ToSet(NewReqs) : \E h \in ToSet(BlockHashes[r]) : b \in ToSet(cached[h])]_vars

(* Every request of a finite workload is served: buffering small groups    *)
(* and preempting never keep one in the queue for good once the arrivals   *)
(* are over.  (While cached groups keep arriving, _reorder_by_score may    *)
(* rank a group behind them for as long as they do.)                       *)
EventuallyServed == \A r \in Req : st[r] = "waiting" ~> st[r] = "done"

(* Requests that share their first hash are next to each other.            *)
SharersTogether(seqs, order) ==
    \A i, j, k \in DOMAIN order : i < j /\ j < k /\ seqs[order[i]][1] = seqs[order[k]][1] =>
        seqs[order[j]][1] = seqs[order[i]][1]

(* The reorders beside the engines, on every queue and cache reached: each *)
(* gives a permutation of the queue; those that group keep sharers         *)
(* together; and the two copies of the cache-aware one (for sglang's radix *)
(* tree and for vllm's block hashes) agree where both act.                 *)
OrdersSound ==
    LET seqs    == Keys(NewReqs)
        nodes   == UNION {{KeyPrefix(BlockHashes[r], n) : n \in 1..CachedPrefixLength(BlockHashes[r])}
                            : r \in Req}
        hits    == [i \in DOMAIN seqs |-> CachedPrefixLength(seqs[i])]
        byGroup == VllmGroupSchedule(seqs, [k \in KeyPrefixes(seqs) |-> CachedPrefixLength(k)], 2)
        bySize  == ReorderRequestsByPrefix(seqs)
        radix   == SglangGroupSchedule(seqs, nodes, 2, 1)
        orders  == {byGroup, bySize, radix, FastPrefixGroupReorder(seqs, GroupKeyLen),
                    PostMatchReorder([i \in DOMAIN seqs |-> CachedPrefix(NewReqs[i])], hits),
                    VllmReorderWaitingQueue(seqs, Cardinality(Req)),
                    SglangReorderWaitingQueue(seqs, 2, 1, 1)}
    IN /\ \A o \in orders : DOMAIN o = DOMAIN seqs /\ ToSet(o) = DOMAIN seqs
       /\ byGroup = radix
       /\ HookActs => SharersTogether(seqs, byGroup) /\ SharersTogether(seqs, bySize)
=============================================================================
