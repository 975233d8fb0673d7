------------------------------ MODULE PeekServer ------------------------------
(***************************************************************************)
(* A patched sglang server: scheduling rounds that rank the waiting queue  *)
(* (PeekEngine), admit requests (PrefillAdder) and run them on the memory  *)
(* of KvMemory, evicting, retracting and preempting when it is short.      *)
(* sglang's scheduler loop itself is not part of the repository: its       *)
(* actions are marked external.  It is one thread; requests arrive between *)
(* its rounds.  phase: "idle", then "admit" (the loop over the queue),     *)
(* then "prefill", or "filter" and "decode".                               *)
(***************************************************************************)
EXTENDS PeekEngine, PrefillAdder

CONSTANTS
    MaxRunning,     \* max_running_requests
    Configs         \* [policy, tagged, pool]: calc_priority's policy, the requests with a
                    \* peek tag, the pages of the KV pool

VARIABLES
    config,
    mem,            \* KvMemory
    queue,          \* waiting_queue
    running,        \* running_batch.reqs; finished requests stay until the next decode
    chunked,        \* chunked_req between two rounds
    prev,           \* tree_cache._peek_prev_protected
    adder,          \* the PrefillAdder of the round
    phase,
    want            \* tokens an evict() call still has to free

vars == <<config, mem, queue, running, chunked, prev, adder, phase, want>>

Idle == NewAdder(InitMemory, <<>>, <<>>, 0)

Init ==
    /\ config \in Configs
    /\ mem = [InitMemory EXCEPT !.free = config.pool]
    /\ queue = <<>> /\ running = <<>>
    /\ chunked = NoReq /\ prev = NoPrev /\ adder = Idle
    /\ phase = "idle" /\ want = 0

-----------------------------------------------------------------------------
(* External: a request reaches the waiting queue.                          *)
Arrive(r) ==
    /\ phase = "idle" /\ mem.req[r].st = "new"
    /\ mem' = [mem EXCEPT !.req[r].st = "waiting"]
    /\ queue' = Append(queue, r)
    /\ UNCHANGED <<config, running, chunked, prev, adder, phase, want>>

(* External: a round begins (get_new_batch_prefill).  The chunked request  *)
(* of the last round is cached, calc_priority ranks the queue, and the     *)
(* chunked request is the first to get budget.                             *)
StartRound ==
    /\ phase = "idle" /\ (queue # <<>> \/ chunked # NoReq)
    /\ LET stashed == IF chunked = NoReq THEN mem ELSE CacheUnfinishedReq(mem, chunked)
       IN \E o \in CalcPriority(config.policy, stashed, queue, prev, config.tagged),
             ratio \in NewTokenRatios :
             LET a == NewAdder(o.mem, running, o.queue, ratio)
                 s == IF chunked = NoReq THEN [mem |-> o.mem, adder |-> a]
                      ELSE AddChunkedReq(o.mem, a, chunked)
             IN mem' = s.mem /\ adder' = s.adder /\ queue' = o.queue /\ prev' = o.prev
    /\ phase' = "admit"
    /\ UNCHANGED <<config, running, chunked, want>>

(* No place in the running batch for one more request.                     *)
BatchFull == adder.full \/ Len(adder.canRun) >= MaxRunning - Len(running)

(* The next request of the loop, once its prefix is matched.               *)
Candidate == Head(adder.todo)

(* External: the loop ends early.  What was matched stays matched; only    *)
(* the length of prefix_indices is looked at before the next match.        *)
Break(m, r) ==
    /\ mem' = [m EXCEPT !.req[r].pages = <<>>, !.req[r].len = 0, !.req[r].prot = 0]
    /\ adder' = [adder EXCEPT !.todo = <<>>]

Admit ==
    /\ phase = "admit" /\ adder.todo # <<>> /\ ~BatchFull
    /\ LET m == InitNextRoundInput(mem, Candidate)
           s == AddOneReq(m, adder, Candidate)
       IN IF Refused(m, adder, Candidate) THEN Break(m, Candidate)
          ELSE mem' = s.mem /\ adder' = s.adder
    /\ UNCHANGED <<config, queue, running, chunked, prev, phase, want>>

(* A full batch: running requests of much lower priority make room, or the *)
(* loop ends.                                                              *)
Preempt ==
    /\ phase = "admit" /\ adder.todo # <<>> /\ BatchFull
    /\ IF PreemptCount(mem, adder, Candidate, running) = 0
       THEN /\ adder' = [adder EXCEPT !.full = TRUE, !.todo = <<>>]
            /\ UNCHANGED <<mem, running>>
       ELSE LET p == PreemptToSchedule(mem, adder, Candidate, running)
                m == InitNextRoundInput(p.mem, Candidate)
                a == [p.adder EXCEPT !.full = TRUE]
                s == AddOneReq(m, a, Candidate)
            IN /\ running' = p.running
               /\ IF Refused(m, a, Candidate)
                  THEN /\ mem' = [m EXCEPT !.req[Candidate].pages = <<>>,
                                           !.req[Candidate].len = 0,
                                           !.req[Candidate].prot = 0]
                       /\ adder' = [a EXCEPT !.todo = <<>>]
                  ELSE mem' = s.mem /\ adder' = s.adder
    /\ UNCHANGED <<config, queue, chunked, prev, phase, want>>

-----------------------------------------------------------------------------
(* External: evict_from_tree_cache asks for n tokens when fewer are free.  *)
ToEvict(m, n) == IF AvailableTokens(m) < n /\ m.tree.leaves # {} THEN n ELSE 0

NewPages(m, r) == CeilPages(m.req[r].len + m.req[r].ext) - CeilPages(m.req[r].len)

(* External: the loop is over; the batch is cut out of the queue, and      *)
(* memory for it is asked for, a page more per request than is needed.     *)
EndAdmission ==
    /\ phase = "admit" /\ adder.todo = <<>>
    /\ queue' = SelectSeq(queue, LAMBDA r : r \notin ToSet(adder.canRun)) \o adder.preempted
    /\ chunked' = adder.chunked
    /\ phase' = IF adder.canRun = <<>> THEN "filter" ELSE "prefill"
    /\ adder' = IF adder.canRun = <<>> THEN Idle ELSE [adder EXCEPT !.preempted = <<>>]
    /\ want' = ToEvict(mem, FoldSeq(LAMBDA r, n : n + mem.req[r].ext + PageSize,
                                    0, adder.canRun))
    /\ UNCHANGED <<config, mem, running, prev>>

(* The policy that is not peek's runs with sglang's own eviction order.    *)
Candidates == IF config.policy \in {"peek", "pre-schedule"} THEN Victims(mem.tree)
              ELSE mem.tree.leaves

(* One turn of the loop of evict().  Nodes remembered for the next reset   *)
(* lead to the parent of a node that is gone.                              *)
EvictLeaf ==
    /\ want > 0
    /\ \E n \in Candidates :
          LET m == Evict(mem, n)
          IN /\ mem' = m
             /\ want' = IF m.tree.leaves = {} THEN 0
                        ELSE Max({0, want - KeyLen(mem.tree, n)})
             /\ prev' = IF prev = NoPrev THEN prev
                        ELSE [i \in DOMAIN prev |-> IF prev[i] = n THEN Parent(mem.tree, n)
                                                    ELSE prev[i]]
    /\ UNCHANGED <<config, queue, running, chunked, adder, phase>>

(* External: r has computed the KV of `n` more tokens and generates one;   *)
(* with the last one it is finished and released, else, after a prefill, it*)
(* is cached.                                                              *)
Generate(m, r, n, prefill) ==
    LET g == [m EXCEPT !.req[r].len = @ + n, !.req[r].out = @ + 1]
        c == IF prefill THEN CacheUnfinishedReq(g, r) ELSE g
    IN IF g.req[r].out < MaxNewTokens(r) THEN [c EXCEPT !.req[r].st = "running"]
       ELSE [CacheFinishedReq(g, r, TRUE) EXCEPT
                !.req[r] = [NewReq EXCEPT !.st = "done", !.out = g.req[r].out]]

PrefillNeeds == FoldSeq(LAMBDA r, n : n + NewPages(mem, r), 0, adder.canRun)

(* External: the batch runs.  All pages are handed out before the first    *)
(* request is cached; a request whose prompt is not complete stays the     *)
(* chunked request.                                                        *)
Prefill ==
    /\ phase = "prefill" /\ want = 0 /\ PrefillNeeds <= Cardinality(mem.free)
    /\ LET alloc == FoldLeft(LAMBDA m, r : AllocPages(m, r, NewPages(m, r)), mem, adder.canRun)
           step(m, r) == IF r = adder.chunked THEN [m EXCEPT !.req[r].len = @ + m.req[r].ext]
                         ELSE Generate(m, r, m.req[r].ext, TRUE)
       IN mem' = FoldLeft(step, alloc, adder.canRun)
    /\ running' = running \o SelectSeq(adder.canRun, LAMBDA r : r # adder.chunked)
    /\ adder' = Idle /\ phase' = "idle"
    /\ UNCHANGED <<config, queue, chunked, prev, want>>

-----------------------------------------------------------------------------
Unfinished(m, reqs) == SelectSeq(reqs, LAMBDA r : ~Finished(m, r))

(* Pages the next decode step needs: one for every full row.               *)
DecodeNeeds(m, reqs) ==
    Cardinality({r \in ToSet(reqs) : m.req[r].len % PageSize = 0})

(* External: no new batch; finished requests leave the running batch and   *)
(* the rest decodes, or there is nothing to do.                            *)
StartDecode ==
    /\ \/ phase = "filter"
       \/ phase = "idle" /\ queue = <<>> /\ chunked = NoReq /\ running # <<>>
    /\ running' = Unfinished(mem, running)
    /\ phase' = IF running' = <<>> THEN "idle" ELSE "decode"
    /\ want' = ToEvict(mem, PageSize * DecodeNeeds(mem, running'))
    /\ UNCHANGED <<config, mem, queue, chunked, prev, adder>>

(* External: one token for every running request.                          *)
Decode ==
    /\ phase = "decode" /\ want = 0
    /\ DecodeNeeds(mem, running) <= Cardinality(mem.free)
    /\ LET grow(m, r) == IF m.req[r].len % PageSize = 0 THEN AllocPages(m, r, 1) ELSE m
           step(m, r) == Generate(m, r, 1, FALSE)
       IN mem' = FoldLeft(step, FoldLeft(grow, mem, running), running)
    /\ phase' = "idle"
    /\ UNCHANGED <<config, queue, running, chunked, prev, adder, want>>

(* External: retract_decode.  Memory is short and nothing is left to       *)
(* evict: a running request goes back to the queue.                        *)
Retract(r) ==
    /\ phase = "decode" /\ want = 0
    /\ DecodeNeeds(mem, running) > Cardinality(mem.free)
    /\ r \in ToSet(running) /\ Len(running) > 1
    /\ mem' = ReleaseReq(mem, r)
    /\ running' = SelectSeq(running, LAMBDA x : x # r)
    /\ queue' = Append(queue, r)
    /\ want' = ToEvict(mem', PageSize * DecodeNeeds(mem', running'))
    /\ UNCHANGED <<config, chunked, prev, adder, phase>>

(* External: flush_cache, allowed when no request is left.  Nodes of the   *)
(* old tree lead nowhere in the new one.                                   *)
Flush ==
    /\ phase = "idle" /\ queue = <<>> /\ chunked = NoReq
    /\ Unfinished(mem, running) = <<>> /\ DOMAIN mem.tree.kv # {}
    /\ mem' = [mem EXCEPT !.tree = EmptyCache, !.free = config.pool]
    /\ prev' = IF prev = NoPrev THEN prev ELSE [i \in DOMAIN prev |-> Root]
    /\ UNCHANGED <<config, queue, running, chunked, adder, phase, want>>

Serve ==
    \/ StartRound \/ Admit \/ Preempt \/ EndAdmission \/ EvictLeaf \/ Prefill
    \/ StartDecode \/ Decode \/ \E r \in Req : Retract(r)

(* There is something for the loop to do.                                  *)
HasWork == phase # "idle" \/ queue # <<>> \/ chunked # NoReq \/ running # <<>>

(* External: a server without work waits; one with work must not be stuck. *)
Wait == ~HasWork /\ UNCHANGED vars

Next == (\E r \in Req : Arrive(r)) \/ Flush \/ Serve \/ Wait

(* A step of the loop: neither an arrival nor a flush.                     *)
LoopStep ==
    /\ \A r \in Req : mem.req[r].st = "new" => mem'.req[r].st = "new"
    /\ ~(phase = "idle" /\ phase' = "idle" /\ mem'.tree = EmptyCache /\ mem.tree # EmptyCache)

(* Weak fairness of Serve: the scheduler loop never stops while it has     *)
(* work; nothing makes requests arrive.  It is written without ENABLED,    *)
(* which TLC would evaluate through the whole ranking; that some step of   *)
(* the loop can be taken while there is work is TLC's deadlock check.      *)
Fairness == []<>~HasWork \/ []<><<LoopStep>>_vars

Spec == Init /\ [][Next]_vars /\ Fairness
-----------------------------------------------------------------------------
TypeOK ==
    /\ config \in Configs
    /\ mem.free \subseteq config.pool /\ Range(mem.tree.kv) \subseteq config.pool
    /\ \A r \in Req : /\ mem.req[r].st \in {"new", "waiting", "prefill", "running", "done"}
                      /\ mem.req[r].out \in 0..MaxNewTokens(r)
                      /\ Range(mem.req[r].pages) \subseteq Page
                      /\ mem.req[r].len \in 0..Len(Tokens(mem, r))
    /\ queue \in Seq(Req) /\ running \in Seq(Req) /\ chunked \in Req \cup {NoReq}
    /\ phase \in {"idle", "admit", "prefill", "filter", "decode"} /\ want \in Nat

(* Requests that hold a lock on the tree and pages of their own.           *)
Holders == {r \in Req : mem.req[r].st \in {"prefill", "running"}}

OwnPages(r) == RowSlice(mem, r, mem.req[r].prot, mem.req[r].len)

(* Every page of the KV pool is in exactly one place: free, in the tree    *)
(* under one path, or in the part of one request's row that the tree does  *)
(* not have.  Duplicates, partial pages, chunks, retraction, preemption    *)
(* and eviction neither leak a page nor free one twice, and no request     *)
(* holds KV for more tokens than it has.                                   *)
PoolExact ==
    /\ TypeOK
    /\ \A p \in config.pool :
          (IF p \in mem.free THEN 1 ELSE 0)
            + Cardinality({path \in DOMAIN mem.tree.kv : mem.tree.kv[path] = p})
            + Cardinality({x \in Holders \X (1..Cardinality(Page)) :
                             /\ x[2] \in DOMAIN OwnPages(x[1])
                             /\ OwnPages(x[1])[x[2]] = p}) = 1

(* The prefix a request took from the tree is still the tree's, page by    *)
(* page: no eviction, split, or insertion by another request moved it from *)
(* under the request while it waits for its batch, runs or is chunked.     *)
PrefixPinned ==
    \A r \in Holders :
       LET q == mem.req[r]
       IN /\ q.node = SubSeq(Tokens(mem, r), 1, q.prot)
          /\ PagePaths(q.node) \subseteq DOMAIN mem.tree.kv
          /\ RowSlice(mem, r, 0, q.prot) = DeviceIndices(mem.tree, q.node)

Chain(n, above) ==
    [i \in 1..((Len(n) - Len(above)) \div PageSize) |-> SubSeq(n, 1, Len(above) + i * PageSize)]

(* The tree's bookkeeping is what a fresh computation gives: lock_ref is   *)
(* the number of requests that hold the node or one below it, the running  *)
(* sums are the sizes of the unlocked and the locked nodes, the candidates *)
(* for eviction are the unlocked leaves, cached depths and hash chains are *)
(* those of the path, and every branch is at a node.  Whoever applies the  *)
(* KV events in order believes exactly what is cached: stored and removed  *)
(* blocks carry the same hashes whatever splits happened in between.       *)
TreeExact ==
    LET c == mem.tree
        N == DOMAIN c.node
        unlocked == {n \in N : c.node[n].lock = 0}
    IN /\ DOMAIN c.kv = UNION {PagePaths(n) : n \in N}
       /\ \A n, o \in N : \A p \in PagePaths(n) \cap PagePaths(o) :
             \/ \E q \in PagePaths(n) \cap PagePaths(o) : IsStrictPrefix(p, q)
             \/ p \in N
       /\ \A n \in N :
             /\ c.node[n].lock = Cardinality({r \in Holders : IsPrefix(n, mem.req[r].node)})
             /\ c.node[n].depth = Len(n)
             /\ c.node[n].hash = Chain(n, Parent(c, n))
       /\ c.evictable = SumKeyLen(c, unlocked)
       /\ c.protected = SumKeyLen(c, N \ unlocked)
       /\ c.leaves = {n \in unlocked : ~HasChild(c, n)}
       /\ c.mirror = DOMAIN c.kv

(* queue_ref_count counts the remembered nodes at or below a node, so the  *)
(* targeted reset of the next round clears every count, although nodes are *)
(* split, evicted, re-created and flushed in between.                      *)
QueueRefsExact ==
    \A n \in DOMAIN mem.tree.node :
       mem.tree.node[n].qref =
          IF prev = NoPrev THEN 0 ELSE Cardinality({i \in DOMAIN prev : IsPrefix(n, prev[i])})

(* What the budget admitted can be allocated: after the evictions that     *)
(* were asked for, the prefill batch finds its pages ("Prefill out of      *)
(* memory" is never raised), and a request that decodes alone its next one.*)
AllocationsSucceed ==
    want = 0 =>
      /\ phase = "prefill" => PrefillNeeds <= Cardinality(mem.free)
      /\ phase = "decode" /\ Len(running) = 1 =>
            DecodeNeeds(mem, running) <= Cardinality(mem.free)

(* With peek's eviction a node that a waiting request refers to is evicted *)
(* only when nothing that is neither referenced nor locked is left.        *)
UnreferencedFirst ==
    [][\A n \in DOMAIN mem.tree.node \ DOMAIN mem'.tree.node :
         /\ want > 0 /\ config.policy \in {"peek", "pre-schedule"}
         /\ mem.tree.node[n].qref > 0
         => \A o \in DOMAIN mem.tree.node :
               mem.tree.node[o].lock > 0 \/ mem.tree.node[o].qref > 0]_vars

(* Requests that peek's tagged path may drop: those without a tag in a     *)
(* queue where others have one (_run_tagged rebuilds the queue from the    *)
(* tagged groups alone).                                                   *)
AtRisk == IF config.policy = "peek" /\ config.tagged # {} THEN Req \ config.tagged ELSE {}

TimesQueued(r) == Cardinality({i \in DOMAIN queue : queue[i] = r})
                  + Cardinality({i \in DOMAIN adder.preempted : adder.preempted[i] = r})

(* Ranking, admission, preemption and retraction neither lose nor          *)
(* duplicate a request: one that waits is in the queue exactly once, and   *)
(* one that does not wait is not in it once the round's admission is over. *)
(* A request of AtRisk may be missing, but is never there twice.           *)
QueueExact ==
    \A r \in Req :
       /\ mem.req[r].st = "waiting" => TimesQueued(r) \in (IF r \in AtRisk THEN {0, 1} ELSE {1})
       /\ mem.req[r].st # "waiting" /\ phase # "admit" => TimesQueued(r) = 0

(* A request that arrives is served in the end, whatever it is passed over *)
(* for, preempted or retracted by.                                         *)
EventuallyServed ==
    \A r \in Req : mem.req[r].st = "waiting" /\ r \notin AtRisk ~> mem.req[r].st = "done"
=============================================================================
