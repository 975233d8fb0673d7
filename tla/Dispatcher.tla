------------------------------ MODULE Dispatcher ------------------------------
(***************************************************************************)
(* The online client of the offline part: PeekDispatcher (offline/         *)
(* reorder.py) tags requests with a group and a rank and sends them,       *)
(* PeekEngine (offline/engine.py) takes the ones it is about to schedule   *)
(* out of the dispatcher again, and CacheStateStore carries the pending    *)
(* counts from one to the other.  The client that drives them is           *)
(* run_poisson_peek (offline/benchmarks/poisson_client.py).                *)
(* The repository leaves the engine's _dispatcher None (engine.py:140      *)
(* says PeekDispatcher sets it); BatchEst = 0 is the engine without it.    *)
(* Client and engine share a thread ("zero delay, same call stack"), so a  *)
(* round of the server falls between two calls of submit, or inside        *)
(* send_fn, before submit has pushed its counts.                           *)
(*   disp    the dispatcher: trie, count (_group_count), hashes (keys of   *)
(*           _group_hashes), dfs (_dfs_keys), dirty (_structure_dirty),    *)
(*           info (_rid_to_remove_info: request -> prompt index), next     *)
(*   store   _client_pending                                               *)
(*   st      what became of each request                                   *)
(*   queue   the server's waiting queue                                    *)
(*   pc      where submit is: "idle", "send", "push"                       *)
(* A hash of a key is taken as injective; request ids are distinct.        *)
(***************************************************************************)
EXTENDS Trie

CONSTANTS
    Req,
    Prompt,         \* [Req -> tokens]
    BatchEst,       \* _BATCH_EST: requests a round takes out of the dispatcher
    MaxAdmit,       \* requests a round admits at most
    MaxConcurrent,  \* max_concurrent: requests at the server
    MinDepth,       \* min_sharing_depth of the queries that are checked
    NoReq

ASSUME DispatcherAssumption ==
    /\ IsFiniteSet(Req) /\ NoReq \notin Req
    /\ Prompt \in [Req -> Seq(Nat)]
    /\ BatchEst \in Nat /\ MaxAdmit \in Nat /\ MaxConcurrent \in Nat
    /\ MinDepth \in Nat \ {0}

VARIABLES disp, store, st, queue, pc, cur

vars == <<disp, store, st, queue, pc, cur>>

EmptyMap == [k \in {} |-> 0]

Init ==
    /\ disp = [trie |-> EmptyTrie, count |-> EmptyMap, hashes |-> {}, dfs |-> <<>>,
               dirty |-> FALSE, info |-> EmptyMap, next |-> 1]
    /\ store = EmptyMap /\ st = [r \in Req |-> "new"]
    /\ queue = <<>> /\ pc = "idle" /\ cur = NoReq

Key(r) == PathOf(Prompt[r])

-----------------------------------------------------------------------------
(* _recompute_dfs_keys, when a group came or went.                         *)
Recomputed(d, isNew) ==
    IF isNew \/ d.dirty THEN [d EXCEPT !.dfs = DfsGroupKeys(d.trie, TRUE), !.dirty = FALSE]
    ELSE d

(* Steps 1 to 4 of submit, and the entry in _rid_to_remove_info.           *)
Indexed(d, r) ==
    LET k == Key(r)
        isNew == k \notin DOMAIN d.count
        grown == [d EXCEPT
                    !.next = @ + 1, !.trie = InsertPrompt(@, Prompt[r], d.next),
                    !.count = [x \in DOMAIN d.count \cup {k} |->
                                 IF x # k THEN d.count[x] ELSE IF isNew THEN 1 ELSE d.count[k] + 1],
                    !.hashes = @ \cup {k},
                    !.info = [x \in DOMAIN d.info \cup {r} |->
                                IF x = r THEN d.next ELSE d.info[x]]]
    IN Recomputed(grown, isNew)

(* The ranks in the tags: the groups by pending count, the larger first.   *)
RankedKeys(d) == StableSort(d.dfs, LAMBDA a, b : d.count[a] > d.count[b])

(* Mutant: the group goes with its first member.                           *)
ForgetGroup(d, r) ==
    IF r \notin DOMAIN d.info THEN d
    ELSE [d EXCEPT !.trie = RemovePrompt(@, Prompt[r], d.info[r]),
                   !.info = Restrict(@, DOMAIN @ \ {r}),
                   !.count = Restrict(@, DOMAIN @ \ {Key(r)}),
                   !.hashes = @ \ {Key(r)}, !.dirty = TRUE]

(* Step 9 of _run_tagged for one request: its entry is popped, and remove  *)
(* takes it out of the trie and the counts.                                *)
Forget(d, r) ==
    LET k == Key(r)
        left == d.count[k] - 1
    IN IF r \notin DOMAIN d.info THEN d
       ELSE [d EXCEPT !.trie = RemovePrompt(@, Prompt[r], d.info[r]),
                      !.info = Restrict(@, DOMAIN @ \ {r}),
                      !.count = IF left > 0 THEN [@ EXCEPT ![k] = left]
                                ELSE Restrict(@, DOMAIN @ \ {k}),
                      !.hashes = IF left > 0 THEN @ ELSE @ \ {k},
                      !.dirty = @ \/ left <= 0]

(* Step 9 of _run_tagged, request by request.                              *)
ForgetAll(d, rs) ==
    LET after[n \in 0..Len(rs)] == IF n = 0 THEN d ELSE Forget(after[n - 1], rs[n])
    IN after[Len(rs)]

-----------------------------------------------------------------------------
(* submit, up to the call of send_fn.                                      *)
Index(r) ==
    /\ pc = "idle" /\ st[r] = "new"
    /\ disp' = Indexed(disp, r)
    /\ pc' = "send" /\ cur' = r
    /\ UNCHANGED <<store, st, queue>>

(* send_fn: the request is handed to the event loop.                       *)
Send ==
    /\ pc = "send"
    /\ st' = [st EXCEPT ![cur] = "sent"]
    /\ pc' = "push"
    /\ UNCHANGED <<disp, store, queue, cur>>

(* _push_pending_to_server at the end of submit.                           *)
Push ==
    /\ pc = "push"
    /\ store' = disp.count
    /\ pc' = "idle" /\ cur' = NoReq
    /\ UNCHANGED <<disp, st, queue>>

AtServer == {r \in Req : st[r] \in {"waiting", "running"}}

(* _send_one_*: once the semaphore lets it, the request is posted.         *)
Arrive(r) ==
    /\ st[r] = "sent" /\ pc # "send" /\ Cardinality(AtServer) < MaxConcurrent
    /\ st' = [st EXCEPT ![r] = "waiting"]
    /\ queue' = Append(queue, r)
    /\ UNCHANGED <<disp, store, pc, cur>>

(* _send_one_*: the post raises; a warning is all that is left.            *)
Fail(r) ==
    /\ st[r] = "sent" /\ pc # "send" /\ Cardinality(AtServer) < MaxConcurrent
    /\ st' = [st EXCEPT ![r] = "failed"]
    /\ UNCHANGED <<disp, store, queue, pc, cur>>

(* Mutant: the counts are not pushed by remove.                            *)
StoreAfterStale(s, d, gone) == s

(* remove pushes the counts, for every request that was removed.           *)
StoreAfter(s, d, gone) == IF gone = {} THEN s ELSE d.count

(* A round of the server: _run_tagged puts the groups in an order of its   *)
(* own, takes the first requests out of the dispatcher, and the first `n`  *)
(* requests of the queue are admitted (external).                          *)
Round(n) ==
    /\ pc # "send" /\ queue # <<>> /\ n <= Len(queue)
    /\ \E groups \in Reorderings(GroupBy(queue, Key)) :
          LET order == FlattenSeq(groups)
              front == SubSeq(order, 1, Min({BatchEst, Len(order)}))
              gone  == Range(front) \cap DOMAIN disp.info
          IN /\ disp' = ForgetAll(disp, front)
             /\ store' = StoreAfter(store, disp', gone)
             /\ queue' = SubSeq(order, n + 1, Len(order))
             /\ st' = [r \in Req |-> IF r \in Range(SubSeq(order, 1, n)) THEN "running" ELSE st[r]]
    /\ UNCHANGED <<pc, cur>>

(* _send_one_*: the answer is complete and the semaphore is given back.    *)
Finish(r) ==
    /\ st[r] = "running"
    /\ st' = [st EXCEPT ![r] = "done"]
    /\ UNCHANGED <<disp, store, queue, pc, cur>>

(* External: everything was sent and answered.                             *)
Rest == pc = "idle" /\ (\A r \in Req : st[r] \in {"done", "failed"}) /\ UNCHANGED vars

Next ==
    \/ Rest
    \/ \E r \in Req : Index(r) \/ Arrive(r) \/ Fail(r) \/ Finish(r)
    \/ Send \/ Push
    \/ \E n \in 0..MaxAdmit : Round(n)

Spec == Init /\ [][Next]_vars
-----------------------------------------------------------------------------
Pending == DOMAIN disp.info

TypeOK ==
    /\ st \in [Req -> {"new", "sent", "waiting", "running", "done", "failed"}]
    /\ queue \in Seq(Req) /\ pc \in {"idle", "send", "push"} /\ cur \in Req \cup {NoReq}
    /\ Pending \subseteq Req /\ disp.next \in 1..(Cardinality(Req) + 1)

(* Requests the dispatcher still has whose prompt starts with p.           *)
Under(p) == {r \in Pending : IsPrefix(p, Key(r))}

(* Whatever order requests were submitted in and taken out again, the trie *)
(* is the trie of the requests that are left, without an empty node, the   *)
(* group counts are theirs, a hash is kept for exactly the groups with a   *)
(* count, and the groups are in the order, each once, unless one of them   *)
(* has just gone; when a request is tagged, every group has a rank.        *)
DispatcherExact ==
    LET d == disp
    IN /\ TypeOK
       /\ DOMAIN d.trie = {<<>>} \cup UNION {Along(Key(r)) : r \in Pending}
       /\ \A p \in DOMAIN d.trie :
             /\ d.trie[p].count = IF p = <<>> THEN 0 ELSE Cardinality(Under(p))
             /\ Range(d.trie[p].idx) = {d.info[r] : r \in {x \in Pending : Key(x) = p}}
             /\ Len(d.trie[p].idx) = Cardinality({r \in Pending : Key(r) = p})
             /\ {Append(p, k) : k \in Range(d.trie[p].kids)}
                  = {q \in DOMAIN d.trie : q # <<>> /\ Front(q) = p}
       /\ DOMAIN d.count = {Key(r) : r \in Pending} /\ d.hashes = DOMAIN d.count
       /\ \A k \in DOMAIN d.count : d.count[k] = Cardinality({r \in Pending : Key(r) = k})
       /\ ~d.dirty => Range(d.dfs) = DOMAIN d.count /\ IsInjective(d.dfs)
       /\ pc = "send" => ~d.dirty /\ Range(RankedKeys(d)) = DOMAIN d.count

(* Between two calls of submit the server reads the counts of the requests *)
(* that are pending now, also after a round inside send_fn.                *)
StoreFresh == pc = "idle" => store = disp.count

(* The members of S follow each other in the sequence s.                   *)
Contiguous(s, S) ==
    LET at == {i \in DOMAIN s : s[i] \in S}
    IN at # {} => Max(at) - Min(at) + 1 = Cardinality(at)

PendingPaths == UNION {Along(Key(r)) : r \in Pending}

(* The prompts that are pending, in the order they came.                   *)
PendingPrompts ==
    LET rs == InOrder(Pending, {p \in Pending \X Pending : disp.info[p[1]] < disp.info[p[2]]})
    IN [i \in DOMAIN rs |-> Prompt[rs[i]]]

(* The traversals list every pending prompt once and keep those with a     *)
(* common prefix together, at every depth; sharing_score and prefix_groups *)
(* find the largest groups that share MinDepth tokens: each group agrees   *)
(* on its prefix, and whoever shares that much with another is in one.     *)
(* reorder_for_prefix_sharing, on the same prompts, gives a permutation,   *)
(* and one that is not the identity keeps sharers together too.            *)
QueriesExact ==
    LET d == disp
        idx(S) == {d.info[r] : r \in S}
        shared == {r \in Pending : \E o \in Pending \ {r} :
                     /\ Len(Key(r)) >= MinDepth /\ Len(Key(o)) >= MinDepth
                     /\ SubSeq(Key(r), 1, MinDepth) = SubSeq(Key(o), 1, MinDepth)}
        score  == SharingScore(d.trie, MinDepth)
        seqs   == PendingPrompts
        reordered == ReorderForPrefixSharing(seqs, MinDepth, MinDepth)
    IN /\ \A aware \in BOOLEAN :
             LET order == DfsOrder(d.trie, aware)
             IN /\ IsInjective(order) /\ Range(order) = idx(Pending)
                /\ \A p \in PendingPaths : Contiguous(order, idx(Under(p)))
       /\ score.grouped = Cardinality(shared)
       /\ score.depths >= MinDepth * score.grouped
       /\ {g[2] : g \in PrefixGroups(d.trie, MinDepth)}
            = {idx(Under(SubSeq(Key(r), 1, MinDepth))) : r \in shared}
       /\ IsInjective(reordered) /\ Range(reordered) = DOMAIN seqs
       /\ reordered # [i \in DOMAIN seqs |-> i] =>
             \A p \in PendingPaths :
                Contiguous(reordered, {i \in DOMAIN seqs : IsPrefix(p, PathOf(seqs[i]))})

(* Whenever the server reads the counts, also in a round inside send_fn,   *)
(* they cover every request that is on its way to it, the one being        *)
(* submitted apart: no round has taken out a request before the server had *)
(* it in its queue, whatever groups it took out beside.                    *)
OnTheirWayCounted ==
    \A k \in {Key(r) : r \in Req} :
       LET sent == {r \in Req \ {cur} : st[r] = "sent" /\ Key(r) = k}
       IN sent # {} => k \in DOMAIN store /\ store[k] >= Cardinality(sent)
=============================================================================
