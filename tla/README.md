# PEEK: a TLA+ model of its queue-informed KV-cache management

PEEK patches an LLM serving engine (sglang or vllm) so that the waiting queue
informs the KV cache: which request is admitted next, and which cached prefix is
evicted. It comes in two forms. The *online* form hooks a running engine and
keeps a radix tree of the prompts of all waiting requests. The *offline* form
edits the engine's source files, ranks the queue by groups that share a prefix
and protects the groups' cached nodes from eviction. This directory models both.
TLC checks the models on small instances. TLAPS proves, for instances of any
size, the pending radix tree with its updates and queries, the online hooks'
bookkeeping, the orders of the waiting queue, the vllm server with its block pool
and victim selections, and the installers.

## Inventory

| Part | State | Operations | Correct when |
|---|---|---|---|
| Radix tree, `src/tree.rs` | arena of nodes (edge, children, parent, pending_count, terminators), free list | insert, remove with gc and merge, split on demand, queries | compressed, counts exact, no slot lost or used twice, every query is what it means over the set of pending prompts |
| `PendingTree`, `src/pending.rs` | tree and `rid -> tokens` | insert, remove, discard, insert_many, remove_many, scores, clusters, dual walk, LPM sort | it is a map from rid to tokens; a failed call changes nothing |
| Queue sync (in both `patch_hook.py`) | interner in both directions, counter, seen set, `_last_rids`, tree, phase records | `_intern`, `_sync` with a fast path | tree = waiting queue after a sync; no leak; the fast path never skips a change |
| sglang hook | the above | `process_input_requests`, `get_next_batch_to_run`, `calc_priority` | `_validate_sync` holds; retracted requests are tracked again |
| vllm hook | the above and a block-hash demand index with per-request snapshots | `add_request`, `schedule`, `finish_requests` | demand = number of tracked requests with that block, through every order of adds, finishes and preemptions |
| LPM / cluster-LPM, `lpm_integration.py` | the queue; arrival times; EMA of the lane share | the sorts, run in place in every tick | a permutation; pioneers before siblings; lane shares kept; nobody starves |
| vllm victim selection (online `patch_hook.py`, offline `vllm_patches/`) | free queue, reference counts, block hashes, `queue_ref_count` | `get_new_blocks`, `popleft_queue_aware` | the pool stays exact; victims are the least wanted blocks that were looked at |
| Eviction strategy, `eviction.py` | none of its own | `get_priority` of a radix-cache leaf | largest tokens at risk over the leaf's ancestors |
| Patched sglang cache, `radix_cache.py` | nodes with lock and queue references, running sums, leaf set, KV events | match with split, insert, cache (un)finished requests, lock, protect, evict | every page has one owner; sums, locks and events are exact; protected nodes go last |
| Patched sglang policy, `schedule_policy.py` | matches kept on requests, budgets of a round | `calc_priority`, `PrefillAdder`, preemption | what is admitted can be allocated; nobody is lost or starves |
| `PeekEngine`, `engine.py`; `scheduler.py` | nodes protected last round; shared counts | one ranking per round: reset, group, match, score, rebuild, protect | the queue is a permutation; last round's protection is gone |
| `VllmPeekEngine`, `engine_vllm.py` | protected hashes, first-seen times | the same on block hashes, with buffering of small groups | as above; buffering ends when requests stop arriving |
| `PrefixTrie`, `PeekDispatcher`, `trie.py`, `reorder.py` | DFS trie, group counts and hashes, rid map | submit (index, rank, tag, send, push counts), remove | they are those of the requests still pending, and cover every request on its way to the server |
| Installers, `_patcher.py`, `*/install.py` | engine files and their `.peek_bak` | probe, back up, edit, write, revert | installing completes what others left; run one at a time they never lose the engine's own files, and a revert restores them |
| `server_args.py`, workload generators, benchmark drivers | command line; measurements | parsing; load generation | not modelled |

Online, the engine calls a hook; the hook syncs the pending tree with the
engine's queue, sorts the queue by what the tree and the cache answer, and lets
the engine admit from the head. When the engine needs room, the eviction
strategy (sglang) or `get_new_blocks` (vllm) asks the tree, or the demand index
the sync maintains, which cached prefixes waiting requests still want. Offline,
the patched `calc_priority` (sglang) or `schedule` (vllm) calls the engine
adapter, which reorders the queue and marks nodes or blocks; the patched
eviction reads the marks. The dispatcher runs at the client: it tags requests
with group and rank, and the adapter takes them out of the dispatcher when it is
about to schedule them.

Nearly all this runs in the engine's scheduler thread. What makes it hard is not
parallelism but the order of events: requests come, leave, are chunked,
finished, preempted and return between two calls, nodes are split, evicted and
created again under references somebody keeps, and each structure learns of it
by a different route. Real concurrency is in the installers, which any process
that imports `peek.offline` may run, and in the dump thread, which only reads.

## Modules

| Module | Models | Notes |
|---|---|---|
| `RadixTree` | `tree.rs`, as operators on a record `[nodes, free]` | slots numbered as in the arena; the free list is a stack |
| `PendingMap` | what `PendingTree` promises: a map, and the results and errors of its five updates | abstract specification |
| `PendingTree` | the Python class: one action per update | extends `RadixTree`; implements `PendingMap` |
| `PendingQueries` | the queries of `pending.rs` and `_max_ancestor_demand` of `eviction.py` | extends `PendingTree` with a cache for the dual walk |
| `QueueSync` | `_intern`, `_sync`, phase records | shared by the two hooks |
| `SglangHook`, `VllmHook` | the patched engine methods, with the engine around them | engine steps are marked external |
| `ClusterLpm`, `WaitingQueue` | the online sorts as operators; arrivals and ticks around them | a queue is a sequence of rids |
| `Ordering` | Python's stable sort and grouping by key | used by the online sorts and all offline orders |
| `PrefixCache` | `radix_cache.py`, as operators on a cache value | a node is the path to its end; a match may split |
| `KvMemory` | the KV pages: free, in the tree, in a request's row | `cache_finished_req`, `cache_unfinished_req`, release |
| `PrefillAdder` | the budgets, `add_one_req`, `add_chunked_req`, `preempt_to_schedule` | |
| `PeekEngine` | rankings: `engine.py`, `sglang_pre_schedule`, stock `lpm`, `dfs-weight`, `random` | a ranking gives the set of its outcomes |
| `PeekServer` | the patched sglang server | composes the four above with sglang's loop (external) |
| `Trie`, `Dispatcher` | `trie.py`; `PeekDispatcher` with client and server around it | |
| `OfflineOrders` | the reorders of `scheduler.py` beside the engines | operators |
| `BlockPool`, `VllmServer` | vllm's pool with either victim selection; the patched vllm server | composes pool, hook, `VllmPeekEngine` and `OfflineOrders` |
| `Patcher` | the installers over the files of one engine | processes die anywhere |
| `HookProofs` | theorems on both online hooks | the lemmas on one sync come first |
| `PendingTreeProofs` | theorems on the pending tree, its queries and its refinement of `PendingMap` | |
| `OrderingProofs` | lemmas on sequences without repetition and stable sorts | used by all proofs but those on hooks and installers |
| `WaitingQueueProofs`, `VllmServerProofs` | theorems on the online sorts and on the patched vllm server | |
| `TrieProofs`, `DispatcherProofs` | lemmas on `trie.py`; theorems on the dispatcher | |
| `PatcherProofs` | theorems on the installers | |
| `MC...` | instances for TLC | |

Some parts are composed by meaning. `PendingQueries` shows that scores and
clusters of the real tree are what they should be over the pending prompts, and
`ClusterLpm` uses that meaning. `PendingTree` is shown to be a map, and the hooks
use a map. `VllmHook` shows what the demand index counts, and `VllmServer` in
its two online modes uses that count, and for the online order takes any
reordering.

### How state and actions correspond to the code

* `PendingTree`: `tree`, `paths` are the two fields; `reply` is what the call
  returns or raises. `insert_many` runs its duplicate check over the whole batch
  before the first insertion, as the code does. In `RadixTree` and
  `PendingQueries` a `while` loop over the arena (walk, climb, gc) is a function
  of its turn, and a descent with a stack a function of the slot. `dualwalk`
  carries the tokens above a slot in a buffer, `ReqScores` a sum: the model reads
  the tokens off the parent links and adds the sum on the way back.
* `QueueSync`: `rid_interner`, `rid_unintern`, `counter`, `seen`, `last_rids`,
  `tree`, `phase` are the closure's variables. The order in which new ids get
  their numbers is the queue's order, left open in the model. `_sync` is one
  action: it has no await and no lock to give up. `waiting` and `running` are
  the engine's.
* `SglangHook.ProcessInput` is the original method (requests arrive, others are
  aborted) and the sync after it; `GetNextBatch` the sync, the interning of
  `calc_priority` (which happens even when the sync was skipped) and the
  admission. `VllmHook.AddRequest`, `ScheduleAdmit`, `SchedulePreempt`,
  `FinishRequests` are the three patched methods; `schedule` syncs before the
  original runs, so a request it preempts is in the queue and not in the tree
  when it returns.
* `WaitingQueue.Tick(n)`: a tick sorts the queue with some answer of the cache
  and some lane share, and the engine admits the first n. Time stamps are
  renumbered to their order. The answers of the cache (`HitsOf`) are those one
  cache state can give: two requests agree on their common prefix.
* `PeekServer`: `mem` is tree, free pages and the fields of each request;
  `queue`, `running`, `chunked` are the scheduler's; `prev` is
  `tree_cache._peek_prev_protected`; `adder` the round's `PrefillAdder`.
  `StartRound` caches the chunked request, ranks the queue and gives the chunk
  its budget; `Admit` is `add_one_req` with its refusals; `Preempt`
  `preempt_to_schedule`; `EvictLeaf` one turn of `evict`; `Retract` and `Flush`
  are sglang's. A node that left the tree is remembered by its nearest ancestor
  in the tree: this is where a walk over parent pointers arrives. Where the code
  compares access or waiting times the order is left open.
* `Dispatcher`: `Index`, `Send`, `Push` are the three parts of `submit`, cut
  where the server may act in between; `Round` is step 9 of `_run_tagged` and
  the admission; `Arrive`, `Fail` and `Finish` are the client's post, under its
  semaphore. The repository leaves `PeekEngine._dispatcher` None: that is
  `BatchEst` = 0, where a round takes nothing out; the theorems are for every
  `BatchEst`.
* `VllmServer`: `Schedule` is the hook at the head of `schedule`
  (`vllm_on_schedule` with reference counts only, with the engine, or the online
  hook); `Admit` takes hits, evicts and caches; `first_seen` keeps ages in the
  classes the code compares with (10 ms, 30 ms, 0.5 s).
* `Patcher`: `Read`, `Backup` (the test for a backup), `Copy`, `Write`,
  `Restore`, `Unlink` are the file operations, and processes interleave between
  any two; `Start` is the probe at import or a forced run. A file's text is the
  set of edits it has. `config.alone` says that the deployment runs one
  installer at a time; the code does not see to it.

## Runs

Sizes are distinct states; every run takes about two minutes or less with two workers.

| Run | Result | Question |
|---|---|---|
| `PendingTree` (6 492) | pass | 3 requests, 5 prompts that nest, branch and diverge (the empty one too), batches of two with repeated ids. Do arena, counts and compression survive every history, does the class behave as the map, and does every query answer its meaning over it, for paths that end at nodes, inside edges and outside the tree, and for cold, partial, branching and hot caches? |
| `VllmHook` (39 592), `SglangHook` (23 051) | pass | 3 requests with 2 or 3 contents, ids not reused before a sync saw them leave. Is all bookkeeping consistent, is the fast path right, and is every waiting request indexed in the end? |
| `Clpm` (798) | pass | A cluster of three with a deeper cluster of two, a singleton, cold, lukewarm and warm cache answers, shares 1/2, 7/10 and 9/10, both forms of Lane A: sections, stride bounds, contiguous groups, and peek_lpm against stock LPM. |
| `PeekServer` (23 593) | pass | 3 requests on 6 or 8 pages under seven configurations. Do pages, tree, locks, references and events stay exact, do budgeted allocations succeed, and is everybody served? |
| `Dispatcher` (152 701) | pass | 4 requests, two of them equal as far as the trie looks, one a prefix. Are trie, counts, order and shared counts those of the requests that are left, and do the counts cover every request that is on its way while rounds take others out? |
| `Patcher` (1.18 million) | pass | 2 processes, both engines, releases with missing patterns or files. Does an installation complete what others left, also beside others, and are the engine's files recoverable and reverted where installers run one at a time? |
| `VllmServer` (36 172) | pass | Stock, plain, cluster, refs and engine mode on 4 blocks. Is the pool exact, are victims the cheapest, are references the queue's, do reorders lose nobody, and does buffering end for every request of a finite workload? |
| `VllmReuse` | violation | An id that is finished and added again before the next sync is not indexed: `finish_requests` does not touch `_last_rids`, so the fast path sees no change. |
| `ClpmRestart` | violation | With two admissions a tick Lane B never picks, since the stride clocks start afresh in every tick: a request that shares no prefix with another waits at the head of the queue while members of a cluster arrive and are admitted two by two. |
| `PatcherRace` | violation | `backup` tests for a backup and then copies: of two processes that import `peek.offline` at the same time, the slower one copies the file the other has already patched over the other's backup, and the original is lost. |
| `ProtectLeak` | violation | A protected block that was evicted and handed out again is not found under its old hash: its `queue_ref_count` survives the reset. |

In one configuration of `PeekServer` some requests have a peek tag and others
none. A request without one may be dropped by `_run_tagged` (see below):
`EventuallyServed` leaves these requests out (`AtRisk`), and `QueueExact` says of
them that they are in the queue once or not at all.
`NumbersExact` of `VllmHook` says that the interner's maps are inverse, the tree
holds the seen numbers and the interner none but those.

### Bounds

* Three requests are enough for a split, a merge, a collapse of two clusters and
  a query that passes one and stops at another; a fourth only adds siblings.
  Prompts have up to three tokens: an edge that can be split twice.
* `MaxId` ends new submissions once that many ids were handed out (returns of
  known requests go on). With it at 3 or 4, an id leaves, is forgotten and
  returns under a new number.
* In `WaitingQueue` a request that was admitted may arrive again; this is how a
  bounded set of rids gives an endless stream.
* Lane shares are rationals. The floating-point clocks of the code compare alike
  for the shares and queue lengths used, except where exact ties round; the
  shares 7/10 and 9/10 have none up to the lengths checked, and 1/2 is exact.
* `PeekServer` has pages of 2 tokens, prompts of 3 to 5 tokens (whole pages and
  partial ones), a chunk budget of 6 tokens, which two prompts of a round or a
  prompt with its output exceed, and a batch of two. With 6 pages memory runs out: eviction,
  retraction and refusals for want of tokens happen. With 8 pages two requests
  compute the same page at a time, which makes duplicates. One request is of
  higher priority, so preemption happens.
* `Dispatcher` takes one request out in a round and admits up to two
  (`BatchEst`, `MaxAdmit`), so that requests are admitted which nobody takes out;
  two are at the server at a time.
* `VllmServer` sends its workloads in waves: the first fills the cache, the next
  competes for it. The scan cap is 3 in plain mode, so that cap, top-up and both
  fallbacks occur, and the default elsewhere. One preemption.
* `Patcher`: two processes, interchangeable (symmetry), and six releases, two of
  them with installers at will; a process may start again after it ended, so
  histories are unbounded. `PatcherRace` has one release and installers at will.

### Fairness

`SglangHook` and `VllmHook` assume weak fairness of a scheduling call while the
queue differs from the last sync: the engine's event loop calls it in every
iteration. Nothing says that the call admits anybody. `WaitingQueue` assumes
that a tick that admits `Admit` requests happens again and again: running
requests finish and leave room.

`PeekServer`: the scheduler loop goes on while it has work. `VllmServer`: the
engine loop calls `schedule` while requests wait and a call comes to its end;
running requests finish. Nothing makes a request arrive. These two are written
with `[]<>` instead of `WF`, which would have TLC enumerate a whole ranking to
decide `ENABLED`; the formulas say the same, as the deadlock check shows that a
loop with work has a step.

Deadlock is checked in every run; a system that has nothing to do has a step
that changes nothing (`Wait`, `Rest`).

## Divergences that have no run

Met while modelling, and recorded here with the lines.

* `lpm_integration.py:166` calls cluster node ids arrival-stable; `tree.rs:88`
  hands freed slots out again, so a later cluster can have the smaller id.
* `patch_hook.py:384` (sglang): the fast path compares ids; an id that leaves
  and returns with other tokens between two syncs keeps its old tokens, against
  `_validate_sync` (`:457`). The theorem `SglangFastPathCorrect` names the condition.
* `patch_hook.py:571` (sglang) takes the queue of the long-queue fallback for
  arrival order; earlier ticks have sorted it in place.
* `pending_demand([])` is 0 with requests pending (`tree.rs:453`, against
  `pending.rs:341`), so `LookupsExact` speaks of non-empty paths. Without
  sharing, `req_score` is a request's own length and not 0
  (`lpm_integration.py:60`). The 3-tuple key of `peek_sort_inplace` is not stock
  LPM (`lpm_integration.py:43` against the comment at `:261`).
* The cure of `ClpmRestart` would not be enough for every queue: Lane B too
  sorts by section first, so a cold request waits as long as warm ones arrive.
* `reorder.py:233` says that DFS locality is the primary order and count breaks
  ties; the code sorts by count first. A request keeps the rank it got when it
  was submitted, and the adapter uses that of a group's first member.
* `reorder.py:198`, `:202`: if a server thread called `remove` beside `submit`,
  a key could vanish between two reads and an older snapshot of the counts
  overwrite a newer one. The code's own use is one thread, and that is what the
  model has.
* `engine.py:140` says that `PeekDispatcher` sets `_dispatcher`; nothing in the
  repository does, so a shipped engine takes nothing out of the dispatcher
  (`:359`). Where it is set, requests that fail on their way and those admitted
  beyond `_BATCH_EST` in a round stay. No property says that an entry is taken
  out in the end.
* `engine.py:318` decides by the head of the queue alone, and `_run_tagged`
  rebuilds the queue from the tagged groups: a waiting request without a tag is
  gone, against `tests/offline/test_server_receives_tags.py:183` ("No request
  should be silently dropped during grouping"). The same file records it as a
  known issue of mixed queues.
* `engine_vllm.py:189-216`: a ready group with a low score sorts behind groups
  with cached blocks for as long as such groups arrive, and a group that leaves
  the queue and returns starts to age anew. In the run every request arrives
  once, so `EventuallyServed` is about workloads that end.
* `src/README.md:183` says that importing patches the engine; the probe
  (`_patcher.py:33`, `:42`) looks at one file of four, so an installation that
  died half-way is not completed by an import, and `patch_vllm` leaves the stock
  module of the probe in the process. An edit whose pattern is missing still
  counts as patched in six of the eight files. A backup left by an older release
  is kept when the engine is upgraded, and a torn copy would be taken for the
  original.
* A revert that runs beside an installer can lose the original too: `Recoverable`
  fails with `RevertAlone = FALSE`, also where installers run one at a time. The
  runs therefore let an operator revert only when nobody installs.
* `engine_vllm.py:241` says 50 % of the cache are protected, the code takes two
  thirds, of the groups as met and not as scored. That the best buffered group
  is promoted when none is ready does not change the order. The early returns of
  `run` (`:66`) leave the references of the last round in place; `RefsExact` is
  about rounds that act.
* `vllm_reorder_waiting_queue` does nothing from its threshold on, where
  `sglang_reorder_waiting_queue` begins. `sglang_cached_prefix_length` looks
  children up by single tokens, and finds nothing with pages of several.

## Proofs

### The hooks

`HookProofs` begins with the lemmas about one sync: numbering new requests keeps
the interner maps inverse (`InternExtends`), a sync preserves the core invariant
(`SyncStep`), and the unique-id invariant makes the fast path right
(`FastPathFromUnique`). It then proves for vllm, and under names that begin with
`Sglang` for sglang, for every finite set of requests, every set of contents and
every bound:

* `TypeCorrect`: `TypeOK` is an invariant.
* `BookkeepingSound`: the interner's two maps are inverse and everything above
  the counter is fresh; the tree holds exactly the seen numbers; the phase
  records agree with `_last_rids`. This holds with ids reused at will.
* `FastPathCorrect`: when ids are not reused between syncs, an unchanged id set
  means that tree and queue agree, and the interner holds no stale entry.
* `SglangValidateSyncHolds`: under the same condition, what `_validate_sync`
  checks is true after every input batch. `ArrivalCorrect` (vllm): a request is in
  the tree when `add_request` returns. `NumbersCorrect` (vllm): `NumbersExact`,
  that is the bookkeeping, and no number kept of a request that left.
* `DemandCorrect` (vllm): the demand of a hash is the cardinality of the set of
  tracked requests whose snapshot contains it, and the recorded depth covers
  their positions.

The inductive invariant `CoreInv` joins `InternerInverse`, `TreeIsSeen`,
`PhasesMatch` and the link between them that none implies: a seen number was in
the queue of the last sync (`SeenWereQueued`). Without it a departing request's
phase could not be traced to its id. For the fast path one more fact is needed
(`StillTracked`): a request that is in the queue and was in it at the last sync
is tracked with its present tokens. This is what id reuse breaks, and
`VllmReuse` is its counterexample.

The passing hook runs have ids unique (`ReuseIds = FALSE`), since only then all
properties hold; the theorems on bookkeeping and demand cover reuse as well.

### The pending tree

`PendingTreeProofs` proves all six properties of the run `PendingTree`, for any
finite set of request ids, any prompts that are sequences of numbers, any
batches over them and any set of caches (`PendingAssumption`,
`CachesAssumption`), after any history of the five updates:

* `PendingInvariant` and `TreeWellFormed`: each slot is live or free, and free
  once; counts and terminators are those of the pending requests; the tree is
  compressed.
* `TreeImplementsMap`: the class refines `PendingMap`. Every update is one of
  the map's, with its result or its error, or changes nothing.
* `TreeDemandExact`, `TreeLookupsExact`: demand along a path, with the early exit
  of `_max_ancestor_demand`; scores, positions and longest matches.
* `TreeDualWalkExact`: one walk over tree and cache gives every request what
  matching it alone gives, or what the threshold lets it keep.
* `TreeRankingExact`: clusters, the counters that sum to the queue, and scores.

The arena stores neither which slots are live nor what path a slot stands for;
`WellFormed` computes both, by recursion, which leaves nothing to reason with
when a link changes. The inductive invariant names them. `Keeps(tree, paths)`
says that there are a set `L` of live slots and a path `P[n]` for each such that

* `Links`: parent and child links answer each other, and a path is the parent's
  path followed by the edge;
* `Arena`: the other slots are blank and on the free list, each once;
* `Content`: a request ends at the slot of its path, and a count is the number of
  pending prompts that begin with the slot's path;
* `Compact`: every slot but ROOT ends a request or branches.

Since `L` and `P` are quantified over all sets and functions, TLC cannot
evaluate `Keeps`; the run checks `WellFormed`, which is what it says of a
reachable state in terms that can be computed.

The argument has four layers. A primitive edit (split an edge, hang a leaf,
unlink, merge) changes a few links and paths, and `Links` is shown anew for
these. A climb to ROOT visits exactly the live slots whose path begins the
slot's own, so adding 1 along it is adding 1 to the counts of the beginnings of
a prompt. Each turn of `gc_upward` keeps everything but compactness at one
slot, which the next turn looks at. Insert, remove and the two folds over
batches follow. The queries are read off the invariant: a slot's path is unique,
so distinct children begin with distinct tokens, the prompts below a slot are
those that begin with its path, and a walk that stops inside an edge has met all
slots that could matter. What a recursion towards the children returns is
shown at a longest path where the claim would fail; what a loop returns, at the
first turn. For the dual walk the claim (`Gives`) speaks of what a slot has
already settled: below a slot that misses, every request keeps the hit of the
miss. For scores it is that the requests below a slot have earned the prefixes they
share beyond it (`Rest`), and sums over finite sets have lemmas of their own.

### Sorts and sequences

`OrderingProofs` has one notion, `Enumerates(s, S)`: a sequence that lists a set
without repetition. Its lemmas say what keeps it (concatenation, reversal,
taking elements out, grouping by key and flattening) and that `InOrder`, the
model of Python's `sort`, lists its places in any total order; a weak order with
ties broken by place is one (`StableOrders`). `LightestPlaces` is the fact
about choosing the m lightest that victim selection needs. Folds and sorts of
the library are defined by recursion; their lemmas are proved by looking at the
first place where a claim would fail, since induction over data is not
available.

### The waiting queue

`WaitingQueueProofs` assumes only `OrderAssumption` and `QueueAssumption`
(finitely many ids, prompts are sequences of numbers, thresholds are natural, a
share is a fraction between 0 and 1). The invariant that induction needs is small: nobody waits
twice, and who waits has a stamp. What matters is one sort of one such queue.

* `QueuePioneersKeepLead`. Every lane sorts by a tuple that starts with the
  section (`SortedLane`), the stride scheduler merges two such lanes, and each
  pick comes from the front of its lane, so no section is entered before the
  earlier one is used up (`PickedStep`). A deprioritized request has a first
  claimant of its key (`FirstClaimant`), which stands in an earlier section;
  hence the sorted queue gives all of them the same roles (`RolesKept`).
* `QueueLaneBounds`. The picks are a recursion over a record of order and two
  counters. Its invariant has the two clock inequalities of `Clocks`: neither
  virtual clock is more than one stride behind when it is picked. Integer
  arithmetic turns them into the floor and ceiling of the bound.
* `QueueGroupsContiguous`. The length of a common prefix is an ultrametric
  (`SharedUltrametric`), so groups are equivalence classes (`SameGroup`) and the
  first four numbers of the group-major key name the class (`GroupKey`); a tuple
  between two that agree on four numbers agrees on them too.
* `QueueLpmIsStock`. The comparison of `lpm_sort_order` and the stock key define
  the same stable order.

### The vllm server

`VllmServerProofs` proves, for any blocks, hashes, requests and workloads in all
five modes, from `PoolAssumption` and `ServerAssumption` (finite sets; the hashes
of one prompt differ, since each hash covers the blocks before it; a prompt with
its output block fits into the pool):

* `VllmPoolExact` and `VllmQueueExact`: the pool and the queue are exact.
* `VllmVictimsAreCheapest`: each selection (stock, scan with cap and top-up,
  reference-aware with fallbacks) hands out what goes first among the blocks it
  looks at.
* `VllmRefsExact`: the references a round that acts leaves are those of the
  queue, whatever was there before.

The inductive invariant joins `FreeExact` (the free queue lists the blocks of
count 0, each once), `RefExact` (a count is the number of holders), `HeldExact`
(who holds blocks and how many), `CachedOnce` (a block has one hash at most),
`PromptsCached` (a running request's blocks are cached under its hashes) and
`QueuesExact` (both queues list the requests of their state). `PoolExact` alone
is not inductive: that a finishing request frees exactly its blocks needs
`HeldExact`, and that a hit is not also taken as a victim needs that the hits
leave the free queue first.

### The trie and the dispatcher

`TrieProofs` and `DispatcherProofs` prove `DispatcherExact`, `StoreFresh`,
`QueriesExact` and `OnTheirWayCounted`, for any finite set of requests, any
prompts that are sequences of numbers, any depth limit, any batch estimate, admission bound and
concurrency, and any positive `MinDepth` (`TrieAssumption`,
`DispatcherAssumption`), after any order of submissions, arrivals, failures,
rounds (also inside `send_fn`) and completions.

The claim about the trie is `IsTrie(t, m, K)`: `m` gives each prompt index its
path, and the nodes of `t` are the beginnings of these paths, each with the
number of paths through it, the list of the prompts that end there, and its
children, each once. It says everything about the trie but the order of
prompts and children. `InsertIsTrie` and `RemoveIsTrie` say that `insert` and
`remove` turn the trie of `m` into the trie of `m` with one prompt more or less;
for `remove` the point is that the nodes that go, from the bottom up until one
is of use, are exactly those no path goes through any more (`EmptiedNodes`). A
traversal lists the nodes below one child before the next, so it lists every
prompt once and keeps all prompts below a node together, whatever order the
children are visited in (`WalkFacts`, `OrderFacts`).

The inductive invariant `IInv` of the dispatcher joins `IsTrie` for the pending
requests with the counts, hashes and ranked keys of the same requests, and with
what the induction needs beside: an index is given to each request that was
submitted, in turn, so that a new index is in no list of the trie
(`disp.next`); the request that is being sent is not at the server yet; the
queue lists waiting requests, each once, so that a round takes nobody out twice.
`CountsPushed`, `DispatcherSound` and `QueriesSound` follow from it.
`OnTheirWayCovered` needs one invariant more (`WayInv`): a request on its way is
pending at the dispatcher until the server has it. A push of the counts then
covers it, and a round, which takes out requests of the queue only, does not
change that. For the
queries, a topmost node that is deep enough and has two prompts below it is the
common prefix of a group, and different ones have disjoint groups, so the sizes
add up to the number of requests that share (`ScoreExact`). That
`reorder_for_prefix_sharing`, which builds a trie of its own, gives a permutation
that keeps sharers together is `ReorderedExact`.

### The installers

`PatcherProofs` proves, for any set of processes and any releases that
`ConfigsAssumption` admits, `PatcherInstallComplete`, however many installers run
at a time, and `PatcherRecoverable` and `PatcherRevertRestores`, which are about
deployments that run one at a time (`config.alone`). All three are under
`RevertAlone` (a revert starts only when nobody installs or reverts). The code
enforces neither condition, and without either the original can be lost
(`PatcherRace`, and see above), so they are hypotheses of the statements. The
invariant: a file holds no edit but those its release takes; what an installer
has read the file still contains, since nothing takes an edit out while it runs;
what an installer without failure or a revert has passed is finished; and a
revert has the files to itself. For deployments with one installer it adds that a backup is stock and that a file which is not stock
has one. An installer about to copy is right that there is no backup, so the file
it copies is stock.

### Only model-checked

* Liveness (`EventuallyIndexed`, `EventuallyTracked`, `EventuallyServed`): out of
  the prover's reach.
* `PeekServer`: `cache_unfinished_req` matches, splits, inserts, frees and locks
  within one step, over pages, locks, references, running sums and events
  together. An inductive invariant relates all of them to every request's row;
  it was not attempted.
* `OrdersSound` of `VllmServer`, which says that the orders of `OfflineOrders`
  lose nobody.

## Not modelled

* `dynamic_lane` as arithmetic: the share is any of a set in each tick.
  `age_alpha` is 0, its default. The tuple keys of `peek_sort_inplace`.
* Recency and decay eviction, which read the clock; ties that access times
  decide are left open.
* Lazy `match_prefix` of the online sglang hook, which needs sglang's own cache;
  the dump thread, profiling and validation output.
* `lpm_order` of `pending.rs`, which neither hook calls.
* Patched sglang: admission with `ignore_eos` and for diffusion models, SWA and
  SSM caches, hits in host memory, and eviction strategies other than LRU and
  peek's. The hashes of KV events ignore `extra_key`; in the model an extra key
  only makes the first page distinct.
* vllm requests of which tokens are computed before they wait (KV connectors);
  more than one KV cache group.
* The cache fractions and the queue of scheduled rids in `CacheStateStore`,
  which nothing in the repository reads.
* `server_args.py`, a copy of sglang's command-line parser; workload generators
  and benchmark drivers, whose input is random and whose output is measurement.

## Plan

Models, runs and proofs above are what was planned first: the tree, the hooks,
the sorts, the two servers, the dispatcher and the installers. What could follow:

1. `OrdersSound`, from the lemmas on the trie (`TrieProofs`) and those of
   `OrderingProofs`.
2. `PeekServer`: `PoolExact` and `PrefixPinned`, from an invariant that gives
   every page its owner.
