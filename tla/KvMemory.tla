------------------------------- MODULE KvMemory -------------------------------
(***************************************************************************)
(* Who owns which page of KV slots in a patched sglang server: the free    *)
(* list of the allocator, the radix cache, and the requests, whose         *)
(* req_to_token rows mix pages of the tree with pages of their own.  The   *)
(* operators act on a memory value [tree, free, req].                      *)
(*   st       "new", "waiting", "prefill", "running", "done"               *)
(*   out      len(output_ids)                                              *)
(*   pages    the pages of the request's row of req_to_token               *)
(*   len      tokens of the request that have KV (kv_committed_len)        *)
(*   ext      extend_input_len                                             *)
(*   hit      len(prefix_indices)                                          *)
(*   prot     cache_protected_len                                          *)
(*   node     last_node (NoNode: None); a node that left the tree is named *)
(*            by its nearest ancestor in the tree, where a walk from it    *)
(*            arrives                                                      *)
(*   matched  _peek_matched                                                *)
(***************************************************************************)
EXTENDS PrefixCache, TLC

CONSTANTS
    Req,
    Prompt,         \* [Req -> tokens]: origin_input_ids
    Output,         \* [Req -> tokens]: what the model generates, up to max_new_tokens
    Page,           \* pages of the KV pool, a set of numbers
    NoNode          \* None

Tokens(m, r) == Prompt[r] \o SubSeq(Output[r], 1, m.req[r].out)

MaxNewTokens(r) == Len(Output[r])

Finished(m, r) == m.req[r].st = "done"

CeilPages(n) == (n + PageSize - 1) \div PageSize

(* External: a Req as the server builds it.                                *)
NewReq == [st |-> "new", out |-> 0, pages |-> <<>>, len |-> 0, ext |-> 0, hit |-> 0,
           prot |-> 0, node |-> NoNode, matched |-> FALSE]

InitMemory == [tree |-> EmptyCache, free |-> Page, req |-> [r \in Req |-> NewReq]]

AvailableTokens(m) == PageSize * Cardinality(m.free)

(* External: allocator.free.                                               *)
FreePages(m, pages) == [m EXCEPT !.free = @ \cup Range(pages)]

(* External: the allocator hands out `n` pages to the end of r's row.      *)
AllocPages(m, r, n) ==
    LET new == [i \in 1..n |->
                  CHOOSE p \in m.free : Cardinality({q \in m.free : q < p}) = i - 1]
    IN [m EXCEPT !.free = @ \ Range(new), !.req[r].pages = @ \o new]

-----------------------------------------------------------------------------
(* kv_indices[from : to] in pages, `from` on a page boundary.              *)
RowSlice(m, r, from, to) ==
    SubSeq(m.req[r].pages, from \div PageSize + 1, CeilPages(to))

KeysOf(m, r) == Aligned(SubSeq(Tokens(m, r), 1, m.req[r].len))

InsertReq(m, r) ==
    LET keys == KeysOf(m, r)
    IN Insert(m.tree, keys, SubSeq(m.req[r].pages, 1, Len(keys) \div PageSize))

(* Mutant: the partial page behind the last whole one is never freed.      *)
FinishKeepsTail(m, r, insert) ==
    LET keys == KeysOf(m, r)
        i    == InsertReq(m, r)
        upto == IF insert THEN i.prefix_len ELSE Len(keys)
        t    == IF insert THEN i.cache ELSE m.tree
        f    == FreePages(m, RowSlice(m, r, m.req[r].prot, upto))
    IN [f EXCEPT !.tree = DecLockRef(t, m.req[r].node)]

(* cache_finished_req: the tree takes the pages it does not have, the      *)
(* duplicates and the unaligned tail are freed, the lock is released.      *)
CacheFinishedReq(m, r, insert) ==
    LET keys == KeysOf(m, r)
        i    == InsertReq(m, r)
        upto == IF insert THEN i.prefix_len ELSE Len(keys)
        t    == IF insert THEN i.cache ELSE m.tree
        f    == FreePages(FreePages(m, RowSlice(m, r, m.req[r].prot, upto)),
                          RowSlice(m, r, Len(keys), m.req[r].len))
    IN [f EXCEPT !.tree = DecLockRef(t, m.req[r].node)]

(* Mutant: the row keeps the pages that were freed as duplicates.          *)
UnfinishedKeepsRow(m, r) ==
    LET keys == KeysOf(m, r)
        i    == InsertReq(m, r)
        f    == FreePages(m, RowSlice(m, r, m.req[r].prot, i.prefix_len))
        t    == MatchPrefix(i.cache, keys)
    IN [f EXCEPT !.tree = IncLockRef(DecLockRef(t.cache, m.req[r].node), t.node),
                 !.req[r].prot = Len(keys), !.req[r].node = t.node,
                 !.req[r].hit = m.req[r].len]

(* cache_unfinished_req: the row is rewritten with the tree's pages from   *)
(* the protected length on, and the lock moves to the end of the new match.*)
CacheUnfinishedReq(m, r) ==
    LET keys == KeysOf(m, r)
        i    == InsertReq(m, r)
        f    == FreePages(m, RowSlice(m, r, m.req[r].prot, i.prefix_len))
        t    == MatchPrefix(i.cache, keys)
        row  == RowSlice(m, r, 0, m.req[r].prot)
                  \o SubSeq(DeviceIndices(t.cache, t.node),
                            m.req[r].prot \div PageSize + 1, Len(t.node) \div PageSize)
                  \o RowSlice(m, r, Len(keys), m.req[r].len)
    IN [f EXCEPT !.tree = IncLockRef(DecLockRef(t.cache, m.req[r].node), t.node),
                 !.req[r].pages = row, !.req[r].prot = Len(keys),
                 !.req[r].node = t.node, !.req[r].hit = m.req[r].len]

(* External: release_req of a retracted or preempted request; its pages go *)
(* back without being cached.  _peek_matched is not reset.                 *)
ReleaseReq(m, r) ==
    [CacheFinishedReq(m, r, FALSE) EXCEPT
        !.req[r] = [NewReq EXCEPT !.st = "waiting", !.out = m.req[r].out,
                                  !.matched = m.req[r].matched]]

(* External: init_next_round_input.  The prompt and the output so far are  *)
(* matched again, the last token excepted.                                 *)
InitNextRoundInput(m, r) ==
    LET toks == Tokens(m, r)
        t    == MatchPrefix(m.tree, Front(toks))
    IN [m EXCEPT !.tree = t.cache,
                 !.req[r].node = t.node, !.req[r].hit = Len(t.node),
                 !.req[r].prot = Len(t.node), !.req[r].len = Len(t.node),
                 !.req[r].pages = DeviceIndices(t.cache, t.node),
                 !.req[r].ext = Len(toks) - Len(t.node)]

(* evict() of one leaf: its pages return to the pool.  Objects that named  *)
(* the leaf now lead to its parent.                                        *)
Evict(m, n) ==
    [m EXCEPT !.tree = DeleteLeaf(@, n),
              !.free = @ \cup {m.tree.kv[p] : p \in PagePaths(n) \ PagePaths(Parent(m.tree, n))},
              !.req = [r \in Req |-> IF m.req[r].node = n
                                     THEN [@[r] EXCEPT !.node = Parent(m.tree, n)] ELSE @[r]]]
=============================================================================
