----------------------------- MODULE PrefillAdder -----------------------------
(***************************************************************************)
(* The admission budget of schedule_policy.py (PrefillAdder), as operators *)
(* on a memory value and an adder value:                                   *)
(*   totalOffset   rem_total_token_offset                                  *)
(*   curOffset     cur_rem_token_offset                                    *)
(*   remInput      rem_input_tokens                                        *)
(*   remChunk      rem_chunk_tokens                                        *)
(*   canRun        can_run_list                                            *)
(*   preempted     preempt_list                                            *)
(*   chunked       new_chunked_req, or the chunked_req that goes on        *)
(*   full          running_batch.batch_is_full                             *)
(*   ratio         new_token_ratio                                         *)
(*   todo          what is left of the loop over the waiting queue         *)
(* Left out: hybrid SWA and SSM caches, diffusion models, host (L2) hits,  *)
(* context parallelism, the prefill delayer, ignore_eos without a cache.   *)
(***************************************************************************)
EXTENDS KvMemory

CONSTANTS
    MaxPrefillTokens,       \* rem_input_tokens of a round
    ChunkedPrefillSize,     \* rem_chunk_tokens of a round
    ClipMaxNewTokens,       \* CLIP_MAX_NEW_TOKENS
    NewTokenRatios,         \* values of new_token_ratio, which sglang adapts: 0 and 1
    Priority,               \* [Req -> Int]
    PreemptionThreshold,    \* priority_scheduling_preemption_threshold
    NoReq                   \* None

Clip(n) == Min({n, ClipMaxNewTokens})

(* _get_running_request_total_token_offset                                 *)
RunningOffset(m, r, ratio) == Clip(MaxNewTokens(r) - m.req[r].out) * ratio

SumOffsets(m, reqs, ratio) ==
    SumFunctionOnSet([r \in reqs |-> RunningOffset(m, r, ratio)], reqs)

(* PrefillAdder.__init__                                                   *)
NewAdder(m, running, waiting, ratio) ==
    [totalOffset |-> SumOffsets(m, ToSet(running), ratio), curOffset |-> 0, ratio |-> ratio,
     remInput |-> MaxPrefillTokens, remChunk |-> ChunkedPrefillSize,
     canRun |-> <<>>, preempted |-> <<>>, chunked |-> NoReq, full |-> FALSE,
     todo |-> waiting]

(* Mutant: what could be evicted does not count as room.                   *)
RemTotalTokensFreeOnly(m, a) == AvailableTokens(m) - a.totalOffset

RemTotalTokens(m, a) == AvailableTokens(m) + m.tree.evictable - a.totalOffset
CurRemTokens(m, a) == AvailableTokens(m) + m.tree.evictable - a.curOffset

CeilPagedTokens(n) == CeilPages(n) * PageSize

(* budget_state is CONTINUE                                                *)
BudgetLeft(m, a) ==
    /\ RemTotalTokens(m, a) > 0 /\ CurRemTokens(m, a) > 0
    /\ a.remInput > 0 /\ a.remChunk > 0

(* _update_prefill_budget                                                  *)
UpdatePrefillBudget(a, extend, maxNew) ==
    [a EXCEPT !.totalOffset = @ + CeilPagedTokens(extend) + maxNew,
              !.curOffset = @ + CeilPagedTokens(extend),
              !.remInput = @ - CeilPagedTokens(extend),
              !.remChunk = @ - CeilPagedTokens(extend)]

-----------------------------------------------------------------------------
(* add_one_req for r, whose prefix has just been matched.                  *)

TotalTokens(m, r) == m.req[r].ext + Clip(Max({MaxNewTokens(r) - m.req[r].out, 0}))

Locked(m, r) == [m EXCEPT !.tree = IncLockRef(@, m.req[r].node)]

(* Mutant: the budget is not looked at again with the prefix locked.       *)
NoTokenUnlocked(m, a, r) == TotalTokens(m, r) >= RemTotalTokens(m, a)

(* NO_TOKEN: the pool cannot hold the request, before its prefix is locked *)
(* or after, when the prefix no longer counts as evictable.                *)
NoToken(m, a, r) ==
    \/ TotalTokens(m, r) >= RemTotalTokens(m, a)
    \/ TotalTokens(m, r) >= RemTotalTokens(Locked(m, r), a)

FitsChunk(m, a, r) == CeilPagedTokens(m.req[r].ext) <= a.remChunk

TruncLen(a) == (a.remChunk \div PageSize) * PageSize

(* The request cannot be added: NO_TOKEN, or OTHER for want of input or    *)
(* chunk tokens.                                                           *)
Refused(m, a, r) ==
    \/ NoToken(m, a, r)
    \/ CeilPagedTokens(m.req[r].ext) >= a.remInput /\ a.canRun # <<>>
    \/ ~FitsChunk(m, a, r) /\ TruncLen(a) <= 0

(* The request is added, whole or with its first chunk only; it holds the  *)
(* lock that _lock_node took for the checks.                               *)
AddOneReq(m, a, r) ==
    LET whole == FitsChunk(m, a, r)
        ext   == IF whole THEN m.req[r].ext ELSE TruncLen(a)
        mm    == [Locked(m, r) EXCEPT !.req[r].ext = ext, !.req[r].st = "prefill"]
        added == [a EXCEPT !.canRun = Append(@, r),
                           !.chunked = IF whole THEN @ ELSE r]
        aa    == UpdatePrefillBudget(added, ext, IF whole THEN Clip(MaxNewTokens(r)) ELSE 0)
    IN [mem |-> mm,
        adder |-> [aa EXCEPT !.todo = IF BudgetLeft(mm, aa) THEN Tail(@) ELSE <<>>]]

(* add_chunked_req: the next chunk of r.  r must be added, whatever the    *)
(* budget says.                                                            *)
AddChunkedReq(m, a, r) ==
    LET want  == Len(Tokens(m, r)) - m.req[r].hit
        least == Min({a.remChunk, RemTotalTokens(m, a)})
        rem   == IF least <= 0 THEN a.remChunk ELSE least
        ext   == Min({want, rem})
        added == [a EXCEPT !.canRun = Append(@, r),
                           !.chunked = IF want > rem THEN r ELSE NoReq]
    IN [mem |-> [m EXCEPT !.req[r].ext = ext],
        adder |-> UpdatePrefillBudget(added, ext,
                                      IF want > rem THEN 0 ELSE Clip(MaxNewTokens(r)))]

-----------------------------------------------------------------------------
(* preempt_to_schedule                                                     *)

(* Running requests in the order in which they would go, the lowest        *)
(* priority first.  Requests that have finished hold nothing any more.     *)
Preemptible(m, running) ==
    SetToSortSeq({r \in ToSet(running) : ~Finished(m, r)},
                 LAMBDA x, y : Priority[x] < Priority[y])

(* How many of them go for `r`: as few as free enough tokens, and none     *)
(* whose priority is too close.  0: preemption is not worth it.            *)
PreemptCount(m, a, r, running) ==
    LET order == Preemptible(m, running)
        need  == m.req[r].ext + Clip(MaxNewTokens(r)) - RemTotalTokens(m, a)
        gain(k) == SumOffsets(m, ToSet(SubSeq(order, 1, k)), a.ratio)
        far(k)  == \A i \in 1..k : Priority[r] - Priority[order[i]] > PreemptionThreshold
        enough  == {k \in 1..Len(order) : far(k) /\ need - gain(k) <= 0}
    IN IF enough = {} THEN 0 ELSE Min(enough)

(* The victims give back what they hold.                                   *)
PreemptToSchedule(m, a, r, running) ==
    LET victims == SubSeq(Preemptible(m, running), 1, PreemptCount(m, a, r, running))
    IN [mem |-> FoldLeft(ReleaseReq, m, victims),
        adder |-> [a EXCEPT !.totalOffset = @ - SumOffsets(m, ToSet(victims), a.ratio),
                            !.preempted = @ \o victims],
        running |-> SelectSeq(running, LAMBDA x : x \notin ToSet(victims))]
=============================================================================
