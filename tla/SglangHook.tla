------------------------------ MODULE SglangHook ------------------------------
(***************************************************************************)
(* python/peek/online/engines/sglang/patch_hook.py: the patched            *)
(* Scheduler.process_input_requests, get_next_batch_to_run and             *)
(* SchedulePolicy.calc_priority around the event loop of sglang.           *)
(* The scheduler process runs them from one loop, so each is one step.     *)
(***************************************************************************)
EXTENDS QueueSync

sglangVars == <<engineVars, syncVars>>

SglangInit == SyncInit

(* _patched_process_input: the engine handles one batch of messages, which *)
(* may abort waiting requests and queue new ones, then a sync.             *)
ProcessInput(aborted, added) ==
    LET left == Drop(waiting, aborted)
    IN /\ aborted \subseteq DOMAIN waiting
       /\ DOMAIN added # {} => MaySubmit(DOMAIN added, left)
       /\ waiting' = Override(left, added)
       /\ Sync(waiting')
       /\ UNCHANGED running

(* _patched_get_next_batch up to the call of the original: a sync, and,    *)
(* when the original gets as far as calc_priority, the interning of every  *)
(* waiting rid (a slow sync has interned them all already).                *)
SyncAndRank ==
    IF SameRids(waiting)
    THEN UNCHANGED syncVars \/ InternOnly(DOMAIN waiting)
    ELSE SlowSync(waiting)

(* The original get_next_batch_to_run moves waiting requests to the        *)
(* running batch ...                                                       *)
GetNextBatch(picked) ==
    /\ picked \subseteq DOMAIN waiting
    /\ SyncAndRank
    /\ waiting' = Drop(waiting, picked)
    /\ running' = running \cup picked

(* ... or, with nothing to prefill and no memory left to decode, retracts  *)
(* running ones, which wait again with the output they have produced.      *)
Retract(back) ==
    /\ DOMAIN back \subseteq running /\ counter < MaxId
    /\ SyncAndRank
    /\ waiting' = Override(waiting, back)
    /\ running' = running \ DOMAIN back

(* A running request completes; the hooks are not told.                    *)
SglangComplete(r) ==
    /\ r \in running
    /\ running' = running \ {r}
    /\ UNCHANGED <<waiting, syncVars>>

SglangNext ==
    \/ \E aborted \in SUBSET Rid, A \in SUBSET Rid : \E added \in [A -> Content] :
          ProcessInput(aborted, added)
    \/ \E picked \in SUBSET Rid : GetNextBatch(picked)
    \/ \E R \in SUBSET Rid : \E back \in [R -> Content] : Retract(back)
    \/ \E r \in Rid : SglangComplete(r)

Batch ==
    \/ \E picked \in SUBSET Rid : GetNextBatch(picked)
    \/ \E R \in SUBSET Rid : \E back \in [R -> Content] : Retract(back)

SglangSpec == SglangInit /\ [][SglangNext]_sglangVars

(* The event loop calls get_next_batch_to_run in every iteration, so a     *)
(* changed queue is met by a call; nothing says that a call picks.         *)
SglangFairSpec == SglangSpec /\ WF_sglangVars(~SameRids(waiting) /\ Batch)

-----------------------------------------------------------------------------
(* Every variable has its type.                                            *)
SglangTypeOK == QueueTypeOK /\ HookTypeOK

(* What _validate_sync checks after each sync ("peek.tree tracks EXACTLY   *)
(* the rids in scheduler.waiting_queue, with matching tokens"): the state  *)
(* in which process_input_requests returns, where the queue is the one the *)
(* sync compared.                                                          *)
SyncedAfterInput ==
    [][\A aborted \in SUBSET Rid, A \in SUBSET Rid : \A added \in [A -> Content] :
          ProcessInput(aborted, added) => TracksQueue']_sglangVars

(* A retracted request, which no hook announces, is tracked with its new   *)
(* tokens or leaves the queue again.                                       *)
EventuallyTracked ==
    \A r \in Rid : r \in DOMAIN waiting
        ~> \/ r \notin DOMAIN waiting
           \/ /\ r \in DOMAIN rid_interner /\ rid_interner[r] \in seen
              /\ tree[rid_interner[r]] = waiting[r]
=============================================================================
