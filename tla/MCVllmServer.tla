----------------------------- MODULE MCVllmServer -----------------------------
(* VllmServer for TLC.  The prompts: three that begin alike and go on        *)
(* differently, two equal ones that share nothing with them, one too short   *)
(* for a full block, and two that evict: alone, or filling the pool.  The    *)
(* workloads first fill the cache, then let requests compete for it.         *)
EXTENDS VllmServer

CONSTANTS r1, r2, r3, r4, r5, r6, r7, r8

AllHashes == r1 :> <<1, 2>> @@ r2 :> <<1>> @@ r3 :> <<1, 3>> @@ r4 :> <<4>> @@ r5 :> <<>>
             @@ r6 :> <<4>> @@ r7 :> <<5, 6>> @@ r8 :> <<4, 5, 6>>

MCBlockHashes == Restrict(AllHashes, Req)

MCScanCap == [m \in Modes |-> IF m = "plain" THEN 3 ELSE 0]

MCWorkloads == [m \in Modes |->
    CASE m = "engine" -> {<<{r1}, {r2, r3, r4, r5}>>, <<{r2, r4}, {r1, r3, r6, r7}>>}
      [] m = "off"    -> {<<{r1}, {r4, r5}>>}
      [] OTHER        -> {<<{r2, r4}, {r1, r3, r6, r7}>>}]

MCLeakWorkloads == [m \in Modes |-> {<<{r1}, {r2, r3}, {r8}, {r4, r6}>>}]
=============================================================================
