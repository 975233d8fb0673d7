---------------------------- MODULE MCPeekServer ----------------------------
(* PeekServer for TLC: two requests that share their first page and differ  *)
(* in the second, one of them of odd length, which is chunked when another  *)
(* is admitted before it, and one with nothing in common with them.         *)
EXTENDS PeekServer

CONSTANTS r1, r2, r3

MCPrompt == r1 :> <<1, 1, 2, 2, 1>> @@ r2 :> <<1, 1, 1, 2>> @@ r3 :> <<2, 2, 1>>
MCOutput == r1 :> <<1, 1>> @@ r2 :> <<1, 1, 1, 1>> @@ r3 :> <<2, 2, 2, 2>>
MCPriority == r1 :> 0 @@ r2 :> 0 @@ r3 :> 2

(* The small pool runs out of memory, in the large one requests that share  *)
(* a page are computed at the same time.                                    *)
Config(policy, tagged, pages) == [policy |-> policy, tagged |-> tagged, pool |-> 1..pages]

MCConfigs == {Config("peek", Req, 6), Config("peek", {}, 6), Config("pre-schedule", {}, 6),
              Config("lpm", {}, 6), Config("dfs-weight", {}, 6), Config("random", {}, 6),
              Config("peek", {r1, r2}, 8)}
=============================================================================
