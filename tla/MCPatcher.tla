------------------------------ MODULE MCPatcher ------------------------------
(* Patcher for TLC: both engines as the patches expect them, a release of   *)
(* each that lacks patterns (one of them a file as well), with installers   *)
(* one at a time; and one of each with installers at will, of which a       *)
(* pattern is not found.                                                    *)
EXTENDS Patcher, TLC

CONSTANTS p1, p2

Release(engine, drift, absent, alone) ==
    [engine |-> engine, drift |-> drift, absent |-> absent, alone |-> alone]

MCConfigs ==
    {Release("sglang", {}, {}, TRUE), Release("vllm", {}, {}, TRUE),
     Release("sglang", {"split inherits", "_peek_matched skip", "PeekEngine hook"}, {}, TRUE),
     Release("vllm", {"_peek_hook"}, {4}, TRUE),
     Release("sglang", {"PeekEngine hook"}, {}, FALSE),
     Release("vllm", {"popleft_queue_aware"}, {}, FALSE)}

(* No property tells one process from the other.                            *)
Symmetry == Permutations(Proc)

MCRaceConfigs == {Release("sglang", {}, {}, FALSE)}
=============================================================================
