------------------------------ MODULE MCVllmHook ------------------------------
(* An instance of VllmHook for TLC.                                        *)
EXTENDS VllmHook, TLC

CONSTANTS r1, r2, r3

(* Three token sequences: the second extends the first by a block, the     *)
(* third diverges after the first block.                                   *)
MCContent == {"short", "long", "other"}
MCHash == {"a", "b", "c"}
MCBlockHashes == [c \in MCContent |->
    CASE c = "short" -> <<"a">> [] c = "long" -> <<"a", "b">> [] c = "other" -> <<"a", "c">>]

RidSymmetry == Permutations({r1, r2, r3})
=============================================================================
