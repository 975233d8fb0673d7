----------------------------- MODULE MCSglangHook -----------------------------
(* An instance of SglangHook for TLC.                                      *)
EXTENDS SglangHook, TLC

CONSTANTS r1, r2, r3

(* Token sequences only matter as equal or different to _sync.             *)
MCContent == {"prompt", "longer"}

RidSymmetry == Permutations({r1, r2, r3})
=============================================================================
