---------------------------- MODULE MCWaitingQueue ----------------------------
(* Instances of WaitingQueue for TLC.                                      *)
EXTENDS WaitingQueue

(* Three requests of a dense cluster, two of which also share a deeper     *)
(* prefix, and a short one that shares nothing.                            *)
MCPrompt == <<<<1, 1, 1>>, <<1, 1, 2>>, <<1, 1, 2, 1>>, <<2>>>>

(* The default, and values either side of it that dynamic_lane may reach.  *)
DefaultShare == {[big |-> 7, of |-> 10]}
MCShares == DefaultShare \cup {[big |-> 1, of |-> 2], [big |-> 9, of |-> 10]}
=============================================================================
