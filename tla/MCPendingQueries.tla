--------------------------- MODULE MCPendingQueries ---------------------------
(* An instance of PendingQueries, and so of PendingTree, for TLC.          *)
EXTENDS PendingQueries

(* Prompts that nest, branch at depths 0 and 2, and split an edge that     *)
(* already has children; the empty prompt.                                 *)
MCPrompts == {<<>>, <<1>>, <<1, 2, 1>>, <<1, 2, 2>>, <<2, 1>>}

(* Batches of two, the same rid twice included.                            *)
MCBatches ==
    {b \in [1..2 -> [rid : Rid, tokens : {<<1>>, <<1, 2, 1>>}]] : b[1].tokens # b[2].tokens}

(* A cold cache, one that ends inside edges, one that branches, a hot one. *)
MCCaches == {{}, {<<1, 2>>}, {<<1, 2, 2>>, <<2>>}, MCPrompts}

RidSymmetry == Permutations(Rid)
=============================================================================
