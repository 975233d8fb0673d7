----------------------------- MODULE PendingTree -----------------------------
(***************************************************************************)
(* The pending-request manager of src/pending.rs: the radix tree of        *)
(* RadixTree together with the map rid -> tokens, driven by the calls of   *)
(* the Python class.  Every call runs under the exclusive borrow of the    *)
(* object, so a call is one step.                                          *)
(***************************************************************************)
EXTENDS RadixTree

CONSTANTS
    Rid,        \* request ids
    Prompts,    \* token sequences a request may carry
    Batches     \* sequences of [rid, tokens] items passed to insert_many

(* Tokens are u32, and every list a caller passes is finite.               *)
ASSUME PendingAssumption ==
    /\ IsFiniteSet(Rid)
    /\ Prompts \subseteq Seq(Nat)
    /\ Batches \subseteq Seq([rid : Rid, tokens : Prompts])

VARIABLES
    tree,       \* the radix tree, [nodes, free]
    paths,      \* rid -> tokens, a function whose domain is the pending rids
    ret         \* answer of the last call: [err, n]

vars == <<tree, paths, ret>>

Ok(n)    == [err |-> "none", n |-> n]
Raise(e) == [err |-> e, n |-> 0]

(* PendingTree::insert and ::remove on a value [tree, paths, n], where n   *)
(* counts the calls that returned true.                                    *)
InnerInsert(s, item) ==
    IF item.rid \in DOMAIN s.paths THEN s
    ELSE [tree  |-> TreeInsert(s.tree, item.rid, item.tokens),
          paths |-> Put(s.paths, item.rid, item.tokens),
          n     |-> s.n + 1]

InnerRemove(s, rid) ==
    IF rid \notin DOMAIN s.paths THEN s
    ELSE [tree  |-> TreeRemove(s.tree, rid, s.paths[rid]),
          paths |-> Restrict(s.paths, DOMAIN s.paths \ {rid}),
          n     |-> s.n + 1]

Inner == [tree |-> tree, paths |-> paths, n |-> 0]

Become(s) == tree' = s.tree /\ paths' = s.paths

Init ==
    /\ tree = NewTree
    /\ paths = [r \in {} |-> <<>>]
    /\ ret = Ok(0)

PyInsert(rid, tokens) ==
    LET s == InnerInsert(Inner, [rid |-> rid, tokens |-> tokens])
    IN /\ Become(s)
       /\ ret' = IF s.n = 1 THEN Ok(1) ELSE Raise("ValueError")

PyRemove(rid) ==
    LET s == InnerRemove(Inner, rid)
    IN /\ Become(s)
       /\ ret' = IF s.n = 1 THEN Ok(1) ELSE Raise("KeyError")

PyDiscard(rid) ==
    LET s == InnerRemove(Inner, rid) IN Become(s) /\ ret' = Ok(s.n)

(* The pre-flight of insert_many: a rid already present, or twice in the   *)
(* batch, rejects the batch before anything is inserted.                   *)
RejectBatch(items) ==
    \/ \E i \in DOMAIN items : items[i].rid \in DOMAIN paths
    \/ \E i, j \in DOMAIN items : i # j /\ items[i].rid = items[j].rid

PyInsertMany(items) ==
    IF RejectBatch(items)
    THEN ret' = Raise("ValueError") /\ UNCHANGED <<tree, paths>>
    ELSE LET done[i \in 0..Len(items)] ==
               IF i = 0 THEN Inner ELSE InnerInsert(done[i - 1], items[i])
         IN Become(done[Len(items)]) /\ ret' = Ok(Len(items))

(* The rids of one remove_many call, in some order.                        *)
PyRemoveMany(rids) ==
    \E order \in SetToSeqs(rids) :
       LET done[i \in 0..Len(order)] ==
             IF i = 0 THEN Inner ELSE InnerRemove(done[i - 1], order[i])
       IN Become(done[Len(order)]) /\ ret' = Ok(done[Len(order)].n)

Next ==
    \/ \E rid \in Rid, tokens \in Prompts : PyInsert(rid, tokens)
    \/ \E rid \in Rid : PyRemove(rid)
    \/ \E rid \in Rid : PyDiscard(rid)
    \/ \E items \in Batches : PyInsertMany(items)
    \/ \E rids \in SUBSET Rid : PyRemoveMany(rids)

Spec == Init /\ [][Next]_vars

-----------------------------------------------------------------------------
(* Reference notions: what the tree says, read off its links, and what the *)
(* map says.                                                               *)

(* Slots reachable from ROOT through child links.                          *)
Reachable == Visited(tree, ROOT, DOMAIN tree.nodes)

(* Tokens on the way from ROOT to a node.                                  *)
NodePath(n) ==
    LET down[m \in DOMAIN tree.nodes] ==
          IF m = ROOT THEN <<>> ELSE down[tree.nodes[m].parent] \o tree.nodes[m].edge
    IN down[n]

(* The pending rids whose tokens begin with p, and those that equal p.     *)
StartingWith(p) == {r \in DOMAIN paths : IsPrefix(p, paths[r])}
EndingAt(p)     == {r \in DOMAIN paths : paths[r] = p}

(* The map read off the tree alone: every terminator with its node's path. *)
PathsInTree ==
    LET ends == {n \in Reachable : tree.nodes[n].terminators # {}}
    IN [r \in UNION {tree.nodes[n].terminators : n \in ends} |->
          NodePath(CHOOSE n \in ends : r \in tree.nodes[n].terminators)]

-----------------------------------------------------------------------------
(* Every variable has its type.                                            *)
TypeOK ==
    /\ DOMAIN tree.nodes = 0..(Cardinality(DOMAIN tree.nodes) - 1)
    /\ \A i \in DOMAIN tree.nodes :
          /\ tree.nodes[i].parent \in DOMAIN tree.nodes
          /\ tree.nodes[i].pending_count \in Nat
          /\ tree.nodes[i].terminators \subseteq Rid
    /\ ToSet(tree.free) \subseteq DOMAIN tree.nodes \ {ROOT}
    /\ DOMAIN paths \subseteq Rid /\ Range(paths) \subseteq Prompts
    /\ ret \in [err : {"none", "ValueError", "KeyError"}, n : Nat]

(* Every slot of the arena is either reachable from ROOT or on the         *)
(* freelist exactly once: splitting, unlinking and merging neither leak a  *)
(* slot nor leave a link to a freed one (tree.rs alloc/free/gc), so len()  *)
(* is the number of reachable nodes and an empty index has only ROOT.      *)
ArenaExact ==
    /\ Reachable \cap ToSet(tree.free) = {}
    /\ Reachable \cup ToSet(tree.free) = DOMAIN tree.nodes
    /\ IsInjective(tree.free)
    /\ LiveNodes(tree) = Cardinality(Reachable)
    /\ DOMAIN paths = {} => LiveNodes(tree) = 1

(* pending_count of a node is the number of pending requests whose tokens  *)
(* begin with the node's path, and its terminators are those that end      *)
(* there (the header comment of tree.rs), after any history of splits and  *)
(* merges.                                                                 *)
CountsExact ==
    \A n \in Reachable :
       /\ tree.nodes[n].terminators = EndingAt(NodePath(n))
       /\ n # ROOT =>
            tree.nodes[n].pending_count = Cardinality(StartingWith(NodePath(n)))

(* Radix compression: every node but ROOT ends a request or branches, and  *)
(* its edge is not empty.  deepest_with_count and prefix_position rely on  *)
(* it ("no branches exist mid-edge").                                      *)
Compressed ==
    \A n \in Reachable \ {ROOT} :
       /\ tree.nodes[n].edge # <<>>
       /\ tree.nodes[n].terminators # {} \/ Cardinality(DOMAIN tree.nodes[n].children) >= 2

(* The radix tree is in order, its arena, counts and shape.                *)
WellFormed == TypeOK /\ ArenaExact /\ CountsExact /\ Compressed

(* The tree, its links read from ROOT, implements the map of PendingMap:   *)
(* no call loses, invents or moves a request, and every call answers what  *)
(* the map would.                                                          *)
Map == INSTANCE PendingMap WITH pending <- PathsInTree
ImplementsMap == Map!Spec
=============================================================================
