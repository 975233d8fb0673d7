------------------------------ MODULE RadixTree ------------------------------
(***************************************************************************)
(* The arena-backed radix tree of src/tree.rs, as operators on a tree      *)
(* value [nodes, free]:                                                    *)
(*   nodes   function from arena slots 0..k-1 to nodes;                    *)
(*   free    the freelist, a stack of dead slots (last element on top).    *)
(* A node is [edge, parent, children, pending_count, terminators].         *)
(* `children` maps the first token of a child's edge to the child's slot.  *)
(* Definitions marked "Mutant" are faulty variants of the definition that  *)
(* follows them; PROJECT.json says which property each one breaks.         *)
(***************************************************************************)
EXTENDS Naturals, Sequences, FiniteSets, FiniteSetsExt, Functions, SequencesExt

ROOT == 0

(* Number of leading tokens on which `edge` and `tokens` agree.            *)
MatchEdgeLen(edge, tokens) ==
    LET both == DOMAIN edge \cap DOMAIN tokens
        differ == {i \in both : edge[i] # tokens[i]}
    IN IF differ = {} THEN Cardinality(both) ELSE Min(differ) - 1

(* tokens[k..] of the source: what is left after the first k tokens.       *)
DropTokens(tokens, k) == SubSeq(tokens, k + 1, Len(tokens))

NewNode(edge, parent) ==
    [edge |-> edge, parent |-> parent, children |-> [k \in {} |-> ROOT],
     pending_count |-> 0, terminators |-> {}]

NewTree == [nodes |-> [i \in {ROOT} |-> NewNode(<<>>, ROOT)], free |-> <<>>]

(* f with the value v at x, which may be new: a store to a Vec or HashMap. *)
Put(f, x, v) == [i \in DOMAIN f \cup {x} |-> IF i = x THEN v ELSE f[i]]

(* Slot the next alloc returns: top of the freelist, else a new slot.      *)
NextId(t) == IF t.free # <<>> THEN Last(t.free) ELSE Cardinality(DOMAIN t.nodes)

Alloc(t, edge, parent) ==
    [nodes |-> Put(t.nodes, NextId(t), NewNode(edge, parent)),
     free  |-> IF t.free # <<>> THEN Front(t.free) ELSE t.free]

Free(t, id) ==
    [nodes |-> Put(t.nodes, id, NewNode(<<>>, ROOT)), free |-> Append(t.free, id)]

Reparent(nodes, moved, parent) ==
    [i \in DOMAIN nodes |-> IF i \in moved THEN [nodes[i] EXCEPT !.parent = parent]
                                           ELSE nodes[i]]

UpperHalf(n, lower, offset) ==
    [n EXCEPT !.edge = SubSeq(n.edge, 1, offset), !.terminators = {},
              !.children = [k \in {n.edge[offset + 1]} |-> lower]]

(* Mutant: the terminators stay behind on neither half.                    *)
LowerHalfNoTerminators(n, upper, offset) ==
    [n EXCEPT !.edge = DropTokens(@, offset), !.parent = upper, !.terminators = {}]

LowerHalf(n, upper, offset) ==
    [n EXCEPT !.edge = DropTokens(n.edge, offset), !.parent = upper]

(* Split `node` at `offset`: the slot keeps the upper half; a new slot gets *)
(* the lower half with the children, terminators and pending_count.        *)
SplitEdge(t, node, offset) ==
    LET n     == t.nodes[node]
        lower == NextId(t)
        a     == Alloc(t, DropTokens(n.edge, offset), node)
        moved == Reparent(a.nodes, Range(n.children), lower)
    IN [nodes |-> Put(Put(moved, node, UpperHalf(n, lower, offset)),
                      lower, LowerHalf(n, node, offset)),
        free  |-> a.free]

-----------------------------------------------------------------------------
(* One turn of the walk that descend, deepest_with_count, pending_demand   *)
(* and longest_match_along all perform.  Its state is the node it is at,   *)
(* with the tokens matched on the node's edge (`offset`) and in all        *)
(* (`consumed`).  It stops inside an edge, when `tokens` is exhausted, or  *)
(* when no child starts with the next token, and then stays.               *)
WalkTurn(t, tokens, s) ==
    LET n      == t.nodes[s.node]
        child  == n.children[tokens[s.consumed + 1]]
        common == MatchEdgeLen(t.nodes[child].edge, DropTokens(tokens, s.consumed))
    IN IF \/ s.offset < Len(n.edge)
          \/ s.consumed = Len(tokens)
          \/ tokens[s.consumed + 1] \notin DOMAIN n.children
       THEN s
       ELSE [node |-> child, offset |-> common, consumed |-> s.consumed + common]

(* The walk after each turn.  A turn consumes a token, so there are at     *)
(* most Len(tokens) of them.                                               *)
Walk(t, tokens) ==
    LET at[i \in 0..Len(tokens)] ==
          IF i = 0 THEN [node |-> ROOT, offset |-> 0, consumed |-> 0]
                   ELSE WalkTurn(t, tokens, at[i - 1])
    IN at

Descend(t, tokens) == Walk(t, tokens)[Len(tokens)]

AtNodeBoundary(t, d) == d.offset = Len(t.nodes[d.node].edge)

(* `node`, its parent, the parent's parent, and so on; ROOT is its own.    *)
Climb(t, node) ==
    LET up[i \in 0..Cardinality(DOMAIN t.nodes)] ==
          IF i = 0 THEN node ELSE t.nodes[up[i - 1]].parent
    IN up

(* The slots from `node` up to, but excluding, ROOT, by parent pointers.   *)
PathToRoot(t, node) == Range(Climb(t, node)) \ {ROOT}

(* The loops of insert and remove over the counts on the way to ROOT.      *)
BumpPath(t, node) ==
    LET path == PathToRoot(t, node)
    IN [t EXCEPT !.nodes = [i \in DOMAIN t.nodes |->
           IF i \in path THEN [t.nodes[i] EXCEPT !.pending_count = @ + 1] ELSE t.nodes[i]]]

(* saturating_sub: the count stays at zero rather than wrapping.           *)
DropPath(t, node) ==
    LET path == PathToRoot(t, node)
    IN [t EXCEPT !.nodes = [i \in DOMAIN t.nodes |->
           IF i \in path THEN [t.nodes[i] EXCEPT !.pending_count = IF @ > 0 THEN @ - 1 ELSE 0]
                         ELSE t.nodes[i]]]

(* A new child of `node` that holds the tail of a prompt.                  *)
Hang(t, node, tail) ==
    LET a == Alloc(t, tail, node)
    IN [a EXCEPT !.nodes = Put(a.nodes, node,
           [a.nodes[node] EXCEPT !.children = Put(@, Head(tail), NextId(t))])]

SetTerminators(t, node, rids) ==
    [t EXCEPT !.nodes = Put(t.nodes, node, [t.nodes[node] EXCEPT !.terminators = rids])]

(* Tree::insert.  Split when the descent stops inside an edge, hang the    *)
(* unmatched tail under the branching node, add the terminator, bump.      *)
TreeInsert(t, rid, tokens) ==
    LET d    == Descend(t, tokens)
        s    == IF AtNodeBoundary(t, d) THEN t ELSE SplitEdge(t, d.node, d.offset)
        tail == DropTokens(tokens, d.consumed)
        term == IF tail = <<>> THEN d.node ELSE NextId(s)
        g    == IF tail = <<>> THEN s ELSE Hang(s, d.node, tail)
    IN BumpPath(SetTerminators(g, term, g.nodes[term].terminators \cup {rid}), term)

(* gc of a dead leaf: unlink it from its parent and free its slot.         *)
Unlink(t, node) ==
    LET n == t.nodes[node]
        p == t.nodes[n.parent]
        q == [p EXCEPT !.children = Restrict(p.children, DOMAIN p.children \ {Head(n.edge)})]
    IN Free([t EXCEPT !.nodes = Put(t.nodes, n.parent, q)], node)

(* gc of a pass-through node: it takes over its only child's edge,         *)
(* children and terminators (and keeps its own count), the child is freed. *)
MergeOnlyChild(t, node) ==
    LET n     == t.nodes[node]
        child == CHOOSE c \in Range(n.children) : TRUE
        m     == t.nodes[child]
        moved == Reparent(t.nodes, Range(m.children), node)
        whole == [n EXCEPT !.edge = n.edge \o m.edge, !.children = m.children,
                           !.terminators = m.terminators]
    IN Free([t EXCEPT !.nodes = Put(moved, node, whole)], child)

(* Mutant: gc stops after the dead leaf, its parent is not looked at.      *)
GcStepLeafOnly(s) ==
    LET n == s.tree.nodes[s.node]
    IN IF s.node = ROOT \/ n.terminators # {} \/ DOMAIN n.children # {} THEN s
       ELSE [tree |-> Unlink(s.tree, s.node), node |-> ROOT]

(* One turn of the loop of Tree::gc, which ends at ROOT.  Only a dead leaf *)
(* lets the loop climb further.                                            *)
GcStep(s) ==
    LET n    == s.tree.nodes[s.node]
        kids == Cardinality(DOMAIN n.children)
    IN IF s.node = ROOT \/ n.terminators # {} \/ kids > 1 THEN [s EXCEPT !.node = ROOT]
       ELSE IF kids = 0 THEN [tree |-> Unlink(s.tree, s.node), node |-> n.parent]
       ELSE [tree |-> MergeOnlyChild(s.tree, s.node), node |-> ROOT]

(* Tree::gc: the loop climbs the parent chain of `node`, short of ROOT.    *)
Gc(t, node) ==
    LET turns == Cardinality(DOMAIN t.nodes)
        after[i \in 0..turns] ==
          IF i = 0 THEN [tree |-> t, node |-> node] ELSE GcStep(after[i - 1])
    IN after[turns].tree

(* Does `rid` terminate exactly at the node the tokens lead to?  (The      *)
(* checks by which Tree::remove and cluster_info return early.)            *)
TerminatesAt(t, rid, tokens) ==
    LET d == Descend(t, tokens)
    IN /\ d.consumed = Len(tokens)
       /\ AtNodeBoundary(t, d)
       /\ rid \in t.nodes[d.node].terminators

TreeRemove(t, rid, tokens) ==
    LET term == Descend(t, tokens).node
        left == t.nodes[term].terminators \ {rid}
    IN IF TerminatesAt(t, rid, tokens)
       THEN Gc(DropPath(SetTerminators(t, term, left), term), term)
       ELSE t
-----------------------------------------------------------------------------
(* Queries.                                                                *)

(* Tree::len: allocated slots minus freelist entries.                      *)
LiveNodes(t) == Cardinality(DOMAIN t.nodes) - Len(t.free)

(* Identity of the position reached by `tokens`, the claim key of          *)
(* lpm_order.                                                              *)
PrefixPosition(t, tokens) ==
    LET d == Descend(t, tokens) IN <<d.node, d.offset>>

(* Mutant: counts are read at node boundaries only, so a match that ends   *)
(* inside an edge is rounded down.                                         *)
DeepestAtBoundary(t, tokens, threshold) ==
    LET w    == Walk(t, tokens)
        hits == {i \in 1..Len(tokens) : /\ w[i].node # ROOT /\ AtNodeBoundary(t, w[i])
                                        /\ t.nodes[w[i].node].pending_count >= threshold}
    IN IF hits = {} THEN 0 ELSE w[Max(hits)].consumed

(* The last node entered whose count reaches the threshold; tokens matched *)
(* inside its edge count.                                                  *)
DeepestWithCount(t, tokens, threshold) ==
    LET w    == Walk(t, tokens)
        hits == {i \in 1..Len(tokens) : /\ w[i].node # ROOT
                                        /\ t.nodes[w[i].node].pending_count >= threshold}
    IN IF hits = {} THEN 0 ELSE w[Max(hits)].consumed

RootCounts(t) ==
    [k \in DOMAIN t.nodes[ROOT].children |->
        t.nodes[t.nodes[ROOT].children[k]].pending_count]

HasSharing(t) == \E k \in DOMAIN RootCounts(t) : RootCounts(t)[k] >= 2

SharedRidCount(t) ==
    LET c == RootCounts(t) IN SumFunctionOnSet(c, {k \in DOMAIN c : c[k] >= 2})

SingletonRidCount(t) ==
    LET c == RootCounts(t)
    IN Cardinality(t.nodes[ROOT].terminators)
         + SumFunctionOnSet(c, {k \in DOMAIN c : c[k] < 2})

TerminatorsAt(t, path) ==
    LET d == Descend(t, path)
    IN IF d.consumed = Len(path) /\ AtNodeBoundary(t, d)
       THEN Cardinality(t.nodes[d.node].terminators) ELSE 0

PendingDemand(t, path) ==
    LET d == Descend(t, path)
    IN IF d.consumed = Len(path) THEN t.nodes[d.node].pending_count ELSE 0

(* The slots a traversal from `node` visits when it goes on to the         *)
(* children of the slots in `open`.                                        *)
Visited(t, node, open) ==
    LET visit[n \in DOMAIN t.nodes] ==
          {n} \cup IF n \in open THEN UNION {visit[c] : c \in Range(t.nodes[n].children)}
                                 ELSE {}
    IN visit[node]

(* The rids sample_terminator_in_subtree may return for `node`: the first  *)
(* terminator found is taken, and hash order decides which way is tried    *)
(* first, so any terminator above which there is none.                     *)
Samples(t, node) ==
    LET open == {n \in DOMAIN t.nodes : t.nodes[n].terminators = {}}
    IN UNION {t.nodes[n].terminators : n \in Visited(t, node, open)}

(* longest_match_along: the matched depth and the rids it may answer with. *)
LongestMatchAlong(t, tokens) ==
    LET d == Descend(t, tokens)
    IN [depth |-> d.consumed, rids |-> IF d.consumed = 0 THEN {} ELSE Samples(t, d.node)]

(* The loop of cluster_info climbing from the terminator: the first node   *)
(* with two pending requests and its depth, or NoCluster at ROOT.          *)
NoCluster == <<>>

ClusterInfo(t, rid, tokens) ==
    LET up    == Climb(t, Descend(t, tokens).node)
        hits  == {i \in DOMAIN up : up[i] # ROOT /\ t.nodes[up[i]].pending_count >= 2}
        first == Min(hits)
        above == [i \in 0..(first - 1) |-> Len(t.nodes[up[i]].edge)]
    IN IF ~TerminatesAt(t, rid, tokens) \/ hits = {} THEN NoCluster
       ELSE <<up[first], Len(tokens) - SumFunctionOnSet(above, DOMAIN above),
              t.nodes[up[first]].pending_count>>
=============================================================================
