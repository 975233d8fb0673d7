------------------------- MODULE PendingTreeProofs -------------------------
(***************************************************************************)
(* The pending tree (RadixTree, PendingTree, PendingQueries), for any      *)
(* finite set of request ids, any prompts and any history of the five      *)
(* updates: the arena stays a compressed radix tree with exact counts, the *)
(* Python class is the map PendingMap says it is, and every question put   *)
(* to the tree is answered by what it means over that map.                 *)
(*                                                                         *)
(* The invariant names what the code never stores: the set L of live slots *)
(* and the path P[n] of each of them.  Under it a split, a hang, an unlink *)
(* and a merge change few links and few paths, and everything else is      *)
(* known to stay.  Walk, climb and gc are recursive functions: what they   *)
(* return is shown turn by turn, by looking at the first turn that would   *)
(* break the claim; recursion towards the children is handled the same     *)
(* way, at a node of the longest path.                                     *)
(***************************************************************************)
EXTENDS PendingQueries, OrderingProofs

-----------------------------------------------------------------------------
(* The links of a tree, and the path of every slot.                        *)

(* p is the beginning of q, read token by token.                           *)
Pre(p, q) == Len(p) <= Len(q) /\ \A i \in 1..Len(p) : p[i] = q[i]

(* q is p followed by e.                                                   *)
Joined(q, p, e) ==
    /\ Len(q) = Len(p) + Len(e)
    /\ \A i \in 1..Len(p) : q[i] = p[i]
    /\ \A i \in 1..Len(e) : q[Len(p) + i] = e[i]

(* A slot hangs under its parent: its path continues the parent's by its   *)
(* edge, and the parent has it as the child under the edge's first token.  *)
UpLink(N, L, P, n) ==
    /\ N[n].parent \in L /\ N[n].edge \in Seq(Nat) /\ N[n].edge # <<>>
    /\ Joined(P[n], P[N[n].parent], N[n].edge)
    /\ N[n].edge[1] \in DOMAIN N[N[n].parent].children
    /\ N[N[n].parent].children[N[n].edge[1]] = n

(* Every child link of a slot is answered by the child's parent link.      *)
DownLinks(N, L, n) ==
    \A k \in DOMAIN N[n].children :
       /\ N[n].children[k] \in L \ {ROOT}
       /\ N[N[n].children[k]].parent = n
       /\ N[N[n].children[k]].edge[1] = k

(* The links of the live slots L form a tree in which P[n] is the path of  *)
(* the slot n, the tokens on the way from ROOT.                            *)
Links(N, L, P) ==
    /\ ROOT \in L /\ L \subseteq DOMAIN N /\ P \in [L -> Seq(Nat)]
    /\ P[ROOT] = <<>> /\ N[ROOT].edge = <<>> /\ N[ROOT].parent = ROOT
    /\ \A n \in L \ {ROOT} : UpLink(N, L, P, n)
    /\ \A n \in L : DownLinks(N, L, n)

(* The facts about one slot that the arguments on paths use.               *)
LEMMA UpFacts ==
    ASSUME NEW N, NEW L, NEW P, Links(N, L, P), NEW n \in L, n # ROOT
    PROVE  /\ N[n].parent \in L
           /\ P[n] \in Seq(Nat) /\ P[N[n].parent] \in Seq(Nat)
           /\ Len(P[N[n].parent]) < Len(P[n])
           /\ Pre(P[N[n].parent], P[n])
           /\ P[n][Len(P[N[n].parent]) + 1] = N[n].edge[1]
           /\ N[N[n].parent].children[N[n].edge[1]] = n
<1>1. PICK u, e : u = N[n].parent /\ e = N[n].edge
  OBVIOUS
<1>2. /\ u \in L /\ e \in Seq(Nat) /\ e # <<>> /\ Joined(P[n], P[u], e)
      /\ N[u].children[e[1]] = n /\ P[n] \in Seq(Nat) /\ P[u] \in Seq(Nat)
  BY <1>1 DEF Links, UpLink
<1>3. Len(e) \in Nat /\ Len(e) > 0 /\ 1 \in 1..Len(e) /\ Len(P[n]) \in Nat /\ Len(P[u]) \in Nat
  BY <1>2
<1>4. Len(P[u]) < Len(P[n]) /\ Pre(P[u], P[n]) /\ P[n][Len(P[u]) + 1] = e[1]
  <2>1. /\ Len(P[n]) = Len(P[u]) + Len(e) /\ \A i \in 1..Len(P[u]) : P[n][i] = P[u][i]
        /\ P[n][Len(P[u]) + 1] = e[1]
    BY <1>2, <1>3, Zenon DEF Joined
  <2>2. Len(P[u]) < Len(P[n]) /\ Len(P[u]) <= Len(P[n])
    BY <1>3, <2>1
  <2> QED
    BY <2>1, <2>2 DEF Pre
<1> QED
  BY <1>1, <1>2, <1>4

(* The path of a slot is a sequence; only ROOT has the empty path.         *)
LEMMA PathFacts ==
    ASSUME NEW N, NEW L, NEW P, Links(N, L, P), NEW n \in L
    PROVE  P[n] \in Seq(Nat) /\ Len(P[n]) \in Nat /\ (n # ROOT => Len(P[n]) > 0)
<1>1. P[n] \in Seq(Nat) /\ Len(P[n]) \in Nat
  BY DEF Links
<1>2. ASSUME n # ROOT PROVE Len(P[n]) > 0
  <2>1. P[N[n].parent] \in Seq(Nat) /\ Len(P[N[n].parent]) < Len(P[n])
    BY <1>2, UpFacts
  <2> QED
    BY <1>1, <2>1
<1> QED
  BY <1>1, <1>2

(* Two sequences, each the beginning of the other, are equal.              *)
LEMMA PreBoth ==
    ASSUME NEW p \in Seq(Nat), NEW q \in Seq(Nat), Pre(p, q), Len(q) <= Len(p)
    PROVE  p = q
BY DEF Pre

(* The meeting point of two paths: whenever P[m] agrees with P[n] one      *)
(* token past the parent of n, the whole of P[n] is on the way to m.       *)
MeetsAt(N, P, n, m) ==
    /\ n # ROOT
    /\ Len(P[N[n].parent]) < Len(P[m])
    /\ \A i \in 1..(Len(P[N[n].parent]) + 1) : P[m][i] = P[n][i]

(* What the induction on the length of P[m] carries.                       *)
Settled(N, L, P, m) ==
    \A n \in L : /\ MeetsAt(N, P, n, m) => Pre(P[n], P[m])
                 /\ P[n] = P[m] => n = m

(* By induction on the length of P[m]: a slot whose path shares one token  *)
(* past its parent with P[m] lies on the way to m, and no two slots have   *)
(* the same path.                                                          *)
LEMMA AllSettled ==
    ASSUME NEW N, NEW L, NEW P, Links(N, L, P)
    PROVE  \A m \in L : Settled(N, L, P, m)
<1> DEFINE B == {l \in Nat : \E m \in L : l = Len(P[m]) /\ ~Settled(N, L, P, m)}
<1> SUFFICES ASSUME B # {} PROVE FALSE
  <2>1. B = {} => \A m \in L : Len(P[m]) \in Nat => Settled(N, L, P, m)
    OBVIOUS
  <2> QED
    BY <2>1, PathFacts
<1>1. PICK l \in B : \A k \in B : l <= k
  BY LeastNat
<1>2. PICK m \in L : l = Len(P[m]) /\ ~Settled(N, L, P, m)
  BY <1>1
<1>3. ASSUME NEW x \in L, Len(P[x]) < l PROVE Settled(N, L, P, x)
  <2>1. Len(P[x]) \in Nat /\ Len(P[x]) \notin B
    BY <1>1, <1>3, PathFacts
  <2> QED
    BY <2>1
<1> HIDE DEF B
<1>4. PICK n \in L : ~((MeetsAt(N, P, n, m) => Pre(P[n], P[m])) /\ (P[n] = P[m] => n = m))
  BY <1>2 DEF Settled
<1>5. m # ROOT /\ n # ROOT
  <2>1. Len(P[ROOT]) = 0 /\ Len(P[m]) \in Nat /\ Len(P[n]) \in Nat
    BY PathFacts DEF Links
  <2>2. m # ROOT \/ n # ROOT
    BY <1>4 DEF MeetsAt
  <2>3. n # ROOT => Len(P[N[n].parent]) \in Nat
    BY UpFacts
  <2>4. CASE P[n] = P[m]
    BY <2>1, <2>2, <2>4, PathFacts
  <2>5. CASE MeetsAt(N, P, n, m)
    BY <2>1, <2>3, <2>5 DEF MeetsAt
  <2> QED
    BY <1>4, <2>4, <2>5
<1>6. PICK u, w : u = N[n].parent /\ w = N[m].parent
  OBVIOUS
<1>7. /\ u \in L /\ Len(P[u]) < Len(P[n]) /\ Pre(P[u], P[n])
      /\ P[n][Len(P[u]) + 1] = N[n].edge[1] /\ N[u].children[N[n].edge[1]] = n
  BY <1>5, <1>6, UpFacts
<1>8. /\ w \in L /\ Len(P[w]) < Len(P[m]) /\ Pre(P[w], P[m])
      /\ P[m][Len(P[w]) + 1] = N[m].edge[1] /\ N[w].children[N[m].edge[1]] = m
  BY <1>5, <1>6, UpFacts
<1>9. /\ P[u] \in Seq(Nat) /\ P[w] \in Seq(Nat) /\ P[n] \in Seq(Nat) /\ P[m] \in Seq(Nat)
      /\ Len(P[u]) \in Nat /\ Len(P[w]) \in Nat /\ Len(P[n]) \in Nat /\ Len(P[m]) \in Nat
  BY <1>7, <1>8, PathFacts
<1>10. ASSUME Len(P[u]) < Len(P[m]), \A i \in 1..(Len(P[u]) + 1) : P[m][i] = P[n][i],
              Len(P[w]) = Len(P[u])
       PROVE  m = n
  <2>1. P[w] = P[u]
    <3>1. Pre(P[w], P[u])
      BY <1>7, <1>8, <1>9, <1>10 DEF Pre
    <3> QED
      BY <1>9, <1>10, <3>1, PreBoth
  <2>2. w = u
    BY <1>2, <1>3, <1>7, <1>8, <2>1 DEF Settled
  <2>3. N[m].edge[1] = N[n].edge[1]
    <3>1. Len(P[u]) + 1 \in 1..(Len(P[u]) + 1)
      BY <1>9
    <3>2. P[m][Len(P[u]) + 1] = P[n][Len(P[u]) + 1]
      BY <1>10, <3>1
    <3> QED
      BY <1>7, <1>8, <1>10, <3>2
  <2> QED
    BY <1>7, <1>8, <2>2, <2>3
<1>11. CASE MeetsAt(N, P, n, m) /\ ~Pre(P[n], P[m])
  <2>1. Len(P[u]) < Len(P[m]) /\ \A i \in 1..(Len(P[u]) + 1) : P[m][i] = P[n][i]
    BY <1>6, <1>11 DEF MeetsAt
  <2>2. CASE Len(P[w]) > Len(P[u])
    <3>1. MeetsAt(N, P, n, w)
      BY <1>5, <1>6, <1>8, <1>9, <2>1, <2>2 DEF MeetsAt, Pre
    <3>2. Pre(P[n], P[w])
      BY <1>2, <1>3, <1>8, <3>1 DEF Settled
    <3> QED
      BY <1>8, <1>9, <1>11, <3>2 DEF Pre
  <2>3. CASE Len(P[w]) = Len(P[u])
    <3>1. m = n
      BY <1>10, <2>1, <2>3
    <3> QED
      BY <1>9, <1>11, <3>1 DEF Pre
  <2>4. CASE Len(P[w]) < Len(P[u])
    <3>1. MeetsAt(N, P, m, u)
      <4>1. \A i \in 1..(Len(P[w]) + 1) : i \in 1..Len(P[u]) /\ i \in 1..(Len(P[u]) + 1)
        BY <1>9, <2>4
      <4>2. \A i \in 1..(Len(P[w]) + 1) : P[u][i] = P[m][i]
        BY <1>7, <2>1, <4>1 DEF Pre
      <4> QED
        BY <1>5, <1>6, <2>4, <4>2 DEF MeetsAt
    <3>2. Pre(P[m], P[u])
      BY <1>2, <1>3, <1>7, <2>1, <3>1 DEF Settled
    <3> QED
      BY <1>9, <2>1, <3>2 DEF Pre
  <2> QED
    BY <1>9, <2>2, <2>3, <2>4
<1>12. CASE P[n] = P[m] /\ n # m
  <2>1. CASE Len(P[w]) = Len(P[u])
    BY <1>7, <1>9, <1>10, <1>12, <2>1
  <2>2. CASE Len(P[u]) < Len(P[w])
    <3>1. MeetsAt(N, P, n, w)
      BY <1>5, <1>6, <1>8, <1>9, <1>12, <2>2 DEF MeetsAt, Pre
    <3>2. Pre(P[n], P[w])
      BY <1>2, <1>3, <1>8, <3>1 DEF Settled
    <3> QED
      BY <1>8, <1>9, <1>12, <3>2 DEF Pre
  <2>3. CASE Len(P[w]) < Len(P[u])
    <3>1. MeetsAt(N, P, m, u)
      <4>1. \A i \in 1..(Len(P[w]) + 1) : i \in 1..Len(P[u])
        BY <1>9, <2>3
      <4>2. \A i \in 1..(Len(P[w]) + 1) : P[u][i] = P[m][i]
        BY <1>7, <1>12, <4>1 DEF Pre
      <4> QED
        BY <1>5, <1>6, <2>3, <4>2 DEF MeetsAt
    <3>2. Len(P[u]) < l
      BY <1>2, <1>7, <1>12
    <3>3. Pre(P[m], P[u])
      BY <1>2, <1>3, <1>7, <3>1, <3>2 DEF Settled
    <3> QED
      BY <1>7, <1>9, <1>12, <3>3 DEF Pre
  <2> QED
    BY <1>9, <2>1, <2>2, <2>3
<1> QED
  BY <1>4, <1>11, <1>12

(* Branches leave a path only at slots: what agrees with P[n] one token    *)
(* past n's parent agrees with all of it.                                  *)
LEMMA Branches ==
    ASSUME NEW N, NEW L, NEW P, Links(N, L, P), NEW n \in L, NEW m \in L, MeetsAt(N, P, n, m)
    PROVE  Pre(P[n], P[m])
BY AllSettled DEF Settled

(* A path belongs to one slot.                                             *)
LEMMA OneSlot ==
    ASSUME NEW N, NEW L, NEW P, Links(N, L, P), NEW n \in L, NEW m \in L, P[n] = P[m]
    PROVE  n = m
BY AllSettled DEF Settled

(* The slot whose path is a proper beginning of P[n] is above n's parent.  *)
LEMMA AboveParent ==
    ASSUME NEW N, NEW L, NEW P, Links(N, L, P), NEW n \in L, NEW m \in L,
           Pre(P[m], P[n]), m # n
    PROVE  n # ROOT /\ Pre(P[m], P[N[n].parent])
<1>1. Len(P[n]) \in Nat /\ Len(P[m]) \in Nat /\ P[n] \in Seq(Nat) /\ P[m] \in Seq(Nat)
  BY PathFacts
<1>2. n # ROOT
  <2>1. n = ROOT => Len(P[n]) = 0
    BY DEF Links
  <2> QED
    BY <1>1, <2>1, PathFacts DEF Pre
<1>3. PICK u : u = N[n].parent
  OBVIOUS
<1>4. u \in L /\ Len(P[u]) < Len(P[n]) /\ Pre(P[u], P[n]) /\ P[u] \in Seq(Nat)
  BY <1>2, <1>3, UpFacts
<1>5. Len(P[u]) \in Nat
  BY <1>4
<1>6. Len(P[m]) <= Len(P[u])
  <2> SUFFICES ASSUME Len(P[u]) < Len(P[m]) PROVE FALSE
    BY <1>1, <1>5
  <2>1. MeetsAt(N, P, n, m)
    BY <1>1, <1>2, <1>3, <1>4, <1>5 DEF MeetsAt, Pre
  <2>2. Pre(P[n], P[m])
    BY <2>1, Branches
  <2>3. P[n] = P[m]
    BY <1>1, <2>2, PreBoth DEF Pre
  <2> QED
    BY <2>3, OneSlot
<1> QED
  BY <1>1, <1>2, <1>3, <1>4, <1>5, <1>6 DEF Pre

(* From a slot to one below it there is a child on the way.                *)
LEMMA ChildOnWay ==
    ASSUME NEW N, NEW L, NEW P, Links(N, L, P), NEW n \in L, NEW m \in L,
           Pre(P[n], P[m]), n # m
    PROVE  \E c \in L \ {ROOT} : N[c].parent = n /\ Pre(P[c], P[m])
<1> DEFINE On(x) == x # n /\ Pre(P[n], P[x]) /\ Pre(P[x], P[m])
           B == {l \in Nat : \E x \in L : l = Len(P[x]) /\ On(x)}
<1>1. Len(P[m]) \in B
  <2>1. Len(P[m]) \in Nat
    BY PathFacts
  <2>2. Pre(P[m], P[m])
    BY <2>1 DEF Pre
  <2> QED
    BY <2>1, <2>2
<1>2. PICK l \in B : \A k \in B : l <= k
  BY <1>1, LeastNat
<1>3. PICK c \in L : l = Len(P[c]) /\ On(c)
  BY <1>2
<1>4. c # ROOT /\ Pre(P[n], P[N[c].parent])
  BY <1>3, AboveParent
<1>5. PICK u : u = N[c].parent
  OBVIOUS
<1>6. u \in L /\ Len(P[u]) < Len(P[c]) /\ Pre(P[u], P[c])
  BY <1>4, <1>5, UpFacts
<1>7. Len(P[u]) \in Nat /\ Len(P[c]) \in Nat /\ Len(P[m]) \in Nat
  BY <1>3, <1>6, PathFacts
<1>8. Pre(P[u], P[m])
  BY <1>3, <1>6, <1>7 DEF Pre
<1>9. u = n
  <2> SUFFICES ASSUME u # n PROVE FALSE
    OBVIOUS
  <2>1. On(u)
    BY <1>4, <1>5, <1>8
  <2>2. Len(P[u]) \in B
    BY <1>6, <1>7, <2>1
  <2> HIDE DEF B
  <2> QED
    BY <1>2, <1>3, <1>6, <1>7, <2>2
<1> QED
  BY <1>3, <1>4, <1>5, <1>9

-----------------------------------------------------------------------------
(* Walks and climbs as loops: functions defined turn by turn.              *)

ParentIn(nodes, s) == nodes[s].parent

(* One turn of each loop of the model; i is the turn's number and x what   *)
(* the loop does not change.                                               *)
Turn(kind, x, i, s) ==
    IF kind = "walk" THEN WalkTurn(x[1], x[2], s)
    ELSE IF kind = "climb" THEN ParentIn(x, s)
    ELSE IF kind = "gc" THEN GcStep(s)
    ELSE IF kind = "insert" THEN InnerInsert(s, x[i])
    ELSE InnerRemove(s, x[i])

IsLoop(f, kind, x, init, n) ==
    f = [i \in 0..n |-> IF i = 0 THEN init ELSE Turn(kind, x, i, f[i - 1])]

Loop(kind, x, init, n) == CHOOSE f : IsLoop(f, kind, x, init, n)

(* The recursion of every loop defines a function.                         *)
LEMMA LoopDefined ==
    ASSUME NEW kind, NEW x, NEW init, NEW n \in Nat
    PROVE  \E f : IsLoop(f, kind, x, init, n)
<1> DEFINE Good(m) == \E f : f = [i \in 0..m |-> IF i = 0 THEN init ELSE Turn(kind, x, i, f[i - 1])]
           B == {m \in Nat : ~Good(m)}
<1> SUFFICES ASSUME B # {} PROVE FALSE
  BY DEF IsLoop
<1>1. PICK m \in B : \A k \in B : m <= k
  BY LeastNat
<1>2. m \in Nat /\ ~Good(m)
  OBVIOUS
<1>3. m # 0
  <2>1. SUFFICES Good(0)
    BY <1>2
  <2>2. PICK f : f = [i \in 0..0 |-> init]
    OBVIOUS
  <2>3. f = [i \in 0..0 |-> IF i = 0 THEN init ELSE Turn(kind, x, i, f[i - 1])]
    BY <2>2
  <2> QED
    BY <2>3
<1>4. m - 1 \in Nat /\ m - 1 \notin B
  <2>1. m - 1 \in Nat /\ ~(m <= m - 1)
    BY <1>2, <1>3
  <2> HIDE DEF B
  <2> QED
    BY <1>1, <2>1
<1>5. Good(m - 1)
  BY <1>4
<1>6. PICK f : f = [i \in 0..(m - 1) |-> IF i = 0 THEN init ELSE Turn(kind, x, i, f[i - 1])]
  BY <1>5
<1>7. PICK g : g = [i \in 0..m |-> IF i < m THEN f[i] ELSE Turn(kind, x, i, f[i - 1])]
  OBVIOUS
<1>8. \A i \in 0..m : g[i] = IF i = 0 THEN init ELSE Turn(kind, x, i, g[i - 1])
  <2> SUFFICES ASSUME NEW i \in 0..m PROVE g[i] = IF i = 0 THEN init ELSE Turn(kind, x, i, g[i - 1])
    OBVIOUS
  <2>1. i # 0 => i - 1 \in 0..m /\ i - 1 < m
    BY <1>2
  <2>2. i # 0 => g[i - 1] = f[i - 1]
    BY <1>7, <2>1
  <2>3. CASE i < m
    <3>1. i \in 0..(m - 1)
      BY <1>2, <2>3
    <3>2. g[i] = f[i] /\ f[i] = IF i = 0 THEN init ELSE Turn(kind, x, i, f[i - 1])
      BY <1>6, <1>7, <2>3, <3>1
    <3> QED
      BY <2>2, <3>2
  <2>4. CASE ~(i < m)
    <3>1. i = m /\ i # 0
      BY <2>4, <1>2, <1>3
    <3> QED
      BY <1>7, <2>2, <2>4, <3>1
  <2> QED
    BY <2>3, <2>4
<1>9. g = [i \in 0..m |-> IF i = 0 THEN init ELSE Turn(kind, x, i, g[i - 1])]
  BY <1>7, <1>8
<1> QED
  BY <1>2, <1>9

(* The loop, turn by turn.                                                 *)
LEMMA LoopTurns ==
    ASSUME NEW kind, NEW x, NEW init, NEW n \in Nat, NEW f,
           f = Loop(kind, x, init, n)
    PROVE  /\ DOMAIN f = 0..n /\ f[0] = init
           /\ \A i \in 1..n : f[i] = Turn(kind, x, i, f[i - 1])
<1>1. IsLoop(f, kind, x, init, n)
  BY LoopDefined, Zenon DEF Loop
<1>2. DOMAIN f = 0..n /\ \A i \in 0..n : f[i] = IF i = 0 THEN init ELSE Turn(kind, x, i, f[i - 1])
  BY <1>1, Zenon DEF IsLoop
<1> QED
  BY <1>2

(* The walk over the tree starts at the root and takes one turn per        *)
(* index: the recursion that defines it has a value.                       *)
LEMMA WalkTurns ==
    ASSUME NEW t, NEW tokens \in Seq(Nat)
    PROVE  /\ DOMAIN Walk(t, tokens) = 0..Len(tokens)
           /\ Walk(t, tokens)[0] = [node |-> ROOT, offset |-> 0, consumed |-> 0]
           /\ \A i \in 1..Len(tokens) :
                 Walk(t, tokens)[i] = WalkTurn(t, tokens, Walk(t, tokens)[i - 1])
<1>1. PICK f : f = Walk(t, tokens)
  OBVIOUS
<1>2. PICK x, init : x = <<t, tokens>> /\ init = [node |-> ROOT, offset |-> 0, consumed |-> 0]
  OBVIOUS
<1>3. \A i, s : Turn("walk", x, i, s) = WalkTurn(t, tokens, s)
  <2>1. x[1] = t /\ x[2] = tokens
    BY <1>2
  <2> QED
    BY <2>1, Zenon DEF Turn
<1>4. Len(tokens) \in Nat
  OBVIOUS
<1>5. \A g : g = [i \in 0..Len(tokens) |-> IF i = 0 THEN init ELSE WalkTurn(t, tokens, g[i - 1])]
               <=> IsLoop(g, "walk", x, init, Len(tokens))
  BY <1>3, Zenon DEF IsLoop
<1>6. f = Loop("walk", x, init, Len(tokens))
  <2>1. f = CHOOSE g : g = [i \in 0..Len(tokens) |->
                              IF i = 0 THEN init ELSE WalkTurn(t, tokens, g[i - 1])]
    BY <1>1, <1>2, Zenon DEF Walk
  <2> QED
    BY <1>5, <2>1, Zenon DEF Loop
<1>7. /\ DOMAIN f = 0..Len(tokens) /\ f[0] = init
      /\ \A i \in 1..Len(tokens) : f[i] = Turn("walk", x, i, f[i - 1])
  BY <1>4, <1>6, LoopTurns
<1> QED
  BY <1>1, <1>2, <1>3, <1>7, Zenon

(* The climb over the parents starts at the given slot and takes one       *)
(* parent link per index.                                                  *)
LEMMA ClimbTurns ==
    ASSUME NEW t, NEW node, Cardinality(DOMAIN t.nodes) \in Nat
    PROVE  /\ DOMAIN Climb(t, node) = 0..Cardinality(DOMAIN t.nodes)
           /\ Climb(t, node)[0] = node
           /\ \A i \in 1..Cardinality(DOMAIN t.nodes) :
                 Climb(t, node)[i] = t.nodes[Climb(t, node)[i - 1]].parent
<1>1. PICK f : f = Climb(t, node)
  OBVIOUS
<1>2. PICK x, n : x = t.nodes /\ n = Cardinality(DOMAIN t.nodes)
  OBVIOUS
<1>3. \A i, s : Turn("climb", x, i, s) = ParentIn(x, s)
  BY Zenon DEF Turn
<1>4. \A g : g = [i \in 0..n |-> IF i = 0 THEN node ELSE ParentIn(x, g[i - 1])]
               <=> IsLoop(g, "climb", x, node, n)
  BY <1>3, Zenon DEF IsLoop
<1>5. f = Loop("climb", x, node, n)
  <2>1. f = CHOOSE g : g = [i \in 0..n |-> IF i = 0 THEN node ELSE ParentIn(x, g[i - 1])]
    BY <1>1, <1>2, Zenon DEF Climb, ParentIn
  <2> QED
    BY <1>4, <2>1, Zenon DEF Loop
<1>6. DOMAIN f = 0..n /\ f[0] = node /\ \A i \in 1..n : f[i] = Turn("climb", x, i, f[i - 1])
  BY <1>2, <1>5, LoopTurns
<1> QED
  BY <1>1, <1>2, <1>3, <1>6 DEF ParentIn

-----------------------------------------------------------------------------
(* The climb from a node to ROOT.                                          *)

(* PathToRoot finds the live slots whose path begins the slot's own.       *)
LEMMA PathToRootFacts ==
    ASSUME NEW t, NEW L, NEW P, Links(t.nodes, L, P), IsFiniteSet(DOMAIN t.nodes), NEW n \in L
    PROVE  PathToRoot(t, n) = {m \in L \ {ROOT} : Pre(P[m], P[n])}
<1>1. PICK N, k, up : N = t.nodes /\ k = Cardinality(DOMAIN t.nodes) /\ up = Climb(t, n)
  OBVIOUS
<1>2. k \in Nat /\ Links(N, L, P)
  BY <1>1, FS_CardinalityType
<1>3. DOMAIN up = 0..k /\ up[0] = n /\ \A i \in 1..k : up[i] = N[up[i - 1]].parent
  BY <1>1, <1>2, ClimbTurns
<1>4. \A i \in 0..k : up[i] \in L /\ Pre(P[up[i]], P[n])
  <2> DEFINE S == {i \in 0..k : up[i] \in L /\ Pre(P[up[i]], P[n])}
  <2>1. 0 \in S
    BY <1>2, <1>3, PathFacts DEF Pre
  <2>2. ASSUME NEW i \in 1..k, i - 1 \in S PROVE i \in S
    <3>1. PICK m : m = up[i - 1]
      OBVIOUS
    <3>2. m \in L /\ Pre(P[m], P[n]) /\ up[i] = N[m].parent
      BY <1>3, <2>2, <3>1
    <3>3. CASE m = ROOT
      BY <1>2, <2>2, <3>1, <3>2, <3>3 DEF Links
    <3>4. CASE m # ROOT
      <4>1. N[m].parent \in L /\ Pre(P[N[m].parent], P[m]) /\ P[N[m].parent] \in Seq(Nat)
        BY <1>2, <3>2, <3>4, UpFacts
      <4>2. Len(P[m]) \in Nat /\ Len(P[n]) \in Nat /\ Len(P[N[m].parent]) \in Nat
        BY <1>2, <3>2, <4>1, PathFacts
      <4>3. Pre(P[N[m].parent], P[n])
        BY <3>2, <4>1, <4>2 DEF Pre
      <4> QED
        BY <3>2, <4>1, <4>3
    <3> QED
      BY <3>3, <3>4
  <2> HIDE DEF S
  <2>3. \A i \in 0..k : i \in S
    BY <1>2, <2>1, <2>2, UpFromZero
  <2> QED
    BY <2>3 DEF S
<1>5. ASSUME NEW m \in L, Pre(P[m], P[n]) PROVE \E i \in 0..k : up[i] = m
  <2> SUFFICES ASSUME \A i \in 0..k : up[i] # m PROVE FALSE
    OBVIOUS
  <2> DEFINE S == {i \in 0..k : /\ Pre(P[m], P[up[i]])
                                /\ \A j \in 0..(i - 1) : Len(P[up[i]]) < Len(P[up[j]])}
  <2>1. 0 \in S
    BY <1>2, <1>3, <1>5
  <2>2. ASSUME NEW i \in 1..k, i - 1 \in S PROVE i \in S
    <3>1. PICK x, y : x = up[i - 1] /\ y = up[i]
      OBVIOUS
    <3>2. i - 1 \in 0..k /\ x \in L /\ y \in L /\ x # m /\ y = N[x].parent
      <4>1. i - 1 \in 0..k /\ i \in 0..k
        BY <1>2
      <4> QED
        BY <1>3, <1>4, <3>1, <4>1
    <3>3. /\ Pre(P[m], P[x])
          /\ \A j \in 0..(i - 2) : Len(P[x]) < Len(P[up[j]])
      BY <2>2, <3>1
    <3>4. x # ROOT /\ Pre(P[m], P[y])
      BY <1>2, <3>2, <3>3, AboveParent
    <3>5. Len(P[y]) < Len(P[x]) /\ Len(P[x]) \in Nat /\ Len(P[y]) \in Nat
      BY <1>2, <3>2, <3>4, UpFacts, PathFacts
    <3>6. ASSUME NEW j \in 0..(i - 1) PROVE Len(P[y]) < Len(P[up[j]])
      <4>1. j \in 0..(i - 2) \/ j = i - 1
        OBVIOUS
      <4>2. j \in 0..k /\ Len(P[up[j]]) \in Nat
        BY <1>2, <1>4, PathFacts
      <4>3. CASE j = i - 1
        BY <3>1, <3>5, <4>3
      <4>4. CASE j \in 0..(i - 2)
        <5>1. Len(P[x]) < Len(P[up[j]])
          BY <3>3, <4>4
        <5> QED
          BY <3>5, <4>2, <5>1
      <4> QED
        BY <4>1, <4>3, <4>4
    <3> QED
      BY <3>1, <3>4, <3>6
  <2> HIDE DEF S
  <2>3. \A i \in 0..k : i \in S
    BY <1>2, <2>1, <2>2, UpFromZero
  <2>4. \A i \in 0..k : Len(P[up[i]]) \in Nat
    BY <1>2, <1>4, PathFacts
  <2>5. PICK f : f = [i \in 0..k |-> up[i]]
    OBVIOUS
  <2>6. ASSUME NEW i \in 0..k, NEW j \in 0..k, j < i PROVE f[i] # f[j]
    <3>1. j \in 0..(i - 1)
      BY <2>6
    <3>2. Len(P[up[i]]) < Len(P[up[j]])
      BY <2>3, <3>1 DEF S
    <3> QED
      BY <2>4, <2>5, <3>2
  <2>7. f \in Injection(0..k, DOMAIN N)
    <3>1. f \in [0..k -> DOMAIN N]
      BY <1>2, <1>4, <2>5 DEF Links
    <3>2. \A i, j \in 0..k : f[i] = f[j] => i = j
      <4> SUFFICES ASSUME NEW i \in 0..k, NEW j \in 0..k, i # j PROVE f[i] # f[j]
        OBVIOUS
      <4>1. i < j \/ j < i
        OBVIOUS
      <4> QED
        BY <2>6, <4>1
    <3> QED
      BY <3>1, <3>2 DEF Injection, IsInjective
  <2>8. Cardinality(0..k) = k + 1
    BY <1>2, FS_Interval
  <2>9. Cardinality(0..k) <= Cardinality(DOMAIN N)
    BY <1>1, <2>7, FS_Injection
  <2> QED
    BY <1>1, <1>2, <2>8, <2>9
<1>6. PathToRoot(t, n) = {up[i] : i \in 0..k} \ {ROOT}
  BY <1>1, <1>3 DEF PathToRoot, Range
<1> QED
  BY <1>4, <1>5, <1>6

-----------------------------------------------------------------------------
(* The walk along a token sequence.                                        *)

(* What is left of a sequence, token by token.                             *)
LEMMA DropFacts ==
    ASSUME NEW s \in Seq(Nat), NEW k \in 0..Len(s)
    PROVE  /\ DropTokens(s, k) \in Seq(Nat) /\ Len(DropTokens(s, k)) = Len(s) - k
           /\ \A i \in 1..(Len(s) - k) : DropTokens(s, k)[i] = s[k + i]
<1>1. PICK l, m : l = Len(s) /\ m = l - k
  OBVIOUS
<1>2. l \in Nat /\ k \in Nat /\ m \in Nat /\ l = m + k
  BY <1>1
<1>3. \A i \in 1..m : i + k \in 1..l /\ k + i = i + k
  BY <1>2
<1>4. \A i \in 1..m : s[i + k] \in Nat
  BY <1>1, <1>3
<1>5. k + 1 \in Int /\ l \in Int /\ \A i \in (k + 1)..l : s[i] \in Nat
  <2>1. \A i \in (k + 1)..l : i \in 1..l
    BY <1>2
  <2> QED
    BY <1>1, <1>2, <2>1
<1>6. PICK r : r = SubSeq(s, k + 1, l)
  OBVIOUS
<1>7. /\ r \in Seq(Nat) /\ Len(r) = IF k + 1 <= l THEN l - (k + 1) + 1 ELSE 0
      /\ \A i \in 1..(l - (k + 1) + 1) : r[i] = s[(k + 1) + i - 1]
  BY <1>5, <1>6, SubSeqProperties
<1>8. l - (k + 1) + 1 = m /\ \A i \in 1..m : (k + 1) + i - 1 = k + i
  BY <1>2
<1>9. Len(r) = m /\ \A i \in 1..m : r[i] = s[k + i]
  BY <1>2, <1>7, <1>8
<1> QED
  BY <1>1, <1>6, <1>7, <1>9 DEF DropTokens

(* Two sequences agree on k tokens, and part after them.                   *)
PartAfter(a, b, k) ==
    /\ k \in Nat /\ k <= Len(a) /\ k <= Len(b)
    /\ \A i \in 1..k : a[i] = b[i]
    /\ k < Len(a) /\ k < Len(b) => a[k + 1] # b[k + 1]

(* match_edge_len (tree.rs 89-93) returns the length of the longest        *)
(* common beginning of its arguments.                                      *)
LEMMA MatchFacts ==
    ASSUME NEW a \in Seq(Nat), NEW b \in Seq(Nat)
    PROVE  PartAfter(a, b, MatchEdgeLen(a, b))
<1>1. PICK k : k = MatchEdgeLen(a, b)
  OBVIOUS
<1> SUFFICES PartAfter(a, b, k)
  BY <1>1
<1>2. PICK c : c = IF Len(a) <= Len(b) THEN Len(a) ELSE Len(b)
  OBVIOUS
<1>3. Len(a) \in Nat /\ Len(b) \in Nat /\ DOMAIN a = 1..Len(a) /\ DOMAIN b = 1..Len(b)
  OBVIOUS
<1>4. c \in Nat /\ c <= Len(a) /\ c <= Len(b) /\ (c = Len(a) \/ c = Len(b))
  BY <1>2, <1>3
<1>5. DOMAIN a \cap DOMAIN b = 1..c
  BY <1>2, <1>3
<1>6. PICK differ : differ = {i \in 1..c : a[i] # b[i]}
  OBVIOUS
<1>7. k = IF differ = {} THEN Cardinality(1..c) ELSE Min(differ) - 1
  BY <1>1, <1>5, <1>6, Zenon DEF MatchEdgeLen
<1>8. CASE differ = {}
  <2>1. k = c
    BY <1>4, <1>7, <1>8, UpTo
  <2>2. \A i \in 1..c : a[i] = b[i]
    BY <1>6, <1>8
  <2>3. ~(c < Len(a) /\ c < Len(b))
    <3>1. PICK x, y : x = Len(a) /\ y = Len(b)
      OBVIOUS
    <3>2. x \in Nat /\ y \in Nat /\ (c = x \/ c = y)
      BY <1>3, <1>4, <3>1, Zenon
    <3>3. ~(c < x /\ c < y)
      BY <3>2
    <3> QED
      BY <3>1, <3>3
  <2> QED
    BY <1>4, <2>1, <2>2, <2>3 DEF PartAfter
<1>9. CASE differ # {}
  <2>1. IsFiniteSet(differ) /\ differ \in SUBSET Int
    <3>1. differ \in SUBSET (1..c) /\ IsFiniteSet(1..c)
      BY <1>4, <1>6, UpTo
    <3>2. IsFiniteSet(differ)
      BY <3>1, FS_Subset
    <3> QED
      BY <1>4, <3>1, <3>2
  <2>2. PICK m : m = Min(differ)
    OBVIOUS
  <2>3. m \in differ /\ \A i \in differ : m <= i
    BY <1>9, <2>1, <2>2, MaxMinFacts
  <2>4. m \in 1..c /\ a[m] # b[m] /\ k = m - 1
    BY <1>6, <1>7, <1>9, <2>2, <2>3
  <2>5. ASSUME NEW i \in 1..k PROVE a[i] = b[i]
    <3>1. i \in 1..c /\ ~(m <= i)
      <4>1. i \in 1..(m - 1)
        BY <2>4
      <4> QED
        BY <1>4, <2>4, <4>1
    <3>2. i \notin differ
      BY <2>3, <3>1
    <3> QED
      BY <1>6, <3>1, <3>2
  <2> QED
    <3>1. m \in Nat /\ m > 0 /\ m <= c /\ k = m - 1
      BY <1>4, <2>4
    <3>2. k \in Nat /\ k < c /\ k + 1 = m
      BY <1>4, <3>1
    <3>3. a[k + 1] # b[k + 1]
      BY <2>4, <3>2
    <3>4. k <= Len(a) /\ k <= Len(b)
      <4>1. PICK x, y : x = Len(a) /\ y = Len(b)
        BY Zenon
      <4>2. x \in Nat /\ y \in Nat /\ c \in Nat /\ c <= x /\ c <= y
        BY <1>3, <1>4, <4>1, Zenon
      <4>3. k <= x /\ k <= y
        BY <3>2, <4>2
      <4> QED
        BY <4>1, <4>3, Zenon
    <3> QED
      BY <2>5, <3>2, <3>3, <3>4, Zenon DEF PartAfter
<1> QED
  BY <1>8, <1>9

(* The state of a walk that is o tokens into the edge of n, after k tokens: *)
(* the tokens consumed are the beginning of the path of n, and inside the  *)
(* edge it is where they part.                                             *)
Matched(N, L, P, tokens, n, o, k) ==
    /\ n \in L /\ o \in Nat /\ k \in Nat
    /\ o <= Len(N[n].edge) /\ k <= Len(tokens)
    /\ k + Len(N[n].edge) = Len(P[n]) + o
    /\ \A i \in 1..k : tokens[i] = P[n][i]
    /\ n # ROOT => o > 0
    /\ o < Len(N[n].edge) /\ k < Len(tokens) => tokens[k + 1] # P[n][k + 1]

Ends(N, tokens, n, o, k) ==
    \/ o < Len(N[n].edge)
    \/ k = Len(tokens)
    \/ tokens[k + 1] \notin DOMAIN N[n].children

OnTheWay(N, L, P, tokens, s) == Matched(N, L, P, tokens, s.node, s.offset, s.consumed)

Stopped(N, tokens, s) == Ends(N, tokens, s.node, s.offset, s.consumed)

(* The edge of a slot is a sequence, empty only at ROOT.                   *)
LEMMA EdgeFacts ==
    ASSUME NEW N, NEW L, NEW P, Links(N, L, P), NEW n \in L
    PROVE  N[n].edge \in Seq(Nat) /\ Len(N[n].edge) \in Nat /\ (n # ROOT => Len(N[n].edge) > 0)
<1>1. CASE n = ROOT
  <2>1. N[n].edge = <<>>
    BY <1>1 DEF Links
  <2>2. <<>> \in Seq(Nat) /\ Len(<<>>) = 0
    OBVIOUS
  <2> QED
    BY <1>1, <2>1, <2>2
<1>2. CASE n # ROOT
  <2>1. PICK e : e = N[n].edge
    OBVIOUS
  <2>2. e \in Seq(Nat) /\ e # <<>>
    BY <1>2, <2>1 DEF Links, UpLink
  <2>3. Len(e) \in Nat /\ Len(e) > 0
    BY <2>2
  <2> QED
    BY <1>2, <2>1, <2>2, <2>3
<1> QED
  BY <1>1, <1>2

EndsWith(q, p, e) ==
    Len(q) = Len(p) + Len(e) /\ \A i \in 1..Len(e) : q[Len(p) + i] = e[i]

(* The path of a slot ends with its edge.                                  *)
LEMMA EdgeEnd ==
    ASSUME NEW N, NEW L, NEW P, Links(N, L, P), NEW n \in L, n # ROOT
    PROVE  EndsWith(P[n], P[N[n].parent], N[n].edge)
BY Zenon DEF Links, UpLink, Joined, EndsWith

(* A child link, and the link back.                                        *)
LEMMA ChildFacts ==
    ASSUME NEW N, NEW L, NEW P, Links(N, L, P), NEW n \in L, NEW q \in DOMAIN N[n].children, NEW c,
           c = N[n].children[q]
    PROVE  c \in L /\ c # ROOT /\ N[c].parent = n /\ N[c].edge[1] = q
BY DEF Links, DownLinks

(* From n the walk goes to c, j tokens into its edge.                      *)
Enters(N, tokens, n, k, c, j) ==
    /\ c = N[n].children[tokens[k + 1]]
    /\ j = MatchEdgeLen(N[c].edge, DropTokens(tokens, k))

(* One step down: to the child that starts with the next token.            *)
LEMMA StepDown ==
    ASSUME NEW N, NEW L, NEW P, Links(N, L, P), NEW tokens \in Seq(Nat), NEW n, NEW o, NEW k,
           Matched(N, L, P, tokens, n, o, k), ~Ends(N, tokens, n, o, k), NEW c, NEW j,
           Enters(N, tokens, n, k, c, j)
    PROVE  Matched(N, L, P, tokens, c, j, k + j) /\ j \in Nat /\ j > 0 /\ N[c].parent = n
<1>1. PICK e, rest, l : e = N[c].edge /\ rest = DropTokens(tokens, k) /\ l = Len(tokens)
  OBVIOUS
<1>2. l \in Nat
  BY <1>1
<1>3. n \in L /\ k \in Nat /\ o \in Nat /\ \A i \in 1..k : tokens[i] = P[n][i]
  BY DEF Matched
<1>4. k < l /\ Len(P[n]) = k /\ tokens[k + 1] \in DOMAIN N[n].children
  <2>1. PICK le, lp : le = Len(N[n].edge) /\ lp = Len(P[n])
    OBVIOUS
  <2>2. le \in Nat /\ lp \in Nat
    BY <1>3, <2>1, EdgeFacts, PathFacts
  <2>3. o <= le /\ k <= l /\ k + le = lp + o /\ ~(o < le) /\ k # l
    BY <1>1, <2>1 DEF Matched, Ends
  <2>4. k < l /\ lp = k
    BY <1>2, <1>3, <2>2, <2>3
  <2> QED
    BY <2>1, <2>4 DEF Ends
<1>5. c \in L /\ c # ROOT /\ N[c].parent = n /\ e[1] = tokens[k + 1]
  <2>1. PICK q : q = tokens[k + 1]
    OBVIOUS
  <2>2. n \in L /\ q \in DOMAIN N[n].children /\ c = N[n].children[q]
    BY <1>3, <1>4, <2>1, Zenon DEF Enters
  <2>3. c \in L /\ c # ROOT /\ N[c].parent = n /\ N[c].edge[1] = q
    BY <2>2, ChildFacts
  <2> QED
    BY <1>1, <2>1, <2>3, Zenon
<1>6. PICK m : m = Len(e)
  OBVIOUS
<1>7. /\ e \in Seq(Nat) /\ m > 0 /\ m \in Nat /\ Len(P[c]) = k + m
      /\ \A i \in 1..m : P[c][k + i] = e[i]
  <2>1. /\ N[c].edge \in Seq(Nat) /\ Len(N[c].edge) \in Nat /\ Len(N[c].edge) > 0
        /\ Len(P[c]) = Len(P[N[c].parent]) + Len(N[c].edge)
        /\ \A i \in 1..Len(N[c].edge) : P[c][Len(P[N[c].parent]) + i] = N[c].edge[i]
    <3>1. c \in L /\ c # ROOT
      BY <1>5
    <3>2. EndsWith(P[c], P[N[c].parent], N[c].edge)
      BY <3>1, EdgeEnd
    <3>3. N[c].edge \in Seq(Nat) /\ Len(N[c].edge) \in Nat /\ Len(N[c].edge) > 0
      BY <3>1, EdgeFacts
    <3> QED
      BY <3>2, <3>3, Zenon DEF EndsWith
  <2> QED
    BY <1>1, <1>4, <1>5, <1>6, <2>1
<1>8. PICK r : r = l - k
  OBVIOUS
<1>9. /\ rest \in Seq(Nat) /\ Len(rest) = r /\ \A i \in 1..r : rest[i] = tokens[k + i]
      /\ r \in Nat /\ r > 0
  <2>1. k \in 0..Len(tokens)
    BY <1>1, <1>2, <1>3, <1>4
  <2>2. r \in Nat /\ r > 0
    BY <1>2, <1>3, <1>4, <1>8
  <2> QED
    BY <1>1, <1>8, <2>1, <2>2, DropFacts
<1>10. /\ j \in Nat /\ j <= m /\ j <= r
       /\ \A i \in 1..j : e[i] = rest[i]
       /\ j < m /\ j < r => e[j + 1] # rest[j + 1]
  <2>1. e \in Seq(Nat) /\ rest \in Seq(Nat) /\ j = MatchEdgeLen(e, rest)
    BY <1>1, <1>7, <1>9, Zenon DEF Enters
  <2>2. /\ j \in Nat /\ j <= Len(e) /\ j <= Len(rest)
        /\ \A i \in 1..j : e[i] = rest[i]
        /\ j < Len(e) /\ j < Len(rest) => e[j + 1] # rest[j + 1]
    <3>1. PartAfter(e, rest, j)
      BY <2>1, MatchFacts
    <3> QED
      BY <3>1, Zenon DEF PartAfter
  <2> QED
    BY <1>6, <1>9, <2>2
<1>11. /\ j \in Nat /\ m \in Nat /\ r \in Nat /\ k \in Nat /\ l \in Nat
      /\ j <= m /\ j <= r /\ k < l /\ r = l - k /\ m > 0 /\ r > 0
  BY <1>2, <1>3, <1>4, <1>7, <1>8, <1>9, <1>10
<1>12. j > 0
  <2>1. 1 \in 1..r
    BY <1>9
  <2>2. rest[1] = tokens[k + 1]
    BY <1>9, <2>1
  <2>3. e[1] = rest[1]
    BY <1>5, <2>2
  <2> SUFFICES ASSUME j = 0 PROVE FALSE
    BY <1>11
  <2>4. j < m /\ j < r /\ j + 1 = 1
    BY <1>11
  <2> QED
    BY <1>10, <2>3, <2>4
<1>13. \A i \in 1..(k + j) : tokens[i] = P[c][i]
  <2> SUFFICES ASSUME NEW i \in 1..(k + j) PROVE tokens[i] = P[c][i]
    OBVIOUS
  <2>1. i \in Nat /\ i > 0 /\ i <= k + j
    BY <1>11
  <2>2. CASE i <= k
    <3>1. Pre(P[n], P[c])
      BY <1>5, UpFacts
    <3>2. i \in 1..k
      BY <1>3, <2>1, <2>2
    <3> QED
      BY <1>3, <1>4, <3>1, <3>2 DEF Pre
  <2>3. CASE i > k
    <3>1. PICK h : h = i - k
      OBVIOUS
    <3>2. h \in 1..j /\ i = k + h
      BY <1>11, <2>1, <2>3, <3>1
    <3>3. h \in 1..m /\ h \in 1..r
      BY <1>11, <3>2
    <3> QED
      BY <1>7, <1>9, <1>10, <3>2, <3>3
  <2> QED
    BY <1>11, <2>1, <2>2, <2>3
<1>14. j < m /\ k + j < l => tokens[(k + j) + 1] # P[c][(k + j) + 1]
  <2> SUFFICES ASSUME j < m, k + j < l PROVE tokens[(k + j) + 1] # P[c][(k + j) + 1]
    OBVIOUS
  <2>1. j < m /\ k + j < l
    OBVIOUS
  <2>2. /\ j + 1 \in 1..m /\ j + 1 \in 1..r /\ (k + j) + 1 = k + (j + 1) /\ j < r
    <3>1. j < r /\ j + 1 \in 1..r
      BY <1>11, <2>1
    <3>2. j + 1 \in 1..m
      BY <1>11, <2>1
    <3>3. (k + j) + 1 = k + (j + 1)
      BY <1>11
    <3> QED
      BY <3>1, <3>2, <3>3
  <2> QED
    BY <1>7, <1>9, <1>10, <2>2
<1>15. k + j \in Nat /\ k + j <= l /\ (k + j) + m = (k + m) + j
  BY <1>11
<1>16. Matched(N, L, P, tokens, c, j, k + j)
  BY <1>1, <1>5, <1>6, <1>7, <1>10, <1>12, <1>13, <1>14, <1>15 DEF Matched
<1> QED
  BY <1>5, <1>10, <1>12, <1>16

(* What a turn does: nothing once the walk has stopped, else it enters a   *)
(* child and consumes a token at least.                                    *)
Turned(N, L, P, tokens, s, r) ==
    /\ OnTheWay(N, L, P, tokens, r)
    /\ Stopped(N, tokens, s) => r = s
    /\ ~Stopped(N, tokens, s) => s.consumed < r.consumed /\ N[r.node].parent = s.node

(* One turn of the walk of find_deepest (tree.rs 143-170): it stays on     *)
(* the slots whose path the tokens follow, it stops where no child         *)
(* continues, and it moves to a child by at least one token otherwise.     *)
LEMMA WalkTurnFacts ==
    ASSUME NEW t, NEW L, NEW P, Links(t.nodes, L, P), NEW tokens \in Seq(Nat), NEW s,
           OnTheWay(t.nodes, L, P, tokens, s), NEW r, r = WalkTurn(t, tokens, s)
    PROVE  Turned(t.nodes, L, P, tokens, s, r)
<1>1. PICK N, n, o, k : N = t.nodes /\ n = s.node /\ o = s.offset /\ k = s.consumed
  OBVIOUS
<1>2. Links(N, L, P) /\ Matched(N, L, P, tokens, n, o, k)
  BY <1>1, Zenon DEF OnTheWay
<1>3. CASE Stopped(N, tokens, s)
  <2>1. r = s
    BY <1>1, <1>3, Zenon DEF WalkTurn, Stopped, Ends
  <2> QED
    BY <1>1, <1>3, <2>1, Zenon DEF Turned
<1>4. CASE ~Stopped(N, tokens, s)
  <2>1. PICK c, j : Enters(N, tokens, n, k, c, j)
    BY Zenon DEF Enters
  <2>2. ~Ends(N, tokens, n, o, k)
    BY <1>1, <1>4, Zenon DEF Stopped
  <2>3. r = [node |-> c, offset |-> j, consumed |-> k + j]
    BY <1>1, <2>1, <2>2, Zenon DEF WalkTurn, Ends, Enters
  <2>4. Matched(N, L, P, tokens, c, j, k + j) /\ j \in Nat /\ j > 0 /\ N[c].parent = n
    BY <1>2, <2>1, <2>2, StepDown
  <2>5. r.node = c /\ r.offset = j /\ r.consumed = k + j
    BY <2>3
  <2>6. OnTheWay(N, L, P, tokens, r)
    BY <2>4, <2>5, Zenon DEF OnTheWay
  <2>7. k \in Nat /\ k < k + j
    BY <1>2, <2>4 DEF Matched
  <2>8. s.consumed < r.consumed /\ N[r.node].parent = s.node
    BY <1>1, <2>4, <2>5, <2>7
  <2> QED
    BY <1>1, <1>4, <2>6, <2>8, Zenon DEF Turned
<1> QED
  BY <1>3, <1>4

(* Every turn is on the way, and has consumed a token per turn unless the  *)
(* walk has stopped.                                                       *)
LEMMA WalkFacts ==
    ASSUME NEW t, NEW L, NEW P, Links(t.nodes, L, P), NEW tokens \in Seq(Nat), NEW w,
           w = Walk(t, tokens)
    PROVE  \A i \in 0..Len(tokens) :
              /\ OnTheWay(t.nodes, L, P, tokens, w[i])
              /\ i <= w[i].consumed \/ Stopped(t.nodes, tokens, w[i])
<1>1. PICK N, k : N = t.nodes /\ k = Len(tokens)
  OBVIOUS
<1>2. k \in Nat /\ Links(N, L, P)
  BY <1>1
<1>3. /\ w[0] = [node |-> ROOT, offset |-> 0, consumed |-> 0]
      /\ \A i \in 1..k : w[i] = WalkTurn(t, tokens, w[i - 1])
  BY <1>1, WalkTurns
<1> DEFINE S == {i \in 0..k : /\ OnTheWay(N, L, P, tokens, w[i])
                              /\ i <= w[i].consumed \/ Stopped(N, tokens, w[i])}
<1>4. 0 \in S
  <2>1. w[0].node = ROOT /\ w[0].offset = 0 /\ w[0].consumed = 0
    BY <1>3
  <2>2. ROOT \in L /\ Len(N[ROOT].edge) = 0 /\ Len(P[ROOT]) = 0
    BY <1>2, EdgeFacts DEF Links
  <2>3. OnTheWay(N, L, P, tokens, w[0])
    <3>1. Matched(N, L, P, tokens, ROOT, 0, 0)
      BY <1>1, <1>2, <2>2 DEF Matched
    <3> QED
      BY <2>1, <3>1, Zenon DEF OnTheWay
  <2> QED
    BY <1>2, <2>1, <2>3
<1>5. ASSUME NEW i \in 1..k, i - 1 \in S PROVE i \in S
  <2>1. PICK s : s = w[i - 1]
    OBVIOUS
  <2>2. OnTheWay(N, L, P, tokens, s) /\ (i - 1 <= s.consumed \/ Stopped(N, tokens, s))
    BY <1>5, <2>1
  <2>3. w[i] = WalkTurn(t, tokens, s)
    BY <1>3, <2>1
  <2>4. Turned(N, L, P, tokens, s, w[i])
    <3>1. Links(t.nodes, L, P) /\ OnTheWay(t.nodes, L, P, tokens, s)
      BY <1>1, <2>2
    <3>2. Turned(t.nodes, L, P, tokens, s, w[i])
      BY <2>3, <3>1, WalkTurnFacts
    <3> QED
      BY <1>1, <3>2
  <2>5. CASE Stopped(N, tokens, s)
    <3>1. w[i] = s /\ i \in 0..k
      BY <1>2, <2>4, <2>5 DEF Turned
    <3> QED
      BY <2>2, <2>5, <3>1
  <2>6. CASE ~Stopped(N, tokens, s)
    <3>1. s.consumed < w[i].consumed /\ OnTheWay(N, L, P, tokens, w[i])
      BY <2>4, <2>6, Zenon DEF Turned
    <3>2. i <= w[i].consumed
      <4>1. PICK a, b : a = s.consumed /\ b = w[i].consumed
        OBVIOUS
      <4>2. a \in Nat /\ b \in Nat
        BY <2>2, <3>1, <4>1 DEF OnTheWay, Matched
      <4>3. i - 1 <= a /\ a < b
        BY <2>2, <2>6, <3>1, <4>1
      <4>4. i <= b
        BY <1>2, <4>2, <4>3
      <4> QED
        BY <4>1, <4>4
    <3> QED
      BY <3>1, <3>2
  <2> QED
    BY <2>5, <2>6
<1> HIDE DEF S
<1>6. \A i \in 0..k : i \in S
  BY <1>2, <1>4, <1>5, UpFromZero
<1> QED
  BY <1>1, <1>6 DEF S

(* Where the descent ends: on the way, and stopped.                        *)
LEMMA DescendFacts ==
    ASSUME NEW t, NEW L, NEW P, Links(t.nodes, L, P), NEW tokens \in Seq(Nat), NEW d,
           d = Descend(t, tokens)
    PROVE  OnTheWay(t.nodes, L, P, tokens, d) /\ Stopped(t.nodes, tokens, d)
<1>1. PICK w, k : w = Walk(t, tokens) /\ k = Len(tokens)
  OBVIOUS
<1>2. k \in Nat /\ k \in 0..k /\ d = w[k]
  BY <1>1 DEF Descend
<1>3. OnTheWay(t.nodes, L, P, tokens, d) /\ (k <= d.consumed \/ Stopped(t.nodes, tokens, d))
  BY <1>1, <1>2, WalkFacts
<1>4. PICK c : c = d.consumed
  OBVIOUS
<1>5. c \in Nat /\ c <= k
  BY <1>1, <1>3, <1>4 DEF OnTheWay, Matched
<1>6. k <= c => c = Len(tokens)
  BY <1>1, <1>2, <1>5
<1> QED
  BY <1>3, <1>4, <1>6 DEF Stopped, Ends

(* A slot whose path agrees with the tokens consumed is below the slot a   *)
(* walk is at.                                                             *)
LEMMA BelowWalk ==
    ASSUME NEW N, NEW L, NEW P, Links(N, L, P), NEW tokens \in Seq(Nat), NEW n, NEW o, NEW k,
           Matched(N, L, P, tokens, n, o, k), NEW m \in L, k <= Len(P[m]),
           \A i \in 1..k : tokens[i] = P[m][i]
    PROVE  Pre(P[n], P[m])
<1>1. PICK le, lp, lm : le = Len(N[n].edge) /\ lp = Len(P[n]) /\ lm = Len(P[m])
  OBVIOUS
<1>2. /\ n \in L /\ k \in Nat /\ o \in Nat /\ k + le = lp + o
      /\ \A i \in 1..k : tokens[i] = P[n][i]
      /\ n # ROOT => o > 0
  BY <1>1 DEF Matched
<1>3. lm \in Nat /\ lp \in Nat /\ le \in Nat
  BY <1>1, <1>2, PathFacts, EdgeFacts
<1>4. CASE n = ROOT
  <2>1. lp = 0
    BY <1>1, <1>4 DEF Links
  <2> QED
    BY <1>1, <1>3, <2>1 DEF Pre
<1>5. CASE n # ROOT
  <2>1. PICK lu : lu = Len(P[N[n].parent])
    OBVIOUS
  <2>2. lp = lu + le /\ lu \in Nat
    <3>1. N[n].parent \in L
      BY <1>2, <1>5, UpFacts
    <3>2. Len(P[N[n].parent]) \in Nat
      BY <3>1, PathFacts
    <3>3. n \in L /\ n # ROOT
      BY <1>2, <1>5
    <3>4. Len(P[n]) = Len(P[N[n].parent]) + Len(N[n].edge)
      <4>1. EndsWith(P[n], P[N[n].parent], N[n].edge)
        BY <3>3, EdgeEnd
      <4> QED
        BY <4>1 DEF EndsWith
    <3> QED
      BY <1>1, <2>1, <3>2, <3>4
  <2>3. lu < k /\ lu < lm
    BY <1>1, <1>2, <1>3, <1>5, <2>2
  <2>4. \A i \in 1..(lu + 1) : i \in 1..k
    BY <1>2, <2>2, <2>3
  <2>5. \A i \in 1..(lu + 1) : P[m][i] = P[n][i]
    BY <1>2, <2>4
  <2>6. MeetsAt(N, P, n, m)
    BY <1>1, <1>5, <2>1, <2>3, <2>5 DEF MeetsAt
  <2> QED
    BY <1>2, <2>6, Branches
<1> QED
  BY <1>4, <1>5

(* The descent consumes as much as agrees with any slot's path.            *)
LEMMA LongestWalk ==
    ASSUME NEW N, NEW L, NEW P, Links(N, L, P), NEW tokens \in Seq(Nat), NEW n, NEW o, NEW k,
           Matched(N, L, P, tokens, n, o, k), Ends(N, tokens, n, o, k), NEW m \in L, NEW j \in Nat,
           j <= Len(tokens), j <= Len(P[m]), \A i \in 1..j : tokens[i] = P[m][i]
    PROVE  j <= k
<1>1. PICK le, lp, lm, lt : /\ le = Len(N[n].edge) /\ lp = Len(P[n]) /\ lm = Len(P[m])
                            /\ lt = Len(tokens)
  OBVIOUS
<1>2. /\ n \in L /\ k \in Nat /\ o \in Nat /\ o <= le /\ k + le = lp + o
      /\ o < le /\ k < lt => tokens[k + 1] # P[n][k + 1]
  BY <1>1 DEF Matched
<1>3. lm \in Nat /\ lp \in Nat /\ le \in Nat /\ lt \in Nat
  BY <1>1, <1>2, PathFacts, EdgeFacts
<1> SUFFICES ASSUME k < j PROVE FALSE
  BY <1>2
<1>4. k + 1 \in 1..j /\ k < lt /\ k < lm /\ \A i \in 1..k : i \in 1..j
  BY <1>1, <1>2, <1>3
<1>5. Pre(P[n], P[m])
  <2>1. \A i \in 1..k : tokens[i] = P[m][i]
    BY <1>4
  <2>2. k <= Len(P[m])
    BY <1>1, <1>2, <1>3, <1>4
  <2> QED
    BY <2>1, <2>2, BelowWalk
<1>6. tokens[k + 1] = P[m][k + 1]
  BY <1>4
<1>7. CASE o < le
  <2>1. k + 1 \in 1..lp
    BY <1>2, <1>3, <1>7
  <2>2. P[n][k + 1] = P[m][k + 1]
    BY <1>1, <1>5, <2>1 DEF Pre
  <2> QED
    BY <1>2, <1>4, <1>6, <1>7, <2>2
<1>8. CASE ~(o < le)
  <2>1. lp = k
    BY <1>2, <1>3, <1>8
  <2>2. n # m
    <3>1. lp < lm
      BY <1>4, <2>1
    <3>2. lp # lm
      BY <1>3, <3>1
    <3> QED
      BY <1>1, <3>2
  <2>3. PICK c \in L \ {ROOT} : N[c].parent = n /\ Pre(P[c], P[m])
    BY <1>2, <1>5, <2>2, ChildOnWay
  <2>4. PICK lc : lc = Len(P[c])
    OBVIOUS
  <2>5. k < lc /\ P[c][k + 1] = N[c].edge[1] /\ lc \in Nat
    <3>1. c \in L /\ c # ROOT
      BY <2>3
    <3>2. /\ Len(P[N[c].parent]) < Len(P[c])
          /\ P[c][Len(P[N[c].parent]) + 1] = N[c].edge[1]
      BY <3>1, UpFacts
    <3>3. Len(P[c]) \in Nat
      BY <3>1, PathFacts
    <3> QED
      BY <1>1, <2>1, <2>3, <2>4, <3>2, <3>3
  <2>6. N[c].edge[1] \in DOMAIN N[n].children
    BY <2>3 DEF Links, UpLink
  <2>7. k + 1 \in 1..lc
    BY <1>2, <2>5
  <2>8. P[c][k + 1] = P[m][k + 1]
    BY <2>3, <2>4, <2>7 DEF Pre
  <2>9. tokens[k + 1] \in DOMAIN N[n].children
    BY <1>6, <2>5, <2>6, <2>8
  <2> QED
    BY <1>1, <1>2, <1>3, <1>4, <1>8, <2>9 DEF Ends
<1> QED
  BY <1>7, <1>8

(* The walk d ended at the slot n, after all of the tokens p.              *)
Home(t, d, n, p) == d.node = n /\ d.consumed = Len(p) /\ AtNodeBoundary(t, d)

(* The tokens of a slot's path lead to that slot, at its boundary.         *)
LEMMA DescendHome ==
    ASSUME NEW t, NEW L, NEW P, Links(t.nodes, L, P), NEW m \in L, NEW d,
           d = Descend(t, P[m])
    PROVE  Home(t, d, m, P[m])
<1>1. PICK N, n, o, k : N = t.nodes /\ n = d.node /\ o = d.offset /\ k = d.consumed
  OBVIOUS
<1>2. PICK le, lp, lm : le = Len(N[n].edge) /\ lp = Len(P[n]) /\ lm = Len(P[m])
  OBVIOUS
<1>3. P[m] \in Seq(Nat) /\ lm \in Nat
  BY <1>2, PathFacts
<1>4. Matched(N, L, P, P[m], n, o, k) /\ Ends(N, P[m], n, o, k) /\ Links(N, L, P)
  <2>1. OnTheWay(N, L, P, P[m], d) /\ Stopped(N, P[m], d)
    BY <1>1, <1>3, DescendFacts
  <2> QED
    BY <1>1, <2>1, Zenon DEF OnTheWay, Stopped
<1>5. lm <= k
  BY <1>2, <1>3, <1>4, LongestWalk
<1>6. /\ n \in L /\ k \in Nat /\ k <= lm /\ o \in Nat /\ o <= le /\ k + le = lp + o
      /\ \A i \in 1..k : P[m][i] = P[n][i]
  BY <1>2, <1>4 DEF Matched
<1>7. lp \in Nat /\ le \in Nat /\ P[n] \in Seq(Nat)
  BY <1>2, <1>4, <1>6, PathFacts, EdgeFacts
<1>8. k = lm
  BY <1>3, <1>5, <1>6
<1>9. Pre(P[n], P[m])
  BY <1>2, <1>3, <1>4, <1>8, BelowWalk
<1>10. lm <= lp
  BY <1>3, <1>6, <1>7, <1>8
<1>11. P[n] = P[m]
  BY <1>2, <1>3, <1>7, <1>9, <1>10, PreBoth
<1>12. n = m
  BY <1>4, <1>6, <1>11, OneSlot
<1>13. o = le
  <2>1. lp = lm
    BY <1>2, <1>11
  <2>2. lp \in Nat /\ le \in Nat /\ o \in Nat /\ k + le = lp + o /\ k = lp
    BY <1>6, <1>7, <1>8, <2>1
  <2> QED
    BY <2>2
<1> QED
  BY <1>1, <1>2, <1>8, <1>12, <1>13 DEF AtNodeBoundary, Home

(* The first k tokens of a sequence.                                       *)
LEMMA TakeFacts ==
    ASSUME NEW s \in Seq(Nat), NEW k \in 0..Len(s)
    PROVE  /\ SubSeq(s, 1, k) \in Seq(Nat) /\ Len(SubSeq(s, 1, k)) = k
           /\ \A i \in 1..k : SubSeq(s, 1, k)[i] = s[i]
<1>1. PICK l : l = Len(s)
  OBVIOUS
<1>2. l \in Nat /\ k \in Nat /\ k <= l /\ 1 \in Int /\ k \in Int
  BY <1>1
<1>3. \A i \in 1..k : s[i] \in Nat
  <2>1. \A i \in 1..k : i \in 1..l
    BY <1>2
  <2> QED
    BY <1>1, <2>1
<1>4. PICK r : r = SubSeq(s, 1, k)
  OBVIOUS
<1>5. /\ r \in Seq(Nat) /\ Len(r) = IF 1 <= k THEN k - 1 + 1 ELSE 0
      /\ \A i \in 1..(k - 1 + 1) : r[i] = s[1 + i - 1]
  BY <1>2, <1>3, <1>4, SubSeqProperties
<1>6. k - 1 + 1 = k /\ \A i \in 1..k : 1 + i - 1 = i
  BY <1>2
<1>7. Len(r) = k /\ \A i \in 1..k : r[i] = s[i]
  BY <1>2, <1>5, <1>6
<1> QED
  BY <1>4, <1>5, <1>7

-----------------------------------------------------------------------------
(* What keeps the links: split, hang, unlink and merge.                    *)

(* Cutting a joined path in two, and joining two.                          *)
Cut(q, p, o) == SubSeq(q, 1, Len(p) + o)

(* The path above a slot and the first o tokens of its edge: the upper     *)
(* half is on the way, and the rest of the edge leads on from it.          *)
LEMMA JoinedCut ==
    ASSUME NEW q \in Seq(Nat), NEW p \in Seq(Nat), NEW e \in Seq(Nat), Joined(q, p, e),
           NEW o \in 0..Len(e), NEW h, h = Cut(q, p, o)
    PROVE  /\ h \in Seq(Nat) /\ Len(h) = Len(p) + o
           /\ Joined(h, p, SubSeq(e, 1, o)) /\ Joined(q, h, DropTokens(e, o)) /\ Pre(h, q)
<1>1. PICK lp, le, lq : lp = Len(p) /\ le = Len(e) /\ lq = Len(q)
  BY Zenon
<1>2. lp \in Nat /\ le \in Nat /\ o \in Nat /\ o <= le
  BY <1>1
<1>3. lq = lp + le /\ (\A i \in 1..lp : q[i] = p[i]) /\ \A i \in 1..le : q[lp + i] = e[i]
  BY <1>1, Zenon DEF Joined
<1>4. lp + o \in 0..lq /\ o \in 0..le
  BY <1>2, <1>3
<1>5. /\ h \in Seq(Nat) /\ Len(h) = lp + o
      /\ \A i \in 1..(lp + o) : h[i] = q[i]
  BY <1>1, <1>4, TakeFacts DEF Cut
<1>6. PICK f, g : f = SubSeq(e, 1, o) /\ g = DropTokens(e, o)
  BY Zenon
<1>7. f \in Seq(Nat) /\ Len(f) = o /\ \A i \in 1..o : f[i] = e[i]
  BY <1>1, <1>4, <1>6, TakeFacts
<1>8. g \in Seq(Nat) /\ Len(g) = le - o /\ \A i \in 1..(le - o) : g[i] = e[o + i]
  BY <1>1, <1>4, <1>6, DropFacts
<1>9. \A i \in 1..lp : h[i] = p[i]
  <2>1. \A i \in 1..lp : i \in 1..(lp + o)
    BY <1>2
  <2> QED
    BY <1>3, <1>5, <2>1
<1>10. \A i \in 1..o : h[lp + i] = f[i]
  <2>1. \A i \in 1..o : lp + i \in 1..(lp + o) /\ i \in 1..le
    BY <1>2
  <2> QED
    BY <1>3, <1>5, <1>7, <2>1
<1>11. Joined(h, p, f)
  BY <1>1, <1>5, <1>7, <1>9, <1>10, Zenon DEF Joined
<1>12. \A i \in 1..(le - o) : q[(lp + o) + i] = g[i]
  <2>1. \A i \in 1..(le - o) : o + i \in 1..le /\ (lp + o) + i = lp + (o + i)
    BY <1>2
  <2> QED
    BY <1>3, <1>8, <2>1
<1>13. lq = (lp + o) + (le - o) /\ lp + o <= lq
  BY <1>2, <1>3
<1>14. \A i \in 1..(lp + o) : q[i] = h[i]
  BY <1>5
<1>15. Joined(q, h, g)
  BY <1>1, <1>5, <1>8, <1>12, <1>13, <1>14 DEF Joined
<1>16. Pre(h, q)
  BY <1>1, <1>5, <1>13, Zenon DEF Pre
<1> QED
  BY <1>1, <1>5, <1>6, <1>11, <1>15, <1>16

(* A path continued by e and then by f is continued by e and f joined.     *)
LEMMA JoinedTrans ==
    ASSUME NEW q \in Seq(Nat), NEW h \in Seq(Nat), NEW p \in Seq(Nat), NEW e \in Seq(Nat),
           NEW f \in Seq(Nat), Joined(h, p, e), Joined(q, h, f)
    PROVE  Joined(q, p, e \o f) /\ e \o f \in Seq(Nat) /\ Len(e \o f) = Len(e) + Len(f)
           /\ \A i \in 1..Len(e) : (e \o f)[i] = e[i]
<1>1. PICK lp, le, lf, lh, lq, g :
         /\ lp = Len(p) /\ le = Len(e) /\ lf = Len(f) /\ lh = Len(h) /\ lq = Len(q) /\ g = e \o f
  BY Zenon
<1>2. lp \in Nat /\ le \in Nat /\ lf \in Nat
  BY <1>1
<1>3. /\ g \in Seq(Nat) /\ Len(g) = le + lf
      /\ \A i \in 1..(le + lf) : g[i] = IF i <= le THEN e[i] ELSE f[i - le]
  BY <1>1, ConcatProperties
<1>4. lh = lp + le /\ (\A i \in 1..lp : h[i] = p[i]) /\ \A i \in 1..le : h[lp + i] = e[i]
  BY <1>1, Zenon DEF Joined
<1>5. lq = lh + lf /\ (\A i \in 1..lh : q[i] = h[i]) /\ \A i \in 1..lf : q[lh + i] = f[i]
  BY <1>1, Zenon DEF Joined
<1>6. \A i \in 1..le : g[i] = e[i]
  <2>1. \A i \in 1..le : i \in 1..(le + lf) /\ i <= le
    BY <1>2
  <2> QED
    BY <1>3, <2>1
<1>7. \A i \in 1..lp : q[i] = p[i]
  <2>1. \A i \in 1..lp : i \in 1..lh
    BY <1>2, <1>4
  <2> QED
    BY <1>4, <1>5, <2>1
<1>8. ASSUME NEW i \in 1..(le + lf) PROVE q[lp + i] = g[i]
  <2>1. CASE i <= le
    <3>1. i \in 1..le /\ lp + i \in 1..lh
      BY <1>2, <1>4, <2>1
    <3> QED
      BY <1>4, <1>5, <1>6, <3>1
  <2>2. CASE ~(i <= le)
    <3>1. PICK j : j = i - le
      BY Zenon
    <3>2. j \in 1..lf /\ lp + i = lh + j
      BY <1>2, <1>4, <2>2, <3>1
    <3> QED
      BY <1>3, <1>5, <2>2, <3>1, <3>2
  <2> QED
    BY <2>1, <2>2
<1>9. lq = lp + (le + lf)
  BY <1>2, <1>4, <1>5
<1>10. Joined(q, p, g)
  BY <1>1, <1>3, <1>7, <1>8, <1>9, Zenon DEF Joined
<1> QED
  BY <1>1, <1>3, <1>6, <1>10

(* The children of a slot are the slots it is the parent of.               *)
LEMMA KidsOf ==
    ASSUME NEW N, NEW L, NEW P, Links(N, L, P), NEW n \in L, NEW i \in L
    PROVE  i \in Range(N[n].children) <=> i # ROOT /\ N[i].parent = n
<1>1. i # ROOT => UpLink(N, L, P, i)
  BY DEF Links
<1>2. DownLinks(N, L, n)
  BY DEF Links
<1>3. ASSUME i # ROOT, N[i].parent = n PROVE i \in Range(N[n].children)
  BY <1>1, <1>3 DEF UpLink, Range
<1>4. ASSUME NEW k \in DOMAIN N[n].children, i = N[n].children[k] PROVE i # ROOT /\ N[i].parent = n
  BY <1>2, <1>4 DEF DownLinks
<1> QED
  BY <1>3, <1>4 DEF Range

(* No slot is its own child or parent.                                     *)
LEMMA NotOwn ==
    ASSUME NEW N, NEW L, NEW P, Links(N, L, P), NEW n \in L, n # ROOT
    PROVE  N[n].parent # n
<1>1. Len(P[N[n].parent]) < Len(P[n]) /\ Len(P[n]) \in Nat
  BY UpFacts, PathFacts
<1> QED
  BY <1>1

(* What a split at offset o into the edge of n does to the links: n keeps  *)
(* the first o tokens, the new slot z gets the rest and the children.      *)
SplitLinks(N, L, M, n, z, o) ==
    /\ L \cup {z} \subseteq DOMAIN M
    /\ M[n].edge = SubSeq(N[n].edge, 1, o) /\ M[n].parent = N[n].parent
    /\ M[n].children = [k \in {N[n].edge[o + 1]} |-> z]
    /\ M[z].edge = DropTokens(N[n].edge, o) /\ M[z].parent = n
    /\ M[z].children = N[n].children
    /\ \A i \in L \ {n} :
          /\ M[i].edge = N[i].edge /\ M[i].children = N[i].children
          /\ M[i].parent = IF i \in Range(N[n].children) THEN z ELSE N[i].parent

SplitPath(N, L, P, n, z, o) ==
    [i \in L \cup {z} |->
        IF i = n THEN Cut(P[n], P[N[n].parent], o) ELSE IF i = z THEN P[n] ELSE P[i]]

(* split_edge keeps the links: the slot n keeps its place with the upper   *)
(* half of its edge, and the new slot z takes its path and its children.   *)
LEMMA SplitKeepsLinks ==
    ASSUME NEW N, NEW L, NEW P, Links(N, L, P), NEW n \in L, n # ROOT, NEW z, z \notin L,
           NEW o \in Nat, 0 < o, o < Len(N[n].edge), NEW M, SplitLinks(N, L, M, n, z, o)
    PROVE  Links(M, L \cup {z}, SplitPath(N, L, P, n, z, o))
<1>1. PICK e, u, h, Q, J : /\ e = N[n].edge /\ u = N[n].parent
                           /\ h = Cut(P[n], P[u], o)
                           /\ Q = SplitPath(N, L, P, n, z, o) /\ J = L \cup {z}
  BY Zenon
<1>2. /\ u \in L /\ e \in Seq(Nat) /\ e # <<>> /\ Joined(P[n], P[u], e)
      /\ e[1] \in DOMAIN N[u].children /\ N[u].children[e[1]] = n
  BY <1>1 DEF Links, UpLink
<1>3. P[n] \in Seq(Nat) /\ P[u] \in Seq(Nat) /\ u # n /\ u # z
  BY <1>1, <1>2, PathFacts, NotOwn
<1>4. Len(e) \in Nat /\ o < Len(e) /\ o \in 0..Len(e)
  BY <1>1, <1>2
<1>5. /\ h \in Seq(Nat) /\ Len(h) = Len(P[u]) + o
      /\ Joined(h, P[u], SubSeq(e, 1, o)) /\ Joined(P[n], h, DropTokens(e, o))
  <2>1. PICK q, p : q = P[n] /\ p = P[u]
    BY Zenon
  <2>2. /\ q \in Seq(Nat) /\ p \in Seq(Nat) /\ e \in Seq(Nat) /\ Joined(q, p, e)
        /\ o \in 0..Len(e) /\ h = Cut(q, p, o)
    BY <1>1, <1>2, <1>3, <1>4, <2>1
  <2>3. /\ h \in Seq(Nat) /\ Len(h) = Len(p) + o
        /\ Joined(h, p, SubSeq(e, 1, o)) /\ Joined(q, h, DropTokens(e, o))
    BY <2>2, JoinedCut
  <2> QED
    BY <2>1, <2>3
<1>6. /\ J \subseteq DOMAIN M
      /\ M[n].edge = SubSeq(e, 1, o) /\ M[n].parent = u
      /\ M[n].children = [k \in {e[o + 1]} |-> z]
      /\ M[z].edge = DropTokens(e, o) /\ M[z].parent = n
      /\ M[z].children = N[n].children
  BY <1>1, Zenon DEF SplitLinks
<1>7. ASSUME NEW i \in L, i # n
      PROVE  /\ M[i].edge = N[i].edge /\ M[i].children = N[i].children
             /\ M[i].parent = IF i # ROOT /\ N[i].parent = n THEN z ELSE N[i].parent
  <2>1. /\ M[i].edge = N[i].edge /\ M[i].children = N[i].children
        /\ M[i].parent = IF i \in Range(N[n].children) THEN z ELSE N[i].parent
    BY <1>7 DEF SplitLinks
  <2> QED
    BY <2>1, KidsOf
<1>8. Q[n] = h /\ Q[z] = P[n] /\ \A i \in L \ {n} : Q[i] = P[i]
  BY <1>1 DEF SplitPath
<1>9. Q \in [J -> Seq(Nat)]
  <2>1. \A i \in L : P[i] \in Seq(Nat)
    BY PathFacts
  <2>2. \A i \in J : Q[i] \in Seq(Nat)
    BY <1>1, <1>3, <1>5, <1>8, <2>1
  <2> QED
    BY <1>1, <2>2 DEF SplitPath
<1>10. /\ ROOT \in J /\ Q[ROOT] = <<>> /\ M[ROOT].edge = <<>> /\ M[ROOT].parent = ROOT
       /\ ROOT \in L /\ ROOT # n
  BY <1>1, <1>7, <1>8 DEF Links
<1>11. /\ SubSeq(e, 1, o) \in Seq(Nat) /\ SubSeq(e, 1, o) # <<>> /\ SubSeq(e, 1, o)[1] = e[1]
       /\ DropTokens(e, o) \in Seq(Nat) /\ DropTokens(e, o) # <<>>
       /\ DropTokens(e, o)[1] = e[o + 1]
  <2>1. /\ SubSeq(e, 1, o) \in Seq(Nat) /\ Len(SubSeq(e, 1, o)) = o
        /\ \A i \in 1..o : SubSeq(e, 1, o)[i] = e[i]
    BY <1>2, <1>4, TakeFacts
  <2>2. /\ DropTokens(e, o) \in Seq(Nat) /\ Len(DropTokens(e, o)) = Len(e) - o
        /\ \A i \in 1..(Len(e) - o) : DropTokens(e, o)[i] = e[o + i]
    BY <1>2, <1>4, DropFacts
  <2>3. 1 \in 1..o /\ 1 \in 1..(Len(e) - o) /\ Len(e) - o > 0
    BY <1>4
  <2>4. Len(<<>>) = 0
    OBVIOUS
  <2> QED
    BY <2>1, <2>2, <2>3, <2>4
<1>12. UpLink(M, J, Q, n)
  <2>1. M[u].children = N[u].children /\ Q[u] = P[u]
    BY <1>2, <1>3, <1>7, <1>8
  <2>2. u \in J
    BY <1>1, <1>2
  <2>3. Q[n] = h /\ M[n].edge = SubSeq(e, 1, o) /\ M[n].parent = u
    BY <1>6, <1>8
  <2>4. /\ M[n].edge \in Seq(Nat) /\ M[n].edge # <<>> /\ M[n].edge[1] = e[1]
        /\ Joined(Q[n], Q[M[n].parent], M[n].edge)
    BY <1>5, <1>11, <2>1, <2>3
  <2>5. e[1] \in DOMAIN M[u].children /\ M[u].children[e[1]] = n
    BY <1>2, <2>1
  <2> QED
    BY <2>2, <2>3, <2>4, <2>5 DEF UpLink
<1>13. UpLink(M, J, Q, z)
  <2>1. e[o + 1] \in DOMAIN M[n].children /\ M[n].children[e[o + 1]] = z
    BY <1>6
  <2>2. n \in J
    BY <1>1
  <2> QED
    BY <1>5, <1>6, <1>8, <1>11, <2>1, <2>2, Zenon DEF UpLink
<1>14. ASSUME NEW i \in L, i # n, i # ROOT PROVE UpLink(M, J, Q, i)
  <2>1. UpLink(N, L, P, i)
    BY <1>14 DEF Links
  <2>2. M[i].edge = N[i].edge /\ Q[i] = P[i]
    BY <1>7, <1>8, <1>14
  <2>3. CASE N[i].parent = n
    <3>1. M[i].parent = z
      BY <1>7, <1>14, <2>3
    <3>2. z \in J /\ Q[z] = P[n] /\ M[z].children = N[n].children
      BY <1>1, <1>6, <1>8
    <3> QED
      BY <2>1, <2>2, <2>3, <3>1, <3>2 DEF UpLink
  <2>4. CASE N[i].parent # n
    <3>1. PICK w : w = N[i].parent
      BY Zenon
    <3>2. w \in L /\ w # n /\ M[i].parent = w
      BY <1>7, <1>14, <2>1, <2>4, <3>1 DEF UpLink
    <3>3. w \in J /\ Q[w] = P[w] /\ M[w].children = N[w].children
      BY <1>1, <1>7, <1>8, <3>2
    <3> QED
      BY <2>1, <2>2, <3>1, <3>2, <3>3 DEF UpLink
  <2> QED
    BY <2>3, <2>4
<1>15. DownLinks(M, J, n)
  <2>1. \A k \in DOMAIN M[n].children : k = e[o + 1] /\ M[n].children[k] = z
    BY <1>6
  <2>2. z \in J \ {ROOT}
    BY <1>1, <1>10
  <2> QED
    BY <1>6, <1>11, <2>1, <2>2 DEF DownLinks
<1>16. ASSUME NEW k \in DOMAIN N[n].children, NEW c, c = N[n].children[k]
       PROVE  c \in J \ {ROOT} /\ M[c].parent = z /\ M[c].edge[1] = k
  <2>1. c \in L /\ c # ROOT /\ N[c].parent = n /\ N[c].edge[1] = k
    BY <1>16, ChildFacts
  <2>2. c # n
    BY <2>1, NotOwn
  <2> QED
    BY <1>1, <1>7, <2>1, <2>2
<1>17. DownLinks(M, J, z)
  BY <1>6, <1>16 DEF DownLinks
<1>18. ASSUME NEW i \in L, i # n PROVE DownLinks(M, J, i)
  <2>1. M[i].children = N[i].children
    BY <1>7, <1>18
  <2>2. ASSUME NEW k \in DOMAIN N[i].children, NEW c, c = N[i].children[k]
        PROVE  c \in J \ {ROOT} /\ M[c].parent = i /\ M[c].edge[1] = k
    <3>1. c \in L /\ c # ROOT /\ N[c].parent = i /\ N[c].edge[1] = k
      BY <2>2, ChildFacts
    <3>2. CASE c = n
      BY <1>1, <1>6, <1>11, <3>1, <3>2
    <3>3. CASE c # n
      BY <1>1, <1>7, <1>18, <3>1, <3>3
    <3> QED
      BY <3>2, <3>3
  <2> QED
    BY <2>1, <2>2 DEF DownLinks
<1>19. \A i \in J \ {ROOT} : UpLink(M, J, Q, i)
  BY <1>1, <1>12, <1>13, <1>14
<1>20. \A i \in J : DownLinks(M, J, i)
  BY <1>1, <1>15, <1>17, <1>18
<1> QED
  BY <1>1, <1>6, <1>9, <1>10, <1>19, <1>20, Zenon DEF Links

(* Links do not depend on counts and terminators.                          *)
SameLinks(N, M, S) ==
    \A i \in S : /\ M[i].edge = N[i].edge /\ M[i].parent = N[i].parent
                 /\ M[i].children = N[i].children

(* A step that changes no edge, parent or child link of a live slot keeps  *)
(* the links.                                                              *)
LEMMA SameKeepsLinks ==
    ASSUME NEW N, NEW L, NEW P, Links(N, L, P), NEW M, L \subseteq DOMAIN M, SameLinks(N, M, L)
    PROVE  Links(M, L, P)
<1>1. ASSUME NEW n \in L, n # ROOT PROVE UpLink(M, L, P, n)
  <2>1. UpLink(N, L, P, n)
    BY <1>1 DEF Links
  <2>2. /\ M[n].edge = N[n].edge /\ M[n].parent = N[n].parent
        /\ M[N[n].parent].children = N[N[n].parent].children
    BY <2>1 DEF SameLinks, UpLink
  <2> QED
    BY <2>1, <2>2 DEF UpLink
<1>2. ASSUME NEW n \in L PROVE DownLinks(M, L, n)
  <2>1. M[n].children = N[n].children
    BY DEF SameLinks
  <2>2. ASSUME NEW k \in DOMAIN N[n].children, NEW c, c = N[n].children[k]
        PROVE  c \in L \ {ROOT} /\ M[c].parent = n /\ M[c].edge[1] = k
    <3>1. c \in L /\ c # ROOT /\ N[c].parent = n /\ N[c].edge[1] = k
      BY <2>2, ChildFacts
    <3> QED
      BY <3>1 DEF SameLinks
  <2> QED
    BY <2>1, <2>2 DEF DownLinks
<1>3. ROOT \in L /\ M[ROOT].edge = <<>> /\ M[ROOT].parent = ROOT
  BY DEF Links, SameLinks
<1> QED
  BY <1>1, <1>2, <1>3 DEF Links

(* A new leaf z under n, with the edge f.                                  *)
HangLinks(N, L, M, n, z, f) ==
    /\ L \cup {z} \subseteq DOMAIN M
    /\ M[z].edge = f /\ M[z].parent = n /\ DOMAIN M[z].children = {}
    /\ M[n].edge = N[n].edge /\ M[n].parent = N[n].parent
    /\ M[n].children = Put(N[n].children, f[1], z)
    /\ SameLinks(N, M, L \ {n})

HangPath(L, P, z, q) == [i \in L \cup {z} |-> IF i = z THEN q ELSE P[i]]

(* A new leaf z under n, on an edge no child of n starts with, keeps the   *)
(* links.                                                                  *)
LEMMA HangKeepsLinks ==
    ASSUME NEW N, NEW L, NEW P, Links(N, L, P), NEW n \in L, NEW z, z \notin L,
           NEW f \in Seq(Nat), f # <<>>, f[1] \notin DOMAIN N[n].children,
           NEW q \in Seq(Nat), Joined(q, P[n], f), NEW M, HangLinks(N, L, M, n, z, f)
    PROVE  Links(M, L \cup {z}, HangPath(L, P, z, q))
<1>1. PICK Q, J, k : Q = HangPath(L, P, z, q) /\ J = L \cup {z} /\ k = f[1]
  BY Zenon
<1>2. /\ J \subseteq DOMAIN M
      /\ M[z].edge = f /\ M[z].parent = n /\ DOMAIN M[z].children = {}
      /\ M[n].edge = N[n].edge /\ M[n].parent = N[n].parent
      /\ M[n].children = Put(N[n].children, k, z)
  BY <1>1, Zenon DEF HangLinks
<1>3. \A i \in L : M[i].edge = N[i].edge /\ M[i].parent = N[i].parent
  BY <1>2 DEF HangLinks, SameLinks
<1>4. \A i \in L \ {n} : M[i].children = N[i].children
  BY DEF HangLinks, SameLinks
<1>5. /\ DOMAIN M[n].children = DOMAIN N[n].children \cup {k}
      /\ M[n].children[k] = z
      /\ \A j \in DOMAIN N[n].children : M[n].children[j] = N[n].children[j]
  BY <1>1, <1>2 DEF Put
<1>6. Q[z] = q /\ \A i \in L : Q[i] = P[i]
  BY <1>1 DEF HangPath
<1>7. Q \in [J -> Seq(Nat)]
  <2>1. \A i \in J : Q[i] \in Seq(Nat)
    BY <1>1, <1>6, PathFacts
  <2> QED
    BY <1>1, <2>1 DEF HangPath
<1>8. /\ ROOT \in J /\ Q[ROOT] = <<>> /\ M[ROOT].edge = <<>> /\ M[ROOT].parent = ROOT
      /\ ROOT \in L /\ z # ROOT
  BY <1>1, <1>3, <1>6 DEF Links
<1>9. UpLink(M, J, Q, z)
  BY <1>1, <1>2, <1>5, <1>6, Zenon DEF UpLink
<1>10. ASSUME NEW i \in L, i # ROOT PROVE UpLink(M, J, Q, i)
  <2>1. UpLink(N, L, P, i)
    BY <1>10 DEF Links
  <2>2. PICK w : w = N[i].parent
    BY Zenon
  <2>3. /\ w \in L /\ M[i].parent = w /\ M[i].edge = N[i].edge /\ Q[w] = P[w] /\ Q[i] = P[i]
        /\ N[i].edge[1] \in DOMAIN N[w].children /\ N[w].children[N[i].edge[1]] = i
    BY <1>3, <1>6, <2>1, <2>2 DEF UpLink
  <2>4. N[i].edge[1] \in DOMAIN M[w].children /\ M[w].children[N[i].edge[1]] = i
    BY <1>4, <1>5, <2>3
  <2>5. w \in J
    BY <1>1, <2>3
  <2> QED
    BY <2>1, <2>2, <2>3, <2>4, <2>5 DEF UpLink
<1>11. DownLinks(M, J, z)
  BY <1>2 DEF DownLinks
<1>12. ASSUME NEW i \in L, NEW j \in DOMAIN N[i].children, NEW c, c = N[i].children[j]
       PROVE  c \in J \ {ROOT} /\ M[c].parent = i /\ M[c].edge[1] = j
  <2>1. c \in L /\ c # ROOT /\ N[c].parent = i /\ N[c].edge[1] = j
    <3>1. i \in L /\ j \in DOMAIN N[i].children /\ c = N[i].children[j]
      BY <1>12
    <3> QED
      BY <3>1, Zenon DEF Links, DownLinks
  <2> QED
    BY <1>1, <1>3, <2>1
<1>13. DownLinks(M, J, n)
  <2>1. z \in J \ {ROOT} /\ M[z].parent = n /\ M[z].edge[1] = k
    BY <1>1, <1>2, <1>8
  <2> QED
    BY <1>5, <1>12, <2>1 DEF DownLinks
<1>14. ASSUME NEW i \in L, i # n PROVE DownLinks(M, J, i)
  BY <1>4, <1>12, <1>14 DEF DownLinks
<1>15. \A i \in J \ {ROOT} : UpLink(M, J, Q, i)
  BY <1>1, <1>9, <1>10
<1>16. \A i \in J : DownLinks(M, J, i)
  BY <1>1, <1>11, <1>13, <1>14
<1> QED
  BY <1>1, <1>2, <1>7, <1>8, <1>15, <1>16, Zenon DEF Links

(* The leaf n is taken from its parent.                                    *)
UnlinkLinks(N, L, M, n) ==
    /\ L \ {n} \subseteq DOMAIN M
    /\ M[N[n].parent].edge = N[N[n].parent].edge
    /\ M[N[n].parent].parent = N[N[n].parent].parent
    /\ M[N[n].parent].children =
          Restrict(N[N[n].parent].children, DOMAIN N[N[n].parent].children \ {N[n].edge[1]})
    /\ SameLinks(N, M, L \ {n, N[n].parent})

PathWithout(L, P, n) == [i \in L \ {n} |-> P[i]]

(* Taking a slot without children out of the tree keeps the links of the   *)
(* others.                                                                 *)
LEMMA UnlinkKeepsLinks ==
    ASSUME NEW N, NEW L, NEW P, Links(N, L, P), NEW n \in L, n # ROOT,
           DOMAIN N[n].children = {}, NEW M, UnlinkLinks(N, L, M, n)
    PROVE  Links(M, L \ {n}, PathWithout(L, P, n))
<1>1. PICK Q, J, u, k : Q = PathWithout(L, P, n) /\ J = L \ {n} /\ u = N[n].parent /\ k = N[n].edge[1]
  BY Zenon
<1>2. u \in L /\ u # n /\ k \in DOMAIN N[u].children /\ N[u].children[k] = n
  BY <1>1, NotOwn DEF Links, UpLink
<1>3. \A i \in J : M[i].edge = N[i].edge /\ M[i].parent = N[i].parent
  BY <1>1, <1>2 DEF UnlinkLinks, SameLinks
<1>4. \A i \in J \ {u} : M[i].children = N[i].children
  BY <1>1 DEF UnlinkLinks, SameLinks
<1>5. /\ DOMAIN M[u].children = DOMAIN N[u].children \ {k}
      /\ \A j \in DOMAIN N[u].children \ {k} : M[u].children[j] = N[u].children[j]
  BY <1>1 DEF UnlinkLinks, Restrict
<1>6. \A i \in J : Q[i] = P[i]
  BY <1>1 DEF PathWithout
<1>7. Q \in [J -> Seq(Nat)]
  <2>1. \A i \in J : Q[i] \in Seq(Nat)
    BY <1>1, <1>6, PathFacts
  <2> QED
    BY <1>1, <2>1 DEF PathWithout
<1>8. ROOT \in J /\ Q[ROOT] = <<>> /\ M[ROOT].edge = <<>> /\ M[ROOT].parent = ROOT
  BY <1>1, <1>3, <1>6 DEF Links
<1>9. ASSUME NEW i \in J, i # ROOT PROVE UpLink(M, J, Q, i)
  <2>1. UpLink(N, L, P, i)
    BY <1>1, <1>9 DEF Links
  <2>2. PICK w, j : w = N[i].parent /\ j = N[i].edge[1]
    BY Zenon
  <2>3. /\ w \in L /\ M[i].parent = w /\ M[i].edge = N[i].edge
        /\ j \in DOMAIN N[w].children /\ N[w].children[j] = i
    BY <1>3, <2>1, <2>2 DEF UpLink
  <2>4. w # n
    BY <2>3
  <2>5. w \in J /\ i # n
    BY <1>1, <2>3, <2>4
  <2>6. Q[w] = P[w] /\ Q[i] = P[i]
    BY <1>6, <2>5
  <2>7. j \in DOMAIN M[w].children /\ M[w].children[j] = i
    <3>1. CASE w = u
      <4>1. j # k
        BY <1>2, <2>3, <2>5, <3>1
      <4> QED
        BY <1>5, <2>3, <3>1, <4>1
    <3>2. CASE w # u
      BY <1>4, <2>3, <2>5, <3>2
    <3> QED
      BY <3>1, <3>2
  <2> QED
    BY <2>1, <2>2, <2>3, <2>5, <2>6, <2>7 DEF UpLink
<1>10. ASSUME NEW i \in J PROVE DownLinks(M, J, i)
  <2>1. ASSUME NEW j \in DOMAIN M[i].children
        PROVE  /\ j \in DOMAIN N[i].children /\ M[i].children[j] = N[i].children[j]
               /\ i = u => j # k
    BY <1>4, <1>5, <2>1
  <2>2. ASSUME NEW j \in DOMAIN M[i].children, NEW c, c = M[i].children[j]
        PROVE  c \in J \ {ROOT} /\ M[c].parent = i /\ M[c].edge[1] = j
    <3>1. i \in L /\ j \in DOMAIN N[i].children /\ c = N[i].children[j] /\ (i = u => j # k)
      BY <1>1, <2>1, <2>2
    <3>2. c \in L /\ c # ROOT /\ N[c].parent = i /\ N[c].edge[1] = j
      BY <3>1, ChildFacts
    <3>3. c # n
      BY <1>1, <3>1, <3>2
    <3> QED
      BY <1>1, <1>3, <3>2, <3>3
  <2> QED
    BY <2>2 DEF DownLinks
<1>11. J \subseteq DOMAIN M
  BY <1>1 DEF UnlinkLinks
<1> QED
  BY <1>1, <1>7, <1>8, <1>9, <1>10, <1>11 DEF Links

(* The slot n takes over the edge and children of its only child c.        *)
MergeLinks(N, L, M, n, c) ==
    /\ L \ {c} \subseteq DOMAIN M
    /\ M[n].edge = N[n].edge \o N[c].edge /\ M[n].parent = N[n].parent
    /\ M[n].children = N[c].children
    /\ \A i \in L \ {n, c} :
          /\ M[i].edge = N[i].edge /\ M[i].children = N[i].children
          /\ M[i].parent = IF i \in Range(N[c].children) THEN n ELSE N[i].parent

MergePath(L, P, n, c) == [i \in L \ {c} |-> IF i = n THEN P[c] ELSE P[i]]

(* Merging a slot n with its only child c keeps the links: n takes the     *)
(* path and the children of c.                                             *)
LEMMA MergeKeepsLinks ==
    ASSUME NEW N, NEW L, NEW P, Links(N, L, P), NEW n \in L, n # ROOT,
           NEW c \in L, Range(N[n].children) = {c}, NEW M, MergeLinks(N, L, M, n, c)
    PROVE  Links(M, L \ {c}, MergePath(L, P, n, c))
<1>1. PICK Q, J, u, e, f, g : /\ Q = MergePath(L, P, n, c) /\ J = L \ {c} /\ u = N[n].parent
                              /\ e = N[n].edge /\ f = N[c].edge /\ g = e \o f
  BY Zenon
<1>2. c # ROOT /\ N[c].parent = n
  BY KidsOf
<1>3. c # n /\ u # n
  BY <1>1, <1>2, NotOwn
<1>4. UpLink(N, L, P, n) /\ UpLink(N, L, P, c)
  BY <1>2 DEF Links
<1>5. /\ u \in L /\ e \in Seq(Nat) /\ e # <<>> /\ Joined(P[n], P[u], e)
      /\ e[1] \in DOMAIN N[u].children /\ N[u].children[e[1]] = n
      /\ f \in Seq(Nat) /\ f # <<>> /\ Joined(P[c], P[n], f)
  BY <1>1, <1>2, <1>4 DEF UpLink
<1>6. u # c
  <2> SUFFICES ASSUME u = c PROVE FALSE
    OBVIOUS
  <2>1. Len(P[N[c].parent]) < Len(P[c]) /\ Len(P[N[n].parent]) < Len(P[n])
    BY <1>2, UpFacts
  <2>2. Len(P[n]) < Len(P[c]) /\ Len(P[c]) < Len(P[n])
    BY <1>1, <1>2, <2>1
  <2>3. Len(P[n]) \in Nat /\ Len(P[c]) \in Nat
    BY PathFacts
  <2> QED
    BY <2>2, <2>3
<1>7. P[n] \in Seq(Nat) /\ P[u] \in Seq(Nat) /\ P[c] \in Seq(Nat)
  BY <1>5, PathFacts
<1>8. Joined(P[c], P[u], g) /\ g \in Seq(Nat) /\ g # <<>> /\ g[1] = e[1]
  <2>1. /\ Joined(P[c], P[u], g) /\ g \in Seq(Nat) /\ Len(g) = Len(e) + Len(f)
        /\ \A i \in 1..Len(e) : g[i] = e[i]
    <3>1. PICK q, h, p : q = P[c] /\ h = P[n] /\ p = P[u]
      BY Zenon
    <3>2. /\ q \in Seq(Nat) /\ h \in Seq(Nat) /\ p \in Seq(Nat) /\ e \in Seq(Nat)
          /\ f \in Seq(Nat) /\ Joined(h, p, e) /\ Joined(q, h, f)
      BY <1>5, <1>7, <3>1
    <3>3. /\ Joined(q, p, e \o f) /\ e \o f \in Seq(Nat) /\ Len(e \o f) = Len(e) + Len(f)
          /\ \A i \in 1..Len(e) : (e \o f)[i] = e[i]
      BY <3>2, JoinedTrans
    <3> QED
      BY <1>1, <3>1, <3>3
  <2>2. Len(e) \in Nat /\ Len(e) > 0 /\ Len(f) \in Nat
    BY <1>5
  <2>3. 1 \in 1..Len(e) /\ Len(e) + Len(f) # 0 /\ Len(<<>>) = 0
    BY <2>2
  <2> QED
    BY <2>1, <2>3
<1>9. M[n].edge = g /\ M[n].parent = u /\ M[n].children = N[c].children /\ J \subseteq DOMAIN M
  BY <1>1, Zenon DEF MergeLinks
<1>10. ASSUME NEW i \in L, i # n, i # c
       PROVE  /\ M[i].edge = N[i].edge /\ M[i].children = N[i].children
              /\ M[i].parent = IF i # ROOT /\ N[i].parent = c THEN n ELSE N[i].parent
  <2>1. /\ M[i].edge = N[i].edge /\ M[i].children = N[i].children
        /\ M[i].parent = IF i \in Range(N[c].children) THEN n ELSE N[i].parent
    BY <1>10 DEF MergeLinks
  <2> QED
    BY <2>1, KidsOf
<1>11. Q[n] = P[c] /\ \A i \in J \ {n} : Q[i] = P[i]
  BY <1>1, <1>3 DEF MergePath
<1>12. Q \in [J -> Seq(Nat)]
  <2>1. \A i \in L : P[i] \in Seq(Nat)
    BY PathFacts
  <2>2. \A i \in J : Q[i] \in Seq(Nat)
    BY <1>1, <1>7, <1>11, <2>1
  <2> QED
    BY <1>1, <2>2 DEF MergePath
<1>13. /\ ROOT \in J /\ Q[ROOT] = <<>> /\ M[ROOT].edge = <<>> /\ M[ROOT].parent = ROOT
       /\ ROOT \in L
  BY <1>1, <1>2, <1>10, <1>11 DEF Links
<1>14. UpLink(M, J, Q, n)
  <2>1. u \in J /\ M[u].children = N[u].children /\ Q[u] = P[u]
    BY <1>1, <1>3, <1>5, <1>6, <1>10, <1>11
  <2> QED
    BY <1>5, <1>8, <1>9, <1>11, <2>1 DEF UpLink
<1>15. ASSUME NEW i \in L, i # n, i # c, i # ROOT PROVE UpLink(M, J, Q, i)
  <2>1. UpLink(N, L, P, i)
    BY <1>15 DEF Links
  <2>2. M[i].edge = N[i].edge /\ Q[i] = P[i]
    BY <1>1, <1>10, <1>11, <1>15
  <2>3. CASE N[i].parent = c
    <3>1. M[i].parent = n
      BY <1>10, <1>15, <2>3
    <3>2. n \in J /\ Q[n] = P[c] /\ M[n].children = N[c].children
      BY <1>1, <1>3, <1>9, <1>11
    <3> QED
      BY <2>1, <2>2, <2>3, <3>1, <3>2 DEF UpLink
  <2>4. CASE N[i].parent # c
    <3>1. PICK w : w = N[i].parent
      BY Zenon
    <3>2. w \in L /\ w # c /\ M[i].parent = w
      BY <1>10, <1>15, <2>1, <2>4, <3>1 DEF UpLink
    <3>3. w # n
      BY <1>15, <3>1, KidsOf
    <3>4. w \in J /\ Q[w] = P[w] /\ M[w].children = N[w].children
      BY <1>1, <1>10, <1>11, <3>2, <3>3
    <3> QED
      BY <2>1, <2>2, <3>1, <3>2, <3>4 DEF UpLink
  <2> QED
    BY <2>3, <2>4
<1>16. DownLinks(M, J, n)
  <2>1. ASSUME NEW k \in DOMAIN N[c].children, NEW x, x = N[c].children[k]
        PROVE  x \in J \ {ROOT} /\ M[x].parent = n /\ M[x].edge[1] = k
    <3>1. x \in L /\ x # ROOT /\ N[x].parent = c /\ N[x].edge[1] = k
      BY <2>1, ChildFacts
    <3>2. x # c
      BY <1>2, <3>1, NotOwn
    <3>3. CASE x = n
      <4>1. N[n].parent = c
        BY <3>1, <3>3
      <4> QED
        BY <1>1, <1>6, <4>1
    <3>4. CASE x # n
      BY <1>1, <1>10, <3>1, <3>2, <3>4
    <3> QED
      BY <3>3, <3>4
  <2> QED
    BY <1>9, <2>1 DEF DownLinks
<1>17. ASSUME NEW i \in L, i # n, i # c PROVE DownLinks(M, J, i)
  <2>1. M[i].children = N[i].children
    BY <1>10, <1>17
  <2>2. ASSUME NEW k \in DOMAIN N[i].children, NEW x, x = N[i].children[k]
        PROVE  x \in J \ {ROOT} /\ M[x].parent = i /\ M[x].edge[1] = k
    <3>1. x \in L /\ x # ROOT /\ N[x].parent = i /\ N[x].edge[1] = k
      BY <2>2, ChildFacts
    <3>2. x # c
      BY <1>2, <1>17, <3>1
    <3>3. CASE x = n
      BY <1>1, <1>3, <1>8, <1>9, <3>1, <3>3
    <3>4. CASE x # n
      BY <1>1, <1>10, <1>17, <3>1, <3>2, <3>4
    <3> QED
      BY <3>3, <3>4
  <2> QED
    BY <2>1, <2>2 DEF DownLinks
<1>18. \A i \in J \ {ROOT} : UpLink(M, J, Q, i)
  BY <1>1, <1>14, <1>15
<1>19. \A i \in J : DownLinks(M, J, i)
  BY <1>1, <1>16, <1>17
<1> QED
  BY <1>1, <1>9, <1>12, <1>13, <1>18, <1>19, Zenon DEF Links

-----------------------------------------------------------------------------
(* The arena: live slots, freelist, and what alloc and free do.            *)

IsNode(x) ==
    x = [edge |-> x.edge, parent |-> x.parent, children |-> x.children,
         pending_count |-> x.pending_count, terminators |-> x.terminators]

Unused == NewNode(<<>>, ROOT)

(* The slots are 0..k-1; those that are not live are on the freelist, each *)
(* once, and are blank.                                                    *)
Arena(t, L) ==
    /\ t = [nodes |-> t.nodes, free |-> t.free]
    /\ IsFiniteSet(DOMAIN t.nodes)
    /\ DOMAIN t.nodes = 0..(Cardinality(DOMAIN t.nodes) - 1)
    /\ ROOT \in L /\ L \subseteq DOMAIN t.nodes
    /\ Enumerates(t.free, DOMAIN t.nodes \ L)
    /\ \A i \in DOMAIN t.nodes : IsNode(t.nodes[i])
    /\ \A i \in DOMAIN t.nodes \ L : t.nodes[i] = Unused

FreeAfter(t) == IF t.free # <<>> THEN Front(t.free) ELSE t.free

(* Without the last element.                                               *)
LEMMA EnumFront ==
    ASSUME NEW S, NEW s, Enumerates(s, S), s # <<>>
    PROVE  Last(s) \in S /\ Enumerates(Front(s), S \ {Last(s)})
<1>1. PICK n, x, r : n = Len(s) /\ x = s[n] /\ r = SubSeq(s, 1, n - 1)
  BY Zenon
<1>2. /\ s \in Seq(S) /\ n \in Nat /\ (\A i \in 1..n : s[i] \in S)
      /\ (\A y \in S : \E i \in 1..n : s[i] = y)
      /\ \A i, j \in 1..n : s[i] = s[j] => i = j
  BY <1>1, EnumFacts
<1>3. n > 0
  BY <1>1, <1>2
<1>4. n - 1 \in Nat /\ n \in 1..n /\ \A i \in 1..(n - 1) : i \in 1..n /\ i # n
  BY <1>2, <1>3
<1>5. x \in S
  BY <1>1, <1>2, <1>4
<1>6. /\ r \in Seq(S) /\ Len(r) = n - 1 /\ \A i \in 1..(n - 1) : r[i] = s[i]
  <2>1. 1 \in Int /\ n - 1 \in Int /\ \A i \in 1..(n - 1) : s[i] \in S
    BY <1>2, <1>4
  <2>2. /\ r \in Seq(S) /\ Len(r) = IF 1 <= n - 1 THEN (n - 1) - 1 + 1 ELSE 0
        /\ \A i \in 1..((n - 1) - 1 + 1) : r[i] = s[1 + i - 1]
    BY <1>1, <2>1, SubSeqProperties
  <2>3. /\ (n - 1) - 1 + 1 = n - 1 /\ (IF 1 <= n - 1 THEN n - 1 ELSE 0) = n - 1
        /\ \A i \in 1..(n - 1) : 1 + i - 1 = i
    BY <1>4
  <2> QED
    BY <2>2, <2>3
<1>7. PICK T : T = S \ {x}
  BY Zenon
<1>8. \A i \in 1..(n - 1) : r[i] \in T
  <2> SUFFICES ASSUME NEW i \in 1..(n - 1) PROVE r[i] \in T
    OBVIOUS
  <2>1. i \in 1..n /\ i # n /\ r[i] = s[i] /\ n \in 1..n
    BY <1>4, <1>6
  <2>2. s[i] # s[n]
    BY <1>2, <2>1
  <2> QED
    BY <1>1, <1>2, <1>7, <2>1, <2>2
<1>9. \A y \in T : \E i \in 1..(n - 1) : r[i] = y
  <2> SUFFICES ASSUME NEW y \in T PROVE \E i \in 1..(n - 1) : r[i] = y
    OBVIOUS
  <2>1. PICK i \in 1..n : s[i] = y
    BY <1>2, <1>7
  <2>2. i # n
    BY <1>1, <1>7, <2>1
  <2>3. i \in 1..(n - 1)
    BY <1>2, <2>2
  <2> QED
    BY <1>6, <2>1, <2>3
<1>10. \A i, j \in 1..(n - 1) : r[i] = r[j] => i = j
  BY <1>2, <1>4, <1>6
<1>11. r \in [1..(n - 1) -> T]
  <2>1. DOMAIN r = 1..(n - 1)
    BY <1>6
  <2>2. r = [i \in DOMAIN r |-> r[i]]
    BY <1>6
  <2> QED
    BY <1>8, <2>1, <2>2
<1>12. Enumerates(r, T)
  BY <1>4, <1>8, <1>9, <1>10, <1>11, EnumIntro
<1> QED
  BY <1>1, <1>5, <1>7, <1>12 DEF Front, Last

(* The slot that alloc returns was not live, and taking it keeps the arena *)
(* in order.                                                               *)
LEMMA NextIdFacts ==
    ASSUME NEW t, NEW L, Arena(t, L), NEW z, z = NextId(t)
    PROVE  /\ z \notin L /\ z # ROOT
           /\ Enumerates(FreeAfter(t), (DOMAIN t.nodes \cup {z}) \ (L \cup {z}))
           /\ IsFiniteSet(DOMAIN t.nodes \cup {z})
           /\ DOMAIN t.nodes \cup {z} = 0..(Cardinality(DOMAIN t.nodes \cup {z}) - 1)
<1>1. PICK D, k, s, E : D = DOMAIN t.nodes /\ k = Cardinality(D) /\ s = t.free /\ E = D \cup {z}
  BY Zenon
<1>2. /\ IsFiniteSet(D) /\ D = 0..(k - 1) /\ ROOT \in L /\ L \subseteq D
      /\ Enumerates(s, D \ L)
  BY <1>1 DEF Arena
<1>3. k \in Nat
  BY <1>1, <1>2, FS_CardinalityType
<1>4. IsFiniteSet(E) /\ Cardinality(E) = IF z \in D THEN k ELSE k + 1
  BY <1>1, <1>2, FS_AddElement
<1>5. CASE s # <<>>
  <2>1. z = Last(s) /\ FreeAfter(t) = Front(s)
    BY <1>1, <1>5 DEF NextId, FreeAfter
  <2>2. Last(s) \in D \ L /\ Enumerates(Front(s), (D \ L) \ {Last(s)})
    BY <1>2, <1>5, EnumFront
  <2>3. z \in D /\ z \notin L /\ E = D /\ E \ (L \cup {z}) = (D \ L) \ {z}
    BY <1>1, <2>1, <2>2
  <2>4. E = 0..(Cardinality(E) - 1)
    BY <1>2, <1>4, <2>3
  <2> QED
    BY <1>1, <1>2, <1>4, <2>1, <2>2, <2>3, <2>4
<1>6. CASE s = <<>>
  <2>1. z = k /\ FreeAfter(t) = <<>>
    BY <1>1, <1>6 DEF NextId, FreeAfter
  <2>2. D \ L = {}
    <3>1. ToSet(s) = D \ L
      BY <1>2 DEF Enumerates
    <3> QED
      BY <1>6, <3>1 DEF ToSet
  <2>3. z \notin D
    BY <1>2, <1>3, <2>1
  <2>4. Cardinality(E) = k + 1 /\ E = 0..((k + 1) - 1)
    BY <1>1, <1>2, <1>3, <1>4, <2>1, <2>3
  <2>5. E \ (L \cup {z}) = {} /\ z \notin L /\ z # ROOT
    BY <1>1, <1>2, <2>2, <2>3
  <2> QED
    BY <1>1, <1>4, <2>1, <2>4, <2>5, EnumEmpty
<1> QED
  BY <1>1, <1>5, <1>6

(* alloc keeps the arena exact: the id it takes is not live, and the free  *)
(* list loses it.                                                          *)
LEMMA AllocArena ==
    ASSUME NEW t, NEW L, Arena(t, L), NEW z, z = NextId(t), NEW r,
           r = [nodes |-> r.nodes, free |-> FreeAfter(t)], DOMAIN r.nodes = DOMAIN t.nodes \cup {z},
           \A i \in L \cup {z} : IsNode(r.nodes[i]),
           \A i \in DOMAIN t.nodes \ (L \cup {z}) : r.nodes[i] = t.nodes[i]
    PROVE  Arena(r, L \cup {z})
<1>1. PICK D, J : D = DOMAIN r.nodes /\ J = L \cup {z}
  BY Zenon
<1>2. /\ Enumerates(FreeAfter(t), D \ J) /\ IsFiniteSet(D) /\ D = 0..(Cardinality(D) - 1)
  <2>1. D = DOMAIN t.nodes \cup {z}
    BY <1>1
  <2>2. /\ Enumerates(FreeAfter(t), (DOMAIN t.nodes \cup {z}) \ (L \cup {z}))
        /\ IsFiniteSet(DOMAIN t.nodes \cup {z})
        /\ DOMAIN t.nodes \cup {z} = 0..(Cardinality(DOMAIN t.nodes \cup {z}) - 1)
    BY NextIdFacts
  <2> QED
    BY <1>1, <2>1, <2>2, Zenon
<1>3. r.free = FreeAfter(t)
  OBVIOUS
<1>4. /\ ROOT \in J /\ J \subseteq D
      /\ \A i \in DOMAIN t.nodes \ L : t.nodes[i] = Unused
      /\ \A i \in DOMAIN t.nodes : IsNode(t.nodes[i])
  BY <1>1 DEF Arena
<1>5. \A i \in D \ J : i \in DOMAIN t.nodes \ L /\ r.nodes[i] = t.nodes[i]
  BY <1>1
<1>6. \A i \in D \ J : r.nodes[i] = Unused /\ IsNode(r.nodes[i])
  BY <1>4, <1>5
<1>7. \A i \in D : IsNode(r.nodes[i])
  BY <1>1, <1>6
<1> QED
  BY <1>1, <1>2, <1>3, <1>4, <1>6, <1>7 DEF Arena

(* Changes that keep the slots and the freelist keep the arena in order.   *)
LEMMA SameArena ==
    ASSUME NEW t, NEW L, Arena(t, L), NEW r,
           r = [nodes |-> r.nodes, free |-> t.free], DOMAIN r.nodes = DOMAIN t.nodes,
           \A i \in L : IsNode(r.nodes[i]),
           \A i \in DOMAIN t.nodes \ L : r.nodes[i] = t.nodes[i]
    PROVE  Arena(r, L)
<1>1. r.free = t.free
  OBVIOUS
<1>2. \A i \in DOMAIN t.nodes : IsNode(r.nodes[i])
  BY DEF Arena
<1> QED
  BY <1>1, <1>2 DEF Arena

(* Freeing a live slot other than the root keeps the arena exact: its id   *)
(* joins the free list once.                                               *)
LEMMA FreeArena ==
    ASSUME NEW t, NEW L, Arena(t, L), NEW n \in L, n # ROOT, NEW r,
           r = [nodes |-> r.nodes, free |-> Append(t.free, n)], DOMAIN r.nodes = DOMAIN t.nodes,
           r.nodes[n] = Unused, \A i \in L \ {n} : IsNode(r.nodes[i]),
           \A i \in DOMAIN t.nodes \ L : r.nodes[i] = t.nodes[i]
    PROVE  Arena(r, L \ {n})
<1>1. PICK D, J : D = DOMAIN t.nodes /\ J = L \ {n}
  BY Zenon
<1>2. /\ IsFiniteSet(D) /\ D = 0..(Cardinality(D) - 1) /\ ROOT \in L /\ L \subseteq D
      /\ Enumerates(t.free, D \ L) /\ (\A i \in D \ L : t.nodes[i] = Unused)
      /\ \A i \in D : IsNode(t.nodes[i])
  BY <1>1, Zenon DEF Arena
<1>3. D \ J = (D \ L) \cup {n} /\ n \notin D \ L
  BY <1>1, <1>2
<1>4. Enumerates(Append(t.free, n), D \ J)
  BY <1>2, <1>3, EnumAppend
<1>5. r.free = Append(t.free, n)
  OBVIOUS
<1>6. \A i \in D \ J : r.nodes[i] = Unused
  BY <1>1, <1>2, <1>3
<1>7. IsNode(Unused)
  BY DEF IsNode, Unused, NewNode
<1>8. \A i \in D : IsNode(r.nodes[i])
  BY <1>1, <1>6, <1>7
<1>9. ROOT \in J /\ J \subseteq D
  BY <1>1, <1>2
<1> QED
  BY <1>1, <1>2, <1>4, <1>5, <1>6, <1>8, <1>9 DEF Arena

-----------------------------------------------------------------------------
(* The content of the nodes: terminators and counts over the map.          *)

(* The requests of the map m whose tokens begin with p.                    *)
Under(m, p) == {r \in DOMAIN m : Pre(p, m[r])}

(* The tree holds the map m: every request ends at the slot of its path,   *)
(* and the counts are the number of requests below.                        *)
Content(N, L, P, m) ==
    /\ IsFiniteSet(DOMAIN m) /\ N[ROOT].pending_count \in Nat
    /\ \A r \in DOMAIN m : \E n \in L : P[n] = m[r]
    /\ \A n \in L : N[n].terminators = {r \in DOMAIN m : m[r] = P[n]}
    /\ \A n \in L \ {ROOT} : N[n].pending_count = Cardinality(Under(m, P[n]))

(* Every slot but ROOT and x ends a request or branches.                   *)
Branching(node) == node.terminators # {} \/ \E j, k \in DOMAIN node.children : j # k
Compact(N, L, x) == \A n \in L \ {ROOT, x} : Branching(N[n])

Holds(t, L, P, m) == Links(t.nodes, L, P) /\ Arena(t, L) /\ Content(t.nodes, L, P, m)

(* A change of one field of a node.                                        *)
LEMMA NodeChange ==
    ASSUME NEW x, IsNode(x), NEW v
    PROVE  /\ IsNode([x EXCEPT !.parent = v]) /\ IsNode([x EXCEPT !.terminators = v])
           /\ IsNode([x EXCEPT !.children = v]) /\ IsNode([x EXCEPT !.pending_count = v])
           /\ [x EXCEPT !.parent = v] = [edge |-> x.edge, parent |-> v, children |-> x.children,
                 pending_count |-> x.pending_count, terminators |-> x.terminators]
           /\ [x EXCEPT !.terminators = v] = [edge |-> x.edge, parent |-> x.parent,
                 children |-> x.children, pending_count |-> x.pending_count, terminators |-> v]
           /\ [x EXCEPT !.children = v] = [edge |-> x.edge, parent |-> x.parent,
                 children |-> v, pending_count |-> x.pending_count, terminators |-> x.terminators]
           /\ [x EXCEPT !.pending_count = v] = [edge |-> x.edge, parent |-> x.parent,
                 children |-> x.children, pending_count |-> v, terminators |-> x.terminators]
BY DEF IsNode

(* The two halves of a split, field by field.                              *)
Halves(x, z, n, o) ==
    /\ UpperHalf(x, z, o) = [edge |-> SubSeq(x.edge, 1, o), parent |-> x.parent,
          children |-> [k \in {x.edge[o + 1]} |-> z], pending_count |-> x.pending_count,
          terminators |-> {}]
    /\ LowerHalf(x, n, o) = [edge |-> DropTokens(x.edge, o), parent |-> n,
          children |-> x.children, pending_count |-> x.pending_count,
          terminators |-> x.terminators]

(* The two nodes split_edge makes out of one are those the source writes.  *)
LEMMA HalvesFacts ==
    ASSUME NEW x, IsNode(x), NEW z, NEW n, NEW o
    PROVE  Halves(x, z, n, o)
<1>1. PICK e, f, c : e = SubSeq(x.edge, 1, o) /\ f = DropTokens(x.edge, o)
                     /\ c = [k \in {x.edge[o + 1]} |-> z]
  BY Zenon
<1>2. UpperHalf(x, z, o) = [x EXCEPT !.edge = e, !.terminators = {}, !.children = c]
  BY <1>1, Zenon DEF UpperHalf
<1>3. LowerHalf(x, n, o) = [x EXCEPT !.edge = f, !.parent = n]
  BY <1>1, Zenon DEF LowerHalf
<1>4. UpperHalf(x, z, o) = [edge |-> e, parent |-> x.parent, children |-> c,
                            pending_count |-> x.pending_count, terminators |-> {}]
  BY <1>2 DEF IsNode
<1>5. LowerHalf(x, n, o) = [edge |-> f, parent |-> n, children |-> x.children,
                            pending_count |-> x.pending_count, terminators |-> x.terminators]
  BY <1>3 DEF IsNode
<1> QED
  BY <1>1, <1>4, <1>5, Zenon DEF Halves

(* What split_edge leaves behind, slot by slot.                            *)
SplitDone(t, L, n, o, z, s) ==
    /\ s = [nodes |-> s.nodes, free |-> FreeAfter(t)]
    /\ DOMAIN s.nodes = DOMAIN t.nodes \cup {z}
    /\ s.nodes[n] = UpperHalf(t.nodes[n], z, o)
    /\ s.nodes[z] = LowerHalf(t.nodes[n], n, o)
    /\ \A i \in L \ {n} : s.nodes[i] = IF i \in Range(t.nodes[n].children)
                                       THEN [t.nodes[i] EXCEPT !.parent = z] ELSE t.nodes[i]
    /\ \A i \in DOMAIN t.nodes \ (L \cup {z}) : s.nodes[i] = t.nodes[i]

(* split_edge (tree.rs), read off its definition, leaves exactly that.     *)
LEMMA SplitEffect ==
    ASSUME NEW t, NEW L, NEW P, Links(t.nodes, L, P), Arena(t, L), NEW n \in L, n # ROOT, NEW o \in Nat,
           NEW z, z = NextId(t), NEW s, s = SplitEdge(t, n, o)
    PROVE  SplitDone(t, L, n, o, z, s)
<1>1. PICK N, x, a, kids, moved :
         /\ N = t.nodes /\ x = t.nodes[n] /\ a = Alloc(t, DropTokens(x.edge, o), n)
         /\ kids = Range(x.children) /\ moved = Reparent(a.nodes, kids, z)
  BY Zenon
<1>2. s = [nodes |-> Put(Put(moved, n, UpperHalf(x, z, o)), z, LowerHalf(x, n, o)), free |-> a.free]
  BY <1>1, Zenon DEF SplitEdge
<1>3. a.free = FreeAfter(t) /\ a.nodes = Put(N, z, NewNode(DropTokens(x.edge, o), n))
  BY <1>1 DEF Alloc, FreeAfter
<1>4. z \notin L /\ L \subseteq DOMAIN N
  BY <1>1, NextIdFacts DEF Links
<1>5. DOMAIN a.nodes = DOMAIN N \cup {z} /\ \A i \in DOMAIN N \ {z} : a.nodes[i] = N[i]
  BY <1>3 DEF Put
<1>6. /\ DOMAIN moved = DOMAIN N \cup {z}
      /\ \A i \in DOMAIN N \ {z} :
            moved[i] = IF i \in kids THEN [N[i] EXCEPT !.parent = z] ELSE N[i]
  BY <1>1, <1>5 DEF Reparent
<1>7. PICK y : y = Put(moved, n, UpperHalf(x, z, o))
  BY Zenon
<1>8. /\ DOMAIN y = DOMAIN N \cup {z} /\ y[n] = UpperHalf(x, z, o)
      /\ \A i \in (DOMAIN N \cup {z}) \ {n} : y[i] = moved[i]
  BY <1>4, <1>6, <1>7 DEF Put
<1>9. s.nodes = Put(y, z, LowerHalf(x, n, o)) /\ s = [nodes |-> s.nodes, free |-> a.free]
  BY <1>2, <1>7
<1>10. /\ DOMAIN s.nodes = DOMAIN N \cup {z} /\ s.nodes[z] = LowerHalf(x, n, o)
       /\ \A i \in DOMAIN N \ {z} : s.nodes[i] = y[i]
  BY <1>8, <1>9 DEF Put
<1>11. s.nodes[n] = UpperHalf(x, z, o)
  BY <1>4, <1>8, <1>10
<1>12. \A i \in DOMAIN N \ {z, n} : s.nodes[i] = IF i \in kids THEN [N[i] EXCEPT !.parent = z] ELSE N[i]
  BY <1>6, <1>8, <1>10
<1>13. kids \subseteq L
  <2>1. DownLinks(N, L, n)
    BY <1>1 DEF Links
  <2> QED
    BY <1>1, <2>1 DEF DownLinks, Range
<1>14. \A i \in L \ {n} : i \in DOMAIN N \ {z, n}
  BY <1>4
<1>15. \A i \in DOMAIN N \ (L \cup {z}) : i \in DOMAIN N \ {z, n} /\ i \notin kids
  BY <1>13
<1> QED
  BY <1>1, <1>3, <1>9, <1>10, <1>11, <1>12, <1>14, <1>15 DEF SplitDone

(* Requests below a point inside an edge are below the edge's slot.        *)
LEMMA UnderInside ==
    ASSUME NEW t, NEW L, NEW P, NEW m, Holds(t, L, P, m), NEW n \in L, n # ROOT,
           NEW h \in Seq(Nat), Pre(h, P[n]), Len(P[t.nodes[n].parent]) < Len(h)
    PROVE  Under(m, h) = Under(m, P[n])
<1>1. PICK N, u : N = t.nodes /\ u = N[n].parent
  BY Zenon
<1>2. Links(N, L, P) /\ Content(N, L, P, m)
  BY <1>1 DEF Holds
<1>3. u \in L /\ P[n] \in Seq(Nat) /\ P[u] \in Seq(Nat) /\ Pre(P[u], P[n]) /\ Len(P[u]) < Len(h)
  BY <1>1, <1>2, UpFacts
<1>4. Len(P[u]) \in Nat /\ Len(P[n]) \in Nat /\ Len(h) \in Nat
  BY <1>3
<1>5. ASSUME NEW r \in DOMAIN m, Pre(h, m[r]) PROVE Pre(P[n], m[r])
  <2>1. PICK c \in L : P[c] = m[r]
    BY <1>2 DEF Content
  <2>2. Len(P[c]) \in Nat
    BY <1>2, PathFacts
  <2>3. Len(h) <= Len(P[c]) /\ \A i \in 1..Len(h) : h[i] = P[c][i]
    BY <1>5, <2>1 DEF Pre
  <2>4. \A i \in 1..Len(h) : h[i] = P[n][i]
    BY DEF Pre
  <2>5. \A i \in 1..(Len(P[u]) + 1) : i \in 1..Len(h)
    BY <1>3, <1>4
  <2>6. Len(P[u]) < Len(P[c])
    BY <1>3, <1>4, <2>2, <2>3
  <2>7. \A i \in 1..(Len(P[u]) + 1) : P[c][i] = P[n][i]
    BY <2>3, <2>4, <2>5
  <2>8. MeetsAt(N, P, n, c)
    BY <1>1, <2>6, <2>7 DEF MeetsAt
  <2> QED
    BY <1>2, <2>1, <2>8, Branches
<1>6. ASSUME NEW r \in DOMAIN m, Pre(P[n], m[r]) PROVE Pre(h, m[r])
  <2>1. PICK c \in L : P[c] = m[r]
    BY <1>2 DEF Content
  <2>2. Len(P[c]) \in Nat
    BY <1>2, PathFacts
  <2>3. Len(P[n]) <= Len(m[r]) /\ (\A i \in 1..Len(P[n]) : P[n][i] = m[r][i]) /\ Len(m[r]) \in Nat
    BY <1>6, <2>1, <2>2 DEF Pre
  <2>4. Len(h) <= Len(P[n]) /\ \A i \in 1..Len(h) : h[i] = P[n][i]
    BY DEF Pre
  <2>5. \A i \in 1..Len(h) : i \in 1..Len(P[n])
    BY <1>4, <2>4
  <2>6. Len(h) <= Len(m[r])
    BY <1>4, <2>3, <2>4
  <2> QED
    BY <2>3, <2>4, <2>5, <2>6 DEF Pre
<1> QED
  BY <1>5, <1>6 DEF Under

(* split_edge keeps what the tree says of the map, and leaves the upper    *)
(* half without a terminator and with one child: the only slot that may    *)
(* break the compression until insert comes back to it.                    *)
LEMMA SplitHolds ==
    ASSUME NEW t, NEW L, NEW P, NEW m, Holds(t, L, P, m), NEW n \in L, n # ROOT, NEW o \in Nat,
           0 < o, o < Len(t.nodes[n].edge), NEW z, z = NextId(t), NEW s, s = SplitEdge(t, n, o)
    PROVE  /\ z \notin L /\ Holds(s, L \cup {z}, SplitPath(t.nodes, L, P, n, z, o), m)
           /\ SplitLinks(t.nodes, L, s.nodes, n, z, o)
           /\ s.nodes[n].terminators = {}
           /\ Compact(t.nodes, L, ROOT) => Compact(s.nodes, L \cup {z}, n)
<1>1. PICK N, M, x, u, J, Q :
         /\ N = t.nodes /\ M = s.nodes /\ x = N[n] /\ u = x.parent /\ J = L \cup {z}
         /\ Q = SplitPath(N, L, P, n, z, o)
  BY Zenon
<1>2. Links(N, L, P) /\ Arena(t, L) /\ Content(N, L, P, m)
  BY <1>1 DEF Holds
<1>3. /\ s = [nodes |-> M, free |-> FreeAfter(t)] /\ DOMAIN M = DOMAIN N \cup {z}
      /\ M[n] = UpperHalf(x, z, o) /\ M[z] = LowerHalf(x, n, o)
      /\ \A i \in L \ {n} : M[i] = IF i \in Range(x.children) THEN [N[i] EXCEPT !.parent = z] ELSE N[i]
      /\ \A i \in DOMAIN N \ (L \cup {z}) : M[i] = N[i]
  <2>1. Links(t.nodes, L, P)
    BY <1>1, <1>2
  <2>2. SplitDone(t, L, n, o, z, s)
    BY <1>2, <2>1, SplitEffect, Zenon
  <2> QED
    BY <1>1, <2>2 DEF SplitDone
<1>4. z \notin L /\ z # ROOT
  BY <1>2, NextIdFacts
<1>5. \A i \in L : IsNode(N[i])
  BY <1>1, <1>2 DEF Arena
<1>6. /\ M[n] = [edge |-> SubSeq(x.edge, 1, o), parent |-> x.parent,
                 children |-> [k \in {x.edge[o + 1]} |-> z], pending_count |-> x.pending_count,
                 terminators |-> {}]
      /\ M[z] = [edge |-> DropTokens(x.edge, o), parent |-> n, children |-> x.children,
                 pending_count |-> x.pending_count, terminators |-> x.terminators]
  <2>1. IsNode(x)
    BY <1>1, <1>5
  <2>2. Halves(x, z, n, o)
    BY <2>1, HalvesFacts
  <2> QED
    BY <1>3, <2>2, Zenon DEF Halves
<1>7. /\ M[n].edge = SubSeq(x.edge, 1, o) /\ M[n].parent = x.parent
       /\ M[n].children = [k \in {x.edge[o + 1]} |-> z] /\ M[n].pending_count = x.pending_count
       /\ M[n].terminators = {}
       /\ M[z].edge = DropTokens(x.edge, o) /\ M[z].parent = n /\ M[z].children = x.children
       /\ M[z].pending_count = x.pending_count /\ M[z].terminators = x.terminators
       /\ IsNode(M[n]) /\ IsNode(M[z])
  BY <1>6 DEF IsNode
<1>8. ASSUME NEW i \in L, i # n
      PROVE  M[i] = [edge |-> N[i].edge,
                     parent |-> IF i \in Range(x.children) THEN z ELSE N[i].parent,
                     children |-> N[i].children, pending_count |-> N[i].pending_count,
                     terminators |-> N[i].terminators]
  <2>1. IsNode(N[i])
    BY <1>5
  <2>2. CASE i \in Range(x.children)
    <3>1. M[i] = [N[i] EXCEPT !.parent = z]
      BY <1>3, <1>8, <2>2
    <3>2. [N[i] EXCEPT !.parent = z] =
             [edge |-> N[i].edge, parent |-> z, children |-> N[i].children,
              pending_count |-> N[i].pending_count, terminators |-> N[i].terminators]
      BY <2>1, NodeChange
    <3> QED
      BY <2>2, <3>1, <3>2
  <2>3. CASE i \notin Range(x.children)
    <3>1. M[i] = N[i]
      BY <1>3, <1>8, <2>3
    <3> QED
      BY <2>1, <2>3, <3>1 DEF IsNode
  <2> QED
    BY <2>2, <2>3
<1>9. ASSUME NEW i \in L, i # n
      PROVE  /\ M[i].edge = N[i].edge /\ M[i].children = N[i].children
             /\ M[i].parent = IF i \in Range(x.children) THEN z ELSE N[i].parent
             /\ M[i].pending_count = N[i].pending_count /\ M[i].terminators = N[i].terminators
             /\ IsNode(M[i])
  <2>1. PICK u1 : u1 = IF i \in Range(x.children) THEN z ELSE N[i].parent
    BY Zenon
  <2>2. M[i] = [edge |-> N[i].edge, parent |-> u1,
                     children |-> N[i].children, pending_count |-> N[i].pending_count,
                     terminators |-> N[i].terminators]
    BY <1>9, <1>8, <2>1, Zenon
  <2> QED
    BY <2>1, <2>2 DEF IsNode
<1>10. SplitLinks(N, L, M, n, z, o)
  <2>1. L \cup {z} \subseteq DOMAIN M
    BY <1>2, <1>3 DEF Links
  <2> QED
    BY <1>1, <1>7, <1>9, <2>1 DEF SplitLinks
<1>11. Links(M, J, Q)
  BY <1>1, <1>2, <1>4, <1>10, SplitKeepsLinks
<1>12. \A i \in J : IsNode(M[i])
  BY <1>1, <1>7, <1>9
<1>13. Arena(s, J)
  <2>1. s = [nodes |-> s.nodes, free |-> FreeAfter(t)] /\ DOMAIN s.nodes = DOMAIN t.nodes \cup {z}
    BY <1>1, <1>3
  <2>2. /\ \A i \in L \cup {z} : IsNode(s.nodes[i])
        /\ \A i \in DOMAIN t.nodes \ (L \cup {z}) : s.nodes[i] = t.nodes[i]
    BY <1>1, <1>3, <1>12
  <2> QED
    BY <1>1, <1>2, <2>1, <2>2, AllocArena
<1>14. PICK h : h = Cut(P[n], P[u], o)
  BY Zenon
<1>15. Q[n] = h /\ Q[z] = P[n] /\ \A i \in L \ {n} : Q[i] = P[i]
  BY <1>1, <1>4, <1>14 DEF SplitPath
<1>16. u \in L /\ P[u] \in Seq(Nat) /\ P[n] \in Seq(Nat) /\ Len(P[u]) \in Nat /\ Len(P[n]) \in Nat
  BY <1>1, <1>2, UpFacts, PathFacts
<1>17. h \in Seq(Nat) /\ Len(h) = Len(P[u]) + o /\ Pre(h, P[n]) /\ Len(h) < Len(P[n])
  <2>1. PICK e, p, q : e = x.edge /\ p = P[u] /\ q = P[n]
    BY Zenon
  <2>2. e \in Seq(Nat) /\ Joined(q, p, e) /\ Len(e) \in Nat
    BY <1>1, <1>2, <2>1 DEF Links, UpLink
  <2>3. o \in 0..Len(e) /\ o < Len(e)
    BY <1>1, <2>1, <2>2
  <2>4. h = Cut(q, p, o) /\ q \in Seq(Nat) /\ p \in Seq(Nat)
    BY <1>14, <1>16, <2>1
  <2>5. h \in Seq(Nat) /\ Len(h) = Len(p) + o /\ Pre(h, q)
    BY <2>2, <2>3, <2>4, JoinedCut
  <2>6. Len(q) = Len(p) + Len(e)
    BY <2>2, Zenon DEF Joined
  <2>7. Len(h) < Len(q)
    <3>1. PICK lp, le, lh, lq : lp = Len(p) /\ le = Len(e) /\ lh = Len(h) /\ lq = Len(q)
      BY Zenon
    <3>2. lp \in Nat /\ le \in Nat /\ o < le /\ lh = lp + o /\ lq = lp + le
      BY <1>16, <2>1, <2>2, <2>3, <2>5, <2>6, <3>1
    <3>3. lh < lq
      BY <3>2
    <3> QED
      BY <3>1, <3>3
  <2> QED
    BY <2>1, <2>5, <2>7
<1>18. Under(m, h) = Under(m, P[n])
  <2>1. Len(P[u]) < Len(h)
    BY <1>16, <1>17
  <2> QED
    BY <1>1, <1>16, <1>17, <2>1, UnderInside
<1>19. \A r \in DOMAIN m : m[r] # h
  <2> SUFFICES ASSUME NEW r \in DOMAIN m, m[r] = h PROVE FALSE
    OBVIOUS
  <2>1. Pre(h, m[r])
    BY <1>17 DEF Pre
  <2>2. Pre(P[n], h)
    BY <1>18, <2>1 DEF Under
  <2> QED
    BY <1>16, <1>17, <2>2 DEF Pre
<1>20. Content(M, J, Q, m)
  <2>1. ASSUME NEW i \in J PROVE M[i].terminators = {r \in DOMAIN m : m[r] = Q[i]}
    <3>1. CASE i = n
      BY <1>7, <1>15, <1>19, <3>1
    <3>2. CASE i = z
      <4>1. M[i].terminators = x.terminators /\ Q[i] = P[n]
        BY <1>7, <1>15, <3>2
      <4> QED
        BY <1>1, <1>2, <4>1 DEF Content
    <3>3. CASE i # n /\ i # z
      <4>1. i \in L /\ M[i].terminators = N[i].terminators /\ Q[i] = P[i]
        BY <1>1, <1>9, <1>15, <3>3
      <4> QED
        BY <1>2, <4>1 DEF Content
    <3> QED
      BY <3>1, <3>2, <3>3
  <2>2. ASSUME NEW i \in J, i # ROOT PROVE M[i].pending_count = Cardinality(Under(m, Q[i]))
    <3>1. N[n].pending_count = Cardinality(Under(m, P[n]))
      BY <1>2 DEF Content
    <3>2. CASE i = n
      BY <1>1, <1>7, <1>15, <1>18, <3>1, <3>2
    <3>3. CASE i = z
      BY <1>1, <1>7, <1>15, <3>1, <3>3
    <3>4. CASE i # n /\ i # z
      <4>1. i \in L /\ M[i].pending_count = N[i].pending_count /\ Q[i] = P[i]
        BY <1>1, <1>9, <1>15, <3>4
      <4> QED
        BY <1>2, <2>2, <4>1 DEF Content
    <3> QED
      BY <3>2, <3>3, <3>4
  <2>3. ASSUME NEW r \in DOMAIN m PROVE \E i \in J : Q[i] = m[r]
    <3>1. PICK i \in L : P[i] = m[r]
      BY <1>2 DEF Content
    <3>2. CASE i = n
      BY <1>1, <1>15, <3>1, <3>2
    <3>3. CASE i # n
      BY <1>1, <1>15, <3>1, <3>3
    <3> QED
      BY <3>2, <3>3
  <2>4. IsFiniteSet(DOMAIN m) /\ M[ROOT].pending_count \in Nat
    <3>1. ROOT \in L /\ M[ROOT].pending_count = N[ROOT].pending_count
      BY <1>2, <1>9 DEF Links
    <3> QED
      BY <1>2, <3>1 DEF Content
  <2> QED
    BY <2>1, <2>2, <2>3, <2>4 DEF Content
<1>21. ASSUME Compact(N, L, ROOT) PROVE Compact(M, J, n)
  <2> SUFFICES ASSUME NEW i \in J, i # ROOT, i # n PROVE Branching(M[i])
    BY DEF Compact
  <2>1. CASE i = z
    <3>1. Branching(x)
      BY <1>1, <1>21 DEF Compact
    <3>2. M[i].terminators = x.terminators /\ M[i].children = x.children
      BY <1>7, <2>1
    <3> QED
      BY <3>1, <3>2 DEF Branching
  <2>2. CASE i # z
    <3>1. i \in L /\ i # n
      BY <1>1, <2>2
    <3>2. Branching(N[i])
      BY <1>21, <3>1 DEF Compact
    <3>3. M[i].terminators = N[i].terminators /\ M[i].children = N[i].children
      BY <1>9, <3>1
    <3> QED
      BY <3>2, <3>3 DEF Branching
  <2> QED
    BY <2>1, <2>2
<1>22. s.nodes[n].terminators = {}
  BY <1>1, <1>7
<1> QED
  BY <1>1, <1>4, <1>10, <1>11, <1>13, <1>20, <1>21, <1>22 DEF Holds

(* What hanging a new leaf under n leaves behind, slot by slot.            *)
HangDone(t, n, f, z, s) ==
    /\ s = [nodes |-> s.nodes, free |-> FreeAfter(t)]
    /\ DOMAIN s.nodes = DOMAIN t.nodes \cup {z}
    /\ s.nodes[z] = NewNode(f, n)
    /\ s.nodes[n] = [t.nodes[n] EXCEPT !.children = Put(t.nodes[n].children, Head(f), z)]
    /\ \A i \in DOMAIN t.nodes \ {n, z} : s.nodes[i] = t.nodes[i]

(* What insert does to the arena when it hangs a leaf (tree.rs 205-214):   *)
(* one new slot, one new child link.                                       *)
LEMMA HangEffect ==
    ASSUME NEW t, NEW L, Arena(t, L), NEW n \in L, NEW f,
           NEW z, z = NextId(t), NEW s, s = Hang(t, n, f)
    PROVE  HangDone(t, n, f, z, s)
<1>1. PICK N, a : N = t.nodes /\ a = Alloc(t, f, n)
  BY Zenon
<1>2. z \notin L /\ n \in DOMAIN N /\ z # n
  BY <1>1, NextIdFacts DEF Arena
<1>3. a = [nodes |-> Put(N, z, NewNode(f, n)), free |-> FreeAfter(t)]
  BY <1>1 DEF Alloc, FreeAfter
<1>4. a.free = FreeAfter(t) /\ a.nodes = Put(N, z, NewNode(f, n))
  BY <1>3
<1>5. /\ DOMAIN a.nodes = DOMAIN N \cup {z} /\ a.nodes[z] = NewNode(f, n)
      /\ \A i \in DOMAIN N \ {z} : a.nodes[i] = N[i]
  BY <1>4 DEF Put
<1>6. PICK y : y = [a.nodes[n] EXCEPT !.children = Put(@, Head(f), z)]
  BY Zenon
<1>7. y = [N[n] EXCEPT !.children = Put(N[n].children, Head(f), z)]
  BY <1>2, <1>5, <1>6
<1>8. s = [a EXCEPT !.nodes = Put(a.nodes, n, y)]
  BY <1>1, <1>6, Zenon DEF Hang
<1>9. s = [nodes |-> Put(a.nodes, n, y), free |-> FreeAfter(t)]
  BY <1>3, <1>4, <1>8
<1>10. s.nodes = Put(a.nodes, n, y) /\ s = [nodes |-> s.nodes, free |-> FreeAfter(t)]
  BY <1>9
<1>11. /\ DOMAIN s.nodes = DOMAIN N \cup {z} /\ s.nodes[n] = y
       /\ \A i \in (DOMAIN N \cup {z}) \ {n} : s.nodes[i] = a.nodes[i]
  BY <1>2, <1>5, <1>10 DEF Put
<1> QED
  BY <1>1, <1>2, <1>5, <1>7, <1>10, <1>11 DEF HangDone

(* A new leaf keeps what the tree holds: no request goes on into it.       *)
LEMMA HangHolds ==
    ASSUME NEW t, NEW L, NEW P, NEW m, Holds(t, L, P, m), NEW n \in L,
           NEW f \in Seq(Nat), f # <<>>, Head(f) \notin DOMAIN t.nodes[n].children,
           NEW q \in Seq(Nat), Joined(q, P[n], f),
           NEW z, z = NextId(t), NEW s, s = Hang(t, n, f)
    PROVE  /\ z \notin L /\ Holds(s, L \cup {z}, HangPath(L, P, z, q), m)
           /\ Compact(t.nodes, L, ROOT) => Compact(s.nodes, L \cup {z}, z)
           /\ Compact(t.nodes, L, n) /\ DOMAIN t.nodes[n].children # {}
                 => Compact(s.nodes, L \cup {z}, z)
<1>1. PICK N, M, J, Q : N = t.nodes /\ M = s.nodes /\ J = L \cup {z} /\ Q = HangPath(L, P, z, q)
  BY Zenon
<1>2. Links(N, L, P) /\ Arena(t, L) /\ Content(N, L, P, m)
  BY <1>1 DEF Holds
<1>3. HangDone(t, n, f, z, s)
  BY <1>2, HangEffect
<1>4. z \notin L /\ z # ROOT /\ L \subseteq DOMAIN N
  BY <1>1, <1>2, NextIdFacts DEF Arena
<1>5. Head(f) = f[1]
  OBVIOUS
<1>6. /\ M[z] = NewNode(f, n) /\ DOMAIN M = DOMAIN N \cup {z}
      /\ M[n] = [N[n] EXCEPT !.children = Put(N[n].children, f[1], z)]
      /\ \A i \in DOMAIN N \ {n, z} : M[i] = N[i]
  BY <1>1, <1>3, <1>5, Zenon DEF HangDone
<1>7. \A i \in L : IsNode(N[i])
  BY <1>1, <1>2 DEF Arena
<1>8. /\ M[z].edge = f /\ M[z].parent = n /\ DOMAIN M[z].children = {}
      /\ M[z].pending_count = 0 /\ M[z].terminators = {} /\ IsNode(M[z])
  BY <1>6 DEF NewNode, IsNode
<1>9. /\ M[n].edge = N[n].edge /\ M[n].parent = N[n].parent
      /\ M[n].children = Put(N[n].children, f[1], z)
      /\ M[n].pending_count = N[n].pending_count /\ M[n].terminators = N[n].terminators
      /\ IsNode(M[n])
  <2>1. PICK x, v : x = N[n] /\ v = Put(N[n].children, f[1], z)
    BY Zenon
  <2>2. IsNode(x) /\ M[n] = [x EXCEPT !.children = v]
    BY <1>6, <1>7, <2>1
  <2>3. M[n] = [edge |-> x.edge, parent |-> x.parent, children |-> v,
                pending_count |-> x.pending_count, terminators |-> x.terminators]
    BY <2>2, NodeChange
  <2>4. /\ M[n].edge = x.edge /\ M[n].parent = x.parent /\ M[n].children = v
        /\ M[n].pending_count = x.pending_count /\ M[n].terminators = x.terminators
        /\ IsNode(M[n])
    BY <2>3 DEF IsNode
  <2> QED
    BY <2>1, <2>4, Zenon
<1>10. \A i \in L \ {n} : M[i] = N[i]
  BY <1>4, <1>6
<1>11. Links(M, J, Q)
  <2>1. HangLinks(N, L, M, n, z, f)
    BY <1>4, <1>6, <1>8, <1>9, <1>10 DEF HangLinks, SameLinks
  <2>2. f[1] \notin DOMAIN N[n].children
    BY <1>1, <1>5
  <2> QED
    BY <1>1, <1>2, <1>4, <2>1, <2>2, HangKeepsLinks
<1>12. Arena(s, J)
  <2>1. s = [nodes |-> s.nodes, free |-> FreeAfter(t)] /\ DOMAIN s.nodes = DOMAIN t.nodes \cup {z}
    BY <1>3, Zenon DEF HangDone
  <2>2. \A i \in L \cup {z} : IsNode(s.nodes[i])
    BY <1>1, <1>7, <1>8, <1>9, <1>10
  <2>3. \A i \in DOMAIN t.nodes \ (L \cup {z}) : s.nodes[i] = t.nodes[i]
    BY <1>1, <1>6
  <2> QED
    BY <1>1, <1>2, <2>1, <2>2, <2>3, AllocArena
<1>13. Q[z] = q /\ \A i \in L : Q[i] = P[i]
  BY <1>1, <1>4 DEF HangPath
<1>14. Under(m, q) = {}
  <2> SUFFICES ASSUME NEW r \in DOMAIN m, Pre(q, m[r]) PROVE FALSE
    BY DEF Under
  <2>1. PICK c \in L : P[c] = m[r]
    BY <1>2 DEF Content
  <2>2. PICK p, k, l : p = P[n] /\ k = Len(p) /\ l = Len(P[c])
    BY Zenon
  <2>3. p \in Seq(Nat) /\ k \in Nat /\ l \in Nat /\ P[c] \in Seq(Nat)
    BY <1>2, <2>2, PathFacts
  <2>4. PICK j : j = Len(f)
    BY Zenon
  <2>5. j \in Nat /\ j > 0
    BY <2>4
  <2>6. /\ Len(q) = k + j /\ (\A i \in 1..k : q[i] = p[i]) /\ q[k + 1] = f[1]
    <3>1. Len(q) = k + j /\ (\A i \in 1..k : q[i] = p[i]) /\ \A i \in 1..j : q[k + i] = f[i]
      BY <2>2, <2>4, Zenon DEF Joined
    <3>2. 1 \in 1..j
      BY <2>5
    <3> QED
      BY <3>1, <3>2
  <2>7. k + j <= l /\ \A i \in 1..(k + j) : q[i] = P[c][i]
    BY <2>1, <2>2, <2>6, Zenon DEF Pre
  <2>8. k + 1 \in 1..(k + j) /\ k < l /\ k <= l /\ \A i \in 1..k : i \in 1..(k + j)
    BY <2>3, <2>5, <2>7
  <2>9. P[c][k + 1] = f[1] /\ \A i \in 1..k : p[i] = P[c][i]
    BY <2>6, <2>7, <2>8
  <2>10. Pre(p, P[c])
    BY <2>2, <2>8, <2>9 DEF Pre
  <2>11. n # c
    BY <2>2, <2>3, <2>8
  <2>12. PICK b \in L \ {ROOT} : N[b].parent = n /\ Pre(P[b], P[c])
    <3>1. Pre(P[n], P[c])
      BY <2>2, <2>10
    <3> QED
      BY <1>2, <2>11, <3>1, ChildOnWay
  <2>13. /\ Len(P[n]) < Len(P[b]) /\ P[b][Len(P[n]) + 1] = N[b].edge[1]
         /\ N[b].edge[1] \in DOMAIN N[n].children
    <3>1. /\ Len(P[N[b].parent]) < Len(P[b])
          /\ P[b][Len(P[N[b].parent]) + 1] = N[b].edge[1]
      <4>1. b \in L /\ b # ROOT
        BY <2>12
      <4> QED
        BY <1>2, <4>1, UpFacts
    <3>2. UpLink(N, L, P, b)
      BY <1>2, <2>12 DEF Links
    <3>3. N[b].edge[1] \in DOMAIN N[N[b].parent].children
      BY <3>2, Zenon DEF UpLink
    <3> QED
      BY <2>12, <3>1, <3>3
  <2>14. PICK g : g = Len(P[b])
    BY Zenon
  <2>15. g \in Nat /\ k < g
    BY <1>2, <2>2, <2>12, <2>13, <2>14, PathFacts
  <2>16. k + 1 \in 1..g
    BY <2>3, <2>15
  <2>17. P[b][k + 1] = P[c][k + 1]
    BY <2>12, <2>14, <2>16 DEF Pre
  <2> QED
    BY <1>1, <1>5, <2>2, <2>9, <2>13, <2>17
<1>15. Content(M, J, Q, m)
  <2>1. \A i \in J : M[i].terminators = {r \in DOMAIN m : m[r] = Q[i]}
    <3>1. {r \in DOMAIN m : m[r] = q} = {}
      <4>1. \A r \in DOMAIN m : m[r] = q => Pre(q, m[r])
        BY DEF Pre
      <4> QED
        BY <1>14, <4>1 DEF Under
    <3>2. M[z].terminators = {r \in DOMAIN m : m[r] = Q[z]}
      BY <1>8, <1>13, <3>1
    <3>3. \A i \in L : M[i].terminators = N[i].terminators
      BY <1>9, <1>10
    <3>4. \A i \in L : M[i].terminators = {r \in DOMAIN m : m[r] = Q[i]}
      BY <1>2, <1>13, <3>3 DEF Content
    <3> QED
      BY <1>1, <3>2, <3>4
  <2>2. \A i \in J \ {ROOT} : M[i].pending_count = Cardinality(Under(m, Q[i]))
    <3>1. M[z].pending_count = Cardinality(Under(m, Q[z]))
      BY <1>8, <1>13, <1>14, FS_EmptySet
    <3>2. \A i \in L : M[i].pending_count = N[i].pending_count
      BY <1>9, <1>10
    <3>3. \A i \in L \ {ROOT} : M[i].pending_count = Cardinality(Under(m, Q[i]))
      BY <1>2, <1>13, <3>2 DEF Content
    <3> QED
      BY <1>1, <3>1, <3>3
  <2>3. ASSUME NEW r \in DOMAIN m PROVE \E i \in J : Q[i] = m[r]
    <3>1. PICK i \in L : P[i] = m[r]
      BY <1>2 DEF Content
    <3> QED
      BY <1>1, <1>13, <3>1
  <2>4. IsFiniteSet(DOMAIN m) /\ M[ROOT].pending_count \in Nat
    <3>1. ROOT \in L
      BY <1>2 DEF Links
    <3>2. M[ROOT].pending_count = N[ROOT].pending_count
      BY <1>9, <1>10, <3>1
    <3> QED
      BY <1>2, <3>2 DEF Content
  <2> QED
    BY <2>1, <2>2, <2>3, <2>4 DEF Content
<1>16. ASSUME NEW i \in L \ {n}, Branching(N[i]) PROVE Branching(M[i])
  BY <1>10, <1>16
<1>17. ASSUME Branching(N[n]) \/ DOMAIN N[n].children # {} PROVE Branching(M[n])
  <2>1. DOMAIN M[n].children = DOMAIN N[n].children \cup {f[1]} /\ f[1] \notin DOMAIN N[n].children
    BY <1>1, <1>5, <1>9 DEF Put
  <2>2. CASE N[n].terminators # {}
    BY <1>9, <2>2 DEF Branching
  <2>3. CASE DOMAIN N[n].children # {}
    BY <2>1, <2>3 DEF Branching
  <2> QED
    BY <1>17, <2>2, <2>3 DEF Branching
<1>18. Compact(N, L, ROOT) => Compact(M, J, z)
  BY <1>1, <1>16, <1>17 DEF Compact
<1>19. Compact(N, L, n) /\ DOMAIN N[n].children # {} => Compact(M, J, z)
  BY <1>1, <1>16, <1>17 DEF Compact
<1> QED
  BY <1>1, <1>4, <1>11, <1>12, <1>15, <1>18, <1>19 DEF Holds

-----------------------------------------------------------------------------
(* Insertion: marking a terminator and counting along the climb.           *)

(* The map g has one request more below p than the map m if p begins q.    *)
OneMore(m, g, p, q) ==
    /\ Cardinality(Under(m, p)) \in Nat
    /\ Cardinality(Under(g, p)) = Cardinality(Under(m, p)) + (IF Pre(p, q) THEN 1 ELSE 0)

(* What the map says of a path after a request with the tokens q came.     *)
LEMMA MapPlus ==
    ASSUME NEW m, IsFiniteSet(DOMAIN m), NEW rid, rid \notin DOMAIN m, NEW q, NEW g,
           g = Put(m, rid, q), NEW p
    PROVE  /\ DOMAIN g = DOMAIN m \cup {rid} /\ IsFiniteSet(DOMAIN g)
           /\ g[rid] = q /\ \A r \in DOMAIN m : g[r] = m[r]
           /\ OneMore(m, g, p, q)
<1>1. DOMAIN g = DOMAIN m \cup {rid} /\ g[rid] = q /\ \A r \in DOMAIN m : g[r] = m[r]
  BY DEF Put
<1>2. IsFiniteSet(DOMAIN g)
  BY <1>1, FS_AddElement
<1>3. PICK A, B : A = Under(m, p) /\ B = Under(g, p)
  BY Zenon
<1>4. IsFiniteSet(A) /\ Cardinality(A) \in Nat
  <2>1. A \subseteq DOMAIN m
    BY <1>3 DEF Under
  <2> QED
    BY <2>1, FS_Subset, FS_CardinalityType
<1>5. rid \notin A
  BY <1>3 DEF Under
<1>6. CASE Pre(p, q)
  <2>1. B = A \cup {rid}
    BY <1>1, <1>3, <1>6 DEF Under
  <2>2. Cardinality(B) = Cardinality(A) + 1
    BY <1>4, <1>5, <2>1, FS_AddElement
  <2> QED
    BY <1>1, <1>2, <1>3, <1>4, <1>6, <2>2 DEF OneMore
<1>7. CASE ~Pre(p, q)
  <2>1. B = A
    BY <1>1, <1>3, <1>7 DEF Under
  <2> QED
    BY <1>1, <1>2, <1>3, <1>4, <1>7, <2>1 DEF OneMore
<1> QED
  BY <1>6, <1>7

(* What the map says of a path after the request rid is gone.              *)
LEMMA MapMinus ==
    ASSUME NEW m, IsFiniteSet(DOMAIN m), NEW rid \in DOMAIN m, NEW g,
           g = Restrict(m, DOMAIN m \ {rid}), NEW p
    PROVE  /\ DOMAIN g = DOMAIN m \ {rid} /\ IsFiniteSet(DOMAIN g)
           /\ \A r \in DOMAIN g : g[r] = m[r]
           /\ OneMore(g, m, p, m[rid])
<1>1. DOMAIN g = DOMAIN m \ {rid} /\ \A r \in DOMAIN g : g[r] = m[r]
  BY DEF Restrict
<1>2. IsFiniteSet(DOMAIN g)
  BY <1>1, FS_Subset
<1>3. PICK A, B : A = Under(g, p) /\ B = Under(m, p)
  BY Zenon
<1>4. IsFiniteSet(A) /\ Cardinality(A) \in Nat
  <2>1. A \subseteq DOMAIN g
    BY <1>3 DEF Under
  <2> QED
    BY <1>2, <2>1, FS_Subset, FS_CardinalityType
<1>5. rid \notin A
  BY <1>1, <1>3 DEF Under
<1>6. CASE Pre(p, m[rid])
  <2>1. B = A \cup {rid}
    BY <1>1, <1>3, <1>6 DEF Under
  <2>2. Cardinality(B) = Cardinality(A) + 1
    BY <1>4, <1>5, <2>1, FS_AddElement
  <2>3. Cardinality(B) = Cardinality(A) + (IF Pre(p, m[rid]) THEN 1 ELSE 0)
    BY <1>6, <2>2
  <2> QED
    BY <1>1, <1>2, <1>3, <1>4, <2>3, Zenon DEF OneMore
<1>7. CASE ~Pre(p, m[rid])
  <2>1. B = A
    BY <1>1, <1>3, <1>7 DEF Under
  <2>2. Cardinality(B) = Cardinality(A) + (IF Pre(p, m[rid]) THEN 1 ELSE 0)
    BY <1>4, <1>7, <2>1
  <2> QED
    BY <1>1, <1>2, <1>3, <1>4, <2>2, Zenon DEF OneMore
<1> QED
  BY <1>6, <1>7

(* r is t with other counts and terminators.                               *)
Touched(t, L, r) ==
    /\ r = [nodes |-> r.nodes, free |-> t.free] /\ DOMAIN r.nodes = DOMAIN t.nodes
    /\ SameLinks(t.nodes, r.nodes, L)
    /\ \A i \in L : IsNode(r.nodes[i])
    /\ \A i \in DOMAIN t.nodes \ L : r.nodes[i] = t.nodes[i]

(* Counts and terminators may change: the links and the arena stay.        *)
LEMMA TouchKeeps ==
    ASSUME NEW t, NEW L, NEW P, Links(t.nodes, L, P), Arena(t, L), NEW r, Touched(t, L, r)
    PROVE  Links(r.nodes, L, P) /\ Arena(r, L)
<1>1. Links(r.nodes, L, P)
  <2>1. L \subseteq DOMAIN r.nodes /\ SameLinks(t.nodes, r.nodes, L)
    BY DEF Touched, Arena
  <2> QED
    BY <2>1, SameKeepsLinks
<1>2. Arena(r, L)
  BY SameArena DEF Touched
<1> QED
  BY <1>1, <1>2

(* The terminators of a slot are replaced.                                 *)
LEMMA TermEffect ==
    ASSUME NEW t, NEW L, Arena(t, L), NEW n \in L, NEW R, NEW r, r = SetTerminators(t, n, R)
    PROVE  /\ Touched(t, L, r) /\ r.nodes[n].terminators = R
           /\ \A i \in L : r.nodes[i].pending_count = t.nodes[i].pending_count
           /\ \A i \in L \ {n} : r.nodes[i].terminators = t.nodes[i].terminators
<1>1. PICK N, x, y : N = t.nodes /\ x = N[n] /\ y = [x EXCEPT !.terminators = R]
  BY Zenon
<1>2. r = [nodes |-> Put(N, n, y), free |-> t.free]
  <2>1. r = [t EXCEPT !.nodes = Put(N, n, y)]
    BY <1>1, Zenon DEF SetTerminators
  <2> QED
    BY <2>1 DEF Arena
<1>3. n \in DOMAIN N /\ L \subseteq DOMAIN N /\ \A i \in L : IsNode(N[i])
  BY <1>1 DEF Arena
<1>4. r.nodes = Put(N, n, y) /\ r = [nodes |-> r.nodes, free |-> t.free]
  BY <1>2
<1>5. DOMAIN r.nodes = DOMAIN N /\ r.nodes[n] = y /\ \A i \in DOMAIN N \ {n} : r.nodes[i] = N[i]
  BY <1>3, <1>4 DEF Put
<1>6. /\ y.edge = x.edge /\ y.parent = x.parent /\ y.children = x.children
      /\ y.pending_count = x.pending_count /\ y.terminators = R /\ IsNode(y)
  <2>1. IsNode(x)
    BY <1>1, <1>3
  <2>2. y = [edge |-> x.edge, parent |-> x.parent, children |-> x.children,
             pending_count |-> x.pending_count, terminators |-> R]
    BY <1>1, <2>1 DEF IsNode
  <2> QED
    BY <2>2 DEF IsNode
<1>7. Touched(t, L, r)
  BY <1>1, <1>3, <1>4, <1>5, <1>6 DEF Touched, SameLinks
<1> QED
  BY <1>1, <1>3, <1>5, <1>6, <1>7

(* r is t with the counts on the way from n to ROOT one up, or one down.   *)
Bumped(t, L, P, n, r) ==
    /\ Touched(t, L, r)
    /\ \A i \in L : r.nodes[i].terminators = t.nodes[i].terminators
    /\ \A i \in L : r.nodes[i].pending_count =
          IF i # ROOT /\ Pre(P[i], P[n]) THEN t.nodes[i].pending_count + 1
                                        ELSE t.nodes[i].pending_count

Dropped(t, L, P, n, r) ==
    /\ Touched(t, L, r)
    /\ \A i \in L : r.nodes[i].terminators = t.nodes[i].terminators
    /\ \A i \in L : r.nodes[i].pending_count =
          IF i # ROOT /\ Pre(P[i], P[n])
          THEN IF t.nodes[i].pending_count > 0 THEN t.nodes[i].pending_count - 1 ELSE 0
          ELSE t.nodes[i].pending_count

(* The counts on the way to ROOT grow by one, ...                          *)
LEMMA BumpEffect ==
    ASSUME NEW t, NEW L, NEW P, Links(t.nodes, L, P), Arena(t, L), NEW n \in L, NEW r, r = BumpPath(t, n)
    PROVE  Bumped(t, L, P, n, r)
<1>1. PICK N, way : N = t.nodes /\ way = PathToRoot(t, n)
  BY Zenon
<1>2. way = {i \in L \ {ROOT} : Pre(P[i], P[n])}
  BY <1>1, PathToRootFacts DEF Arena
<1>3. PICK M : M = [i \in DOMAIN N |-> IF i \in way THEN [N[i] EXCEPT !.pending_count = @ + 1] ELSE N[i]]
  BY Zenon
<1>4. r = [nodes |-> M, free |-> t.free]
  <2>1. r = [t EXCEPT !.nodes = M]
    BY <1>1, <1>3, Zenon DEF BumpPath
  <2> QED
    BY <2>1 DEF Arena
<1>5. r.nodes = M /\ r = [nodes |-> r.nodes, free |-> t.free]
  BY <1>4
<1>6. L \subseteq DOMAIN N /\ \A i \in L : IsNode(N[i])
  BY <1>1 DEF Arena
<1>7. DOMAIN M = DOMAIN N /\ \A i \in DOMAIN N \ L : M[i] = N[i]
  BY <1>2, <1>3
<1>8. ASSUME NEW i \in L
      PROVE  /\ M[i].edge = N[i].edge /\ M[i].parent = N[i].parent
             /\ M[i].children = N[i].children /\ M[i].terminators = N[i].terminators
             /\ IsNode(M[i])
             /\ M[i].pending_count = IF i \in way THEN N[i].pending_count + 1 ELSE N[i].pending_count
  <2>1. PICK x, v : x = N[i] /\ v = N[i].pending_count + 1
    BY Zenon
  <2>2. IsNode(x)
    BY <1>6, <2>1
  <2>3. CASE i \in way
    <3>1. M[i] = [x EXCEPT !.pending_count = v]
      BY <1>3, <1>6, <2>1, <2>3
    <3>2. M[i] = [edge |-> x.edge, parent |-> x.parent, children |-> x.children,
                  pending_count |-> v, terminators |-> x.terminators]
      BY <2>2, <3>1, NodeChange
    <3>3. /\ M[i].edge = x.edge /\ M[i].parent = x.parent /\ M[i].children = x.children
          /\ M[i].terminators = x.terminators /\ M[i].pending_count = v /\ IsNode(M[i])
      BY <3>2 DEF IsNode
    <3> QED
      BY <2>1, <2>3, <3>3, Zenon
  <2>4. CASE i \notin way
    <3>1. M[i] = x
      BY <1>3, <1>6, <2>1, <2>4
    <3> QED
      BY <2>1, <2>2, <2>4, <3>1
  <2> QED
    BY <2>3, <2>4
<1>9. Touched(t, L, r)
  BY <1>1, <1>5, <1>7, <1>8 DEF Touched, SameLinks
<1> QED
  BY <1>1, <1>2, <1>5, <1>8, <1>9 DEF Bumped

(* ... or shrink by one.                                                   *)
LEMMA DropEffect ==
    ASSUME NEW t, NEW L, NEW P, Links(t.nodes, L, P), Arena(t, L), NEW n \in L, NEW r, r = DropPath(t, n)
    PROVE  Dropped(t, L, P, n, r)
<1>1. PICK N, way : N = t.nodes /\ way = PathToRoot(t, n)
  BY Zenon
<1>2. way = {i \in L \ {ROOT} : Pre(P[i], P[n])}
  BY <1>1, PathToRootFacts DEF Arena
<1>3. PICK M : M = [i \in DOMAIN N |->
                      IF i \in way THEN [N[i] EXCEPT !.pending_count = IF @ > 0 THEN @ - 1 ELSE 0]
                                   ELSE N[i]]
  BY Zenon
<1>4. r = [nodes |-> M, free |-> t.free]
  <2>1. r = [t EXCEPT !.nodes = M]
    BY <1>1, <1>3, Zenon DEF DropPath
  <2> QED
    BY <2>1 DEF Arena
<1>5. r.nodes = M /\ r = [nodes |-> r.nodes, free |-> t.free]
  BY <1>4
<1>6. L \subseteq DOMAIN N /\ \A i \in L : IsNode(N[i])
  BY <1>1 DEF Arena
<1>7. DOMAIN M = DOMAIN N /\ \A i \in DOMAIN N \ L : M[i] = N[i]
  BY <1>2, <1>3
<1>8. ASSUME NEW i \in L
      PROVE  /\ M[i].edge = N[i].edge /\ M[i].parent = N[i].parent
             /\ M[i].children = N[i].children /\ M[i].terminators = N[i].terminators
             /\ IsNode(M[i])
             /\ M[i].pending_count =
                   IF i \in way THEN IF N[i].pending_count > 0 THEN N[i].pending_count - 1 ELSE 0
                                ELSE N[i].pending_count
  <2>1. PICK x, v : x = N[i] /\ v = IF N[i].pending_count > 0 THEN N[i].pending_count - 1 ELSE 0
    BY Zenon
  <2>2. IsNode(x)
    BY <1>6, <2>1
  <2>3. CASE i \in way
    <3>1. M[i] = [x EXCEPT !.pending_count = v]
      BY <1>3, <1>6, <2>1, <2>3
    <3>2. M[i] = [edge |-> x.edge, parent |-> x.parent, children |-> x.children,
                  pending_count |-> v, terminators |-> x.terminators]
      BY <2>2, <3>1, NodeChange
    <3>3. /\ M[i].edge = x.edge /\ M[i].parent = x.parent /\ M[i].children = x.children
          /\ M[i].terminators = x.terminators /\ M[i].pending_count = v /\ IsNode(M[i])
      BY <3>2 DEF IsNode
    <3> QED
      BY <2>1, <2>3, <3>3, Zenon
  <2>4. CASE i \notin way
    <3>1. M[i] = x
      BY <1>3, <1>6, <2>1, <2>4
    <3> QED
      BY <2>1, <2>2, <2>4, <3>1
  <2> QED
    BY <2>3, <2>4
<1>9. Touched(t, L, r)
  BY <1>1, <1>5, <1>7, <1>8 DEF Touched, SameLinks
<1> QED
  BY <1>1, <1>2, <1>5, <1>8, <1>9 DEF Dropped

(* A request is marked at the slot its tokens lead to, and counted.        *)
LEMMA MarkHolds ==
    ASSUME NEW t, NEW L, NEW P, NEW m, Holds(t, L, P, m), NEW n \in L, NEW rid, rid \notin DOMAIN m,
           NEW s, s = SetTerminators(t, n, t.nodes[n].terminators \cup {rid}),
           NEW r, r = BumpPath(s, n), NEW g, g = Put(m, rid, P[n])
    PROVE  /\ Holds(r, L, P, g)
           /\ Compact(t.nodes, L, ROOT) \/ Compact(t.nodes, L, n) => Compact(r.nodes, L, ROOT)
<1>1. PICK N, M : N = t.nodes /\ M = r.nodes
  BY Zenon
<1>2. Links(N, L, P) /\ Arena(t, L) /\ Content(N, L, P, m)
  BY <1>1 DEF Holds
<1>3. /\ Touched(t, L, s) /\ s.nodes[n].terminators = N[n].terminators \cup {rid}
      /\ \A i \in L : s.nodes[i].pending_count = N[i].pending_count
      /\ \A i \in L \ {n} : s.nodes[i].terminators = N[i].terminators
  BY <1>1, <1>2, TermEffect
<1>4. Links(s.nodes, L, P) /\ Arena(s, L)
  BY <1>1, <1>2, <1>3, TouchKeeps
<1>5. /\ Touched(s, L, r)
      /\ \A i \in L : M[i].terminators = s.nodes[i].terminators
      /\ \A i \in L : M[i].pending_count = IF i # ROOT /\ Pre(P[i], P[n])
                                           THEN s.nodes[i].pending_count + 1
                                           ELSE s.nodes[i].pending_count
  <2>1. Bumped(s, L, P, n, r)
    BY <1>4, BumpEffect
  <2> QED
    BY <1>1, <2>1, Zenon DEF Bumped
<1>6. Links(M, L, P) /\ Arena(r, L)
  BY <1>1, <1>4, <1>5, TouchKeeps
<1>7. SameLinks(N, M, L)
  <2>1. \A i \in L : /\ s.nodes[i].edge = N[i].edge /\ s.nodes[i].parent = N[i].parent
                     /\ s.nodes[i].children = N[i].children
    BY <1>1, <1>3 DEF Touched, SameLinks
  <2>2. \A i \in L : /\ M[i].edge = s.nodes[i].edge /\ M[i].parent = s.nodes[i].parent
                     /\ M[i].children = s.nodes[i].children
    BY <1>1, <1>5 DEF Touched, SameLinks
  <2> QED
    BY <2>1, <2>2 DEF SameLinks
<1>8. /\ M[n].terminators = N[n].terminators \cup {rid}
      /\ \A i \in L \ {n} : M[i].terminators = N[i].terminators
      /\ \A i \in L \ {ROOT} : M[i].pending_count = IF Pre(P[i], P[n]) THEN N[i].pending_count + 1
                                                                     ELSE N[i].pending_count
      /\ ROOT \in L /\ M[ROOT].pending_count = N[ROOT].pending_count
  BY <1>2, <1>3, <1>5 DEF Links
<1>9. IsFiniteSet(DOMAIN m) /\ N[ROOT].pending_count \in Nat
  BY <1>2 DEF Content
<1>10. /\ DOMAIN g = DOMAIN m \cup {rid} /\ IsFiniteSet(DOMAIN g)
       /\ g[rid] = P[n] /\ \A x \in DOMAIN m : g[x] = m[x]
  BY <1>9, FS_AddElement DEF Put
<1>11. Content(M, L, P, g)
  <2>1. ASSUME NEW i \in L PROVE M[i].terminators = {x \in DOMAIN g : g[x] = P[i]}
    <3>1. N[i].terminators = {x \in DOMAIN m : m[x] = P[i]}
      BY <1>2 DEF Content
    <3>2. CASE i = n
      BY <1>8, <1>10, <3>1, <3>2
    <3>3. CASE i # n
      <4>1. P[i] # P[n]
        BY <1>2, <3>3, OneSlot
      <4> QED
        BY <1>8, <1>10, <3>1, <3>3, <4>1
    <3> QED
      BY <3>2, <3>3
  <2>2. ASSUME NEW i \in L \ {ROOT} PROVE M[i].pending_count = Cardinality(Under(g, P[i]))
    <3>1. N[i].pending_count = Cardinality(Under(m, P[i]))
      BY <1>2 DEF Content
    <3>2. OneMore(m, g, P[i], P[n])
      BY <1>9, MapPlus
    <3>3. /\ Cardinality(Under(m, P[i])) \in Nat
          /\ Cardinality(Under(g, P[i])) =
                Cardinality(Under(m, P[i])) + (IF Pre(P[i], P[n]) THEN 1 ELSE 0)
      BY <3>2, Zenon DEF OneMore
    <3>4. M[i].pending_count = IF Pre(P[i], P[n]) THEN N[i].pending_count + 1 ELSE N[i].pending_count
      BY <1>8
    <3>5. PICK a, b, c : a = Cardinality(Under(m, P[i])) /\ b = Cardinality(Under(g, P[i]))
                         /\ c = M[i].pending_count
      BY Zenon
    <3>6. a \in Nat /\ b = a + (IF Pre(P[i], P[n]) THEN 1 ELSE 0)
          /\ c = IF Pre(P[i], P[n]) THEN a + 1 ELSE a
      BY <3>1, <3>3, <3>4, <3>5
    <3>7. b = c
      BY <3>6
    <3> QED
      BY <3>5, <3>7
  <2>3. ASSUME NEW x \in DOMAIN g PROVE \E i \in L : P[i] = g[x]
    <3>1. CASE x = rid
      BY <1>10, <3>1
    <3>2. CASE x # rid
      <4>1. x \in DOMAIN m /\ g[x] = m[x]
        BY <1>10, <3>2
      <4> QED
        BY <1>2, <4>1 DEF Content
    <3> QED
      BY <3>1, <3>2
  <2> QED
    BY <1>8, <1>9, <1>10, <2>1, <2>2, <2>3 DEF Content
<1>12. ASSUME Compact(N, L, ROOT) \/ Compact(N, L, n) PROVE Compact(M, L, ROOT)
  <2> SUFFICES ASSUME NEW i \in L \ {ROOT} PROVE Branching(M[i])
    BY DEF Compact
  <2>1. CASE i = n
    BY <1>8, <2>1 DEF Branching
  <2>2. CASE i # n
    <3>1. Branching(N[i])
      BY <1>12, <2>2 DEF Compact
    <3>2. M[i].children = N[i].children /\ M[i].terminators = N[i].terminators
      BY <1>7, <1>8, <2>2 DEF SameLinks
    <3> QED
      BY <3>1, <3>2 DEF Branching
  <2> QED
    BY <2>1, <2>2
<1> QED
  BY <1>1, <1>6, <1>11, <1>12 DEF Holds

(* A request is unmarked at its slot, and no longer counted.               *)
LEMMA UnmarkHolds ==
    ASSUME NEW t, NEW L, NEW P, NEW m, Holds(t, L, P, m), NEW n \in L, NEW rid \in DOMAIN m,
           m[rid] = P[n],
           NEW s, s = SetTerminators(t, n, t.nodes[n].terminators \ {rid}),
           NEW r, r = DropPath(s, n), NEW g, g = Restrict(m, DOMAIN m \ {rid})
    PROVE  /\ Holds(r, L, P, g)
           /\ Compact(t.nodes, L, ROOT) => Compact(r.nodes, L, n)
<1>1. PICK N, M : N = t.nodes /\ M = r.nodes
  BY Zenon
<1>2. Links(N, L, P) /\ Arena(t, L) /\ Content(N, L, P, m)
  BY <1>1 DEF Holds
<1>3. /\ Touched(t, L, s) /\ s.nodes[n].terminators = N[n].terminators \ {rid}
      /\ \A i \in L : s.nodes[i].pending_count = N[i].pending_count
      /\ \A i \in L \ {n} : s.nodes[i].terminators = N[i].terminators
  BY <1>1, <1>2, TermEffect
<1>4. Links(s.nodes, L, P) /\ Arena(s, L)
  BY <1>1, <1>2, <1>3, TouchKeeps
<1>5. /\ Touched(s, L, r)
      /\ \A i \in L : M[i].terminators = s.nodes[i].terminators
      /\ \A i \in L : M[i].pending_count =
            IF i # ROOT /\ Pre(P[i], P[n])
            THEN IF s.nodes[i].pending_count > 0 THEN s.nodes[i].pending_count - 1 ELSE 0
            ELSE s.nodes[i].pending_count
  <2>1. Dropped(s, L, P, n, r)
    BY <1>4, DropEffect
  <2> QED
    BY <1>1, <2>1, Zenon DEF Dropped
<1>6. Links(M, L, P) /\ Arena(r, L)
  BY <1>1, <1>4, <1>5, TouchKeeps
<1>7. SameLinks(N, M, L)
  <2>1. \A i \in L : /\ s.nodes[i].edge = N[i].edge /\ s.nodes[i].parent = N[i].parent
                     /\ s.nodes[i].children = N[i].children
    BY <1>1, <1>3 DEF Touched, SameLinks
  <2>2. \A i \in L : /\ M[i].edge = s.nodes[i].edge /\ M[i].parent = s.nodes[i].parent
                     /\ M[i].children = s.nodes[i].children
    BY <1>1, <1>5 DEF Touched, SameLinks
  <2> QED
    BY <2>1, <2>2 DEF SameLinks
<1>8. /\ M[n].terminators = N[n].terminators \ {rid}
      /\ \A i \in L \ {n} : M[i].terminators = N[i].terminators
      /\ \A i \in L \ {ROOT} : M[i].pending_count =
            IF Pre(P[i], P[n]) THEN IF N[i].pending_count > 0 THEN N[i].pending_count - 1 ELSE 0
                               ELSE N[i].pending_count
      /\ ROOT \in L /\ M[ROOT].pending_count = N[ROOT].pending_count
  BY <1>2, <1>3, <1>5 DEF Links
<1>9. IsFiniteSet(DOMAIN m) /\ N[ROOT].pending_count \in Nat
  BY <1>2 DEF Content
<1>10. /\ DOMAIN g = DOMAIN m \ {rid} /\ IsFiniteSet(DOMAIN g) /\ \A x \in DOMAIN g : g[x] = m[x]
  BY <1>9, FS_Subset DEF Restrict
<1>11. Content(M, L, P, g)
  <2>1. ASSUME NEW i \in L PROVE M[i].terminators = {x \in DOMAIN g : g[x] = P[i]}
    <3>1. N[i].terminators = {x \in DOMAIN m : m[x] = P[i]}
      BY <1>2 DEF Content
    <3>2. CASE i = n
      <4>1. M[i].terminators = N[i].terminators \ {rid}
        BY <1>8, <3>2
      <4> QED
        BY <1>10, <3>1, <4>1
    <3>3. CASE i # n
      <4>1. P[i] # P[n]
        BY <1>2, <3>3, OneSlot
      <4>2. M[i].terminators = N[i].terminators
        BY <1>8, <3>3
      <4> QED
        BY <1>10, <3>1, <4>1, <4>2
    <3> QED
      BY <3>2, <3>3
  <2>2. ASSUME NEW i \in L \ {ROOT} PROVE M[i].pending_count = Cardinality(Under(g, P[i]))
    <3>1. N[i].pending_count = Cardinality(Under(m, P[i]))
      BY <1>2 DEF Content
    <3>2. OneMore(g, m, P[i], m[rid])
      BY <1>9, MapMinus
    <3>3. /\ Cardinality(Under(g, P[i])) \in Nat
          /\ Cardinality(Under(m, P[i])) =
                Cardinality(Under(g, P[i])) + (IF Pre(P[i], m[rid]) THEN 1 ELSE 0)
      BY <1>10, <3>2, Zenon DEF OneMore
    <3>4. M[i].pending_count =
            IF Pre(P[i], P[n]) THEN IF N[i].pending_count > 0 THEN N[i].pending_count - 1 ELSE 0
                               ELSE N[i].pending_count
      BY <1>8
    <3>5. PICK a, b, c, h : a = Cardinality(Under(m, P[i])) /\ b = Cardinality(Under(g, P[i]))
                         /\ c = M[i].pending_count /\ h = Pre(P[i], P[n])
      BY Zenon
    <3>6. b \in Nat /\ a = b + (IF h THEN 1 ELSE 0)
          /\ c = IF h THEN IF a > 0 THEN a - 1 ELSE 0 ELSE a
      BY <3>1, <3>3, <3>4, <3>5
    <3>7. b = c
      BY <3>6
    <3> QED
      BY <3>5, <3>7
  <2>3. ASSUME NEW x \in DOMAIN g PROVE \E i \in L : P[i] = g[x]
    <3>1. x \in DOMAIN m /\ g[x] = m[x]
      BY <1>10
    <3> QED
      BY <1>2, <3>1 DEF Content
  <2> QED
    BY <1>8, <1>9, <1>10, <2>1, <2>2, <2>3 DEF Content
<1>12. ASSUME Compact(N, L, ROOT) PROVE Compact(M, L, n)
  <2> SUFFICES ASSUME NEW i \in L \ {ROOT, n} PROVE Branching(M[i])
    BY DEF Compact
  <2>1. Branching(N[i])
    BY <1>12 DEF Compact
  <2>2. M[i].children = N[i].children /\ M[i].terminators = N[i].terminators
    BY <1>7, <1>8 DEF SameLinks
  <2> QED
    BY <2>1, <2>2 DEF Branching
<1> QED
  BY <1>1, <1>6, <1>11, <1>12 DEF Holds

(* After the split, if any, the first k tokens are the path of the slot n, *)
(* no child of n goes on with the next one, and only n may lack a branch.  *)
Arrived(s, J, Q, m, tokens, n, k) ==
    /\ Holds(s, J, Q, m) /\ n \in J
    /\ Len(Q[n]) = k /\ (\A i \in 1..k : tokens[i] = Q[n][i])
    /\ k < Len(tokens) => tokens[k + 1] \notin DOMAIN s.nodes[n].children
    /\ \/ Compact(s.nodes, J, ROOT)
       \/ Compact(s.nodes, J, n) /\ DOMAIN s.nodes[n].children # {}

(* Where insert stands once the walk has stopped and the edge has been     *)
(* split if it stopped inside one: at a slot that represents the tokens    *)
(* consumed, the rest not continued by any of its children.                *)
LEMMA ArriveHolds ==
    ASSUME NEW t, NEW L, NEW P, NEW m, Holds(t, L, P, m), Compact(t.nodes, L, ROOT),
           NEW tokens \in Seq(Nat), NEW d, d = Descend(t, tokens),
           NEW s, s = IF AtNodeBoundary(t, d) THEN t ELSE SplitEdge(t, d.node, d.offset)
    PROVE  /\ d.consumed \in Nat /\ d.consumed <= Len(tokens)
           /\ \E J, Q : Arrived(s, J, Q, m, tokens, d.node, d.consumed)
<1>1. PICK N, n, o, k, x : N = t.nodes /\ n = d.node /\ o = d.offset /\ k = d.consumed /\ x = N[n]
  BY Zenon
<1>2. Links(N, L, P) /\ Arena(t, L) /\ Content(N, L, P, m)
  BY <1>1 DEF Holds
<1>3. Matched(N, L, P, tokens, n, o, k) /\ Ends(N, tokens, n, o, k)
  <2>1. OnTheWay(t.nodes, L, P, tokens, d) /\ Stopped(t.nodes, tokens, d)
    BY <1>1, <1>2, DescendFacts
  <2> QED
    BY <1>1, <2>1 DEF OnTheWay, Stopped
<1>4. PICK le, lp, lt : le = Len(x.edge) /\ lp = Len(P[n]) /\ lt = Len(tokens)
  BY Zenon
<1>5. /\ n \in L /\ o \in Nat /\ k \in Nat /\ o <= le /\ k <= lt /\ k + le = lp + o
      /\ (\A i \in 1..k : tokens[i] = P[n][i]) /\ (n # ROOT => o > 0)
      /\ (o < le /\ k < lt => tokens[k + 1] # P[n][k + 1])
  BY <1>1, <1>3, <1>4, Zenon DEF Matched
<1>6. le \in Nat /\ lp \in Nat /\ lt \in Nat /\ x.edge \in Seq(Nat) /\ P[n] \in Seq(Nat)
  BY <1>1, <1>2, <1>4, <1>5, EdgeFacts, PathFacts
<1>7. AtNodeBoundary(t, d) <=> o = le
  BY <1>1, <1>4 DEF AtNodeBoundary
<1>8. CASE o = le
  <2>1. s = t /\ lp = k
    BY <1>5, <1>6, <1>7, <1>8
  <2>2. k < lt => tokens[k + 1] \notin DOMAIN x.children
    <3>1. o < le \/ k = lt \/ tokens[k + 1] \notin DOMAIN x.children
      BY <1>1, <1>3, <1>4, Zenon DEF Ends
    <3> QED
      BY <1>5, <1>6, <1>8, <3>1
  <2>3. Arrived(s, L, P, m, tokens, n, k)
    BY <1>1, <1>4, <1>5, <2>1, <2>2 DEF Arrived
  <2> QED
    BY <1>1, <1>4, <1>5, <2>3
<1>9. CASE o # le
  <2>1. o < le /\ s = SplitEdge(t, n, o)
    BY <1>1, <1>5, <1>6, <1>7, <1>9
  <2>2. n # ROOT
    <3>1. n = ROOT => x.edge = <<>>
      BY <1>1, <1>2 DEF Links
    <3> QED
      BY <1>4, <1>5, <2>1, <3>1
  <2>3. PICK z, J, Q : z = NextId(t) /\ J = L \cup {z} /\ Q = SplitPath(N, L, P, n, z, o)
    BY Zenon
  <2>4. /\ z \notin L /\ Holds(s, J, Q, m) /\ SplitLinks(N, L, s.nodes, n, z, o)
        /\ Compact(s.nodes, J, n)
    <3>1. 0 < o /\ o < Len(t.nodes[n].edge)
      BY <1>1, <1>4, <1>5, <2>1, <2>2
    <3>2. n \in L /\ o \in Nat /\ z = NextId(t) /\ s = SplitEdge(t, n, o)
      BY <1>5, <2>1, <2>3
    <3>3. /\ z \notin L /\ Holds(s, L \cup {z}, SplitPath(t.nodes, L, P, n, z, o), m)
          /\ SplitLinks(t.nodes, L, s.nodes, n, z, o)
          /\ Compact(t.nodes, L, ROOT) => Compact(s.nodes, L \cup {z}, n)
      BY <2>2, <3>1, <3>2, SplitHolds
    <3> QED
      BY <1>1, <2>3, <3>3, Zenon
  <2>5. PICK e, p, u : e = x.edge /\ u = x.parent /\ p = P[u]
    BY Zenon
  <2>6. DOMAIN s.nodes[n].children = {e[o + 1]}
    <3>1. s.nodes[n].children = [i \in {N[n].edge[o + 1]} |-> z]
      BY <2>4, Zenon DEF SplitLinks
    <3> QED
      BY <1>1, <2>5, <3>1
  <2>7. PICK q : q = P[n]
    BY Zenon
  <2>8. PICK lu : lu = Len(p)
    BY Zenon
  <2>9. p \in Seq(Nat) /\ q \in Seq(Nat) /\ lu \in Nat /\ Joined(q, p, e)
    <3>1. UpLink(N, L, P, n)
      BY <1>2, <1>5, <2>2 DEF Links
    <3>2. P[N[n].parent] \in Seq(Nat)
      BY <1>2, <1>5, <2>2, UpFacts
    <3> QED
      BY <1>1, <1>6, <2>5, <2>7, <2>8, <3>1, <3>2 DEF UpLink
  <2>10. lp = lu + le
    BY <1>4, <2>5, <2>7, <2>8, <2>9, Zenon DEF Joined
  <2>11. k = lu + o
    BY <1>5, <1>6, <2>9, <2>10
  <2>12. PICK h : h = Cut(q, p, o)
    BY Zenon
  <2>13. h \in Seq(Nat) /\ Len(h) = k /\ Pre(h, q)
    <3>1. o \in 0..Len(e)
      BY <1>4, <1>5, <1>6, <2>1, <2>5
    <3>2. e \in Seq(Nat)
      BY <1>6, <2>5
    <3>3. h \in Seq(Nat) /\ Len(h) = Len(p) + o /\ Pre(h, q)
      BY <2>9, <2>12, <3>1, <3>2, JoinedCut
    <3> QED
      BY <2>8, <2>11, <3>3
  <2>14. Q[n] = h /\ n \in J
    BY <1>1, <1>5, <2>3, <2>5, <2>7, <2>12 DEF SplitPath
  <2>15. \A i \in 1..k : tokens[i] = Q[n][i]
    BY <1>5, <2>7, <2>13, <2>14 DEF Pre
  <2>16. e[o + 1] = q[k + 1]
    <3>1. o + 1 \in 1..le
      BY <1>5, <1>6, <2>1
    <3>2. \A i \in 1..le : q[lu + i] = e[i]
      BY <1>4, <2>5, <2>8, <2>9, Zenon DEF Joined
    <3>3. k + 1 = lu + (o + 1)
      BY <1>5, <2>9, <2>11
    <3> QED
      BY <3>1, <3>2, <3>3
  <2>17. k < lt => tokens[k + 1] \notin DOMAIN s.nodes[n].children
    BY <1>5, <2>1, <2>6, <2>7, <2>16
  <2>18. Arrived(s, J, Q, m, tokens, n, k)
    BY <1>4, <2>4, <2>6, <2>13, <2>14, <2>15, <2>17 DEF Arrived
  <2> QED
    BY <1>1, <1>4, <1>5, <2>18
<1> QED
  BY <1>8, <1>9

(* Tree::insert adds the request to what the tree holds.                   *)
LEMMA TreeInsertHolds ==
    ASSUME NEW t, NEW L, NEW P, NEW m, Holds(t, L, P, m), Compact(t.nodes, L, ROOT),
           NEW tokens \in Seq(Nat), NEW rid, rid \notin DOMAIN m,
           NEW r, r = TreeInsert(t, rid, tokens), NEW g, g = Put(m, rid, tokens)
    PROVE  \E J, Q : Holds(r, J, Q, g) /\ Compact(r.nodes, J, ROOT)
<1>1. PICK d, s, tail, term, h :
         /\ d = Descend(t, tokens)
         /\ s = IF AtNodeBoundary(t, d) THEN t ELSE SplitEdge(t, d.node, d.offset)
         /\ tail = DropTokens(tokens, d.consumed)
         /\ term = IF tail = <<>> THEN d.node ELSE NextId(s)
         /\ h = IF tail = <<>> THEN s ELSE Hang(s, d.node, tail)
  BY Zenon
<1>2. r = BumpPath(SetTerminators(h, term, h.nodes[term].terminators \cup {rid}), term)
  BY <1>1, Zenon DEF TreeInsert
<1>3. PICK n, k : n = d.node /\ k = d.consumed
  BY Zenon
<1>4. k \in Nat /\ k <= Len(tokens) /\ \E J, Q : Arrived(s, J, Q, m, tokens, n, k)
  BY <1>1, <1>3, ArriveHolds
<1>5. PICK J, Q : Arrived(s, J, Q, m, tokens, n, k)
  BY <1>4
<1>6. PICK lt : lt = Len(tokens)
  BY Zenon
<1>7. lt \in Nat /\ k \in 0..lt
  BY <1>4, <1>6
<1>8. PICK a : a = Q[n]
  BY Zenon
<1>9. /\ Holds(s, J, Q, m) /\ n \in J /\ Len(a) = k /\ (\A i \in 1..k : tokens[i] = a[i])
      /\ (k < lt => tokens[k + 1] \notin DOMAIN s.nodes[n].children)
      /\ \/ Compact(s.nodes, J, ROOT)
         \/ Compact(s.nodes, J, n) /\ DOMAIN s.nodes[n].children # {}
  BY <1>5, <1>6, <1>8, Zenon DEF Arrived
<1>10. a \in Seq(Nat)
  BY <1>8, <1>9, PathFacts DEF Holds
<1>11. tail \in Seq(Nat) /\ Len(tail) = lt - k /\ \A i \in 1..(lt - k) : tail[i] = tokens[k + i]
  <2>1. k \in 0..Len(tokens)
    BY <1>6, <1>7
  <2> QED
    BY <1>1, <1>3, <1>6, <2>1, DropFacts
<1>12. ASSUME NEW K, NEW R, Holds(h, K, R, m), term \in K, R[term] = tokens,
              Compact(h.nodes, K, ROOT) \/ Compact(h.nodes, K, term)
       PROVE  Holds(r, K, R, g) /\ Compact(r.nodes, K, ROOT)
  <2>1. PICK y : y = SetTerminators(h, term, h.nodes[term].terminators \cup {rid})
    BY Zenon
  <2>2. r = BumpPath(y, term) /\ g = Put(m, rid, R[term])
    BY <1>2, <1>12, <2>1
  <2> QED
    BY <1>12, <2>1, <2>2, MarkHolds
<1>13. CASE tail = <<>>
  <2>1. term = n /\ h = s /\ k = lt
    BY <1>1, <1>3, <1>7, <1>11, <1>13
  <2>2. a = tokens
    <3>1. Pre(a, tokens) /\ Len(tokens) <= Len(a)
      BY <1>6, <1>7, <1>9, <2>1 DEF Pre
    <3> QED
      BY <1>10, <3>1, PreBoth
  <2> QED
    BY <1>8, <1>9, <1>12, <2>1, <2>2
<1>14. CASE tail # <<>>
  <2>1. PICK z : z = NextId(s)
    BY Zenon
  <2>2. term = z /\ h = Hang(s, n, tail)
    BY <1>1, <1>3, <1>14, <2>1
  <2>3. k < lt
    <3>1. Len(tail) # 0
      BY <1>11, <1>14
    <3> QED
      BY <1>7, <1>11, <3>1
  <2>4. Head(tail) \notin DOMAIN s.nodes[n].children
    <3>1. 1 \in 1..(lt - k)
      BY <1>7, <2>3
    <3>2. Head(tail) = tokens[k + 1]
      BY <1>11, <1>14, <3>1
    <3> QED
      BY <1>9, <2>3, <3>2
  <2>5. Joined(tokens, a, tail)
    <3>1. PICK j : j = Len(tail)
      BY Zenon
    <3>2. j \in Nat /\ lt = k + j /\ lt - k = j
      BY <1>7, <1>11, <3>1
    <3> QED
      BY <1>6, <1>9, <1>11, <3>1, <3>2 DEF Joined
  <2>6. PICK K, R : K = J \cup {z} /\ R = HangPath(J, Q, z, tokens)
    BY Zenon
  <2>7. Joined(tokens, Q[n], tail)
    BY <1>8, <2>5
  <2>8. /\ z \notin J /\ Holds(h, K, R, m)
        /\ Compact(s.nodes, J, ROOT) => Compact(h.nodes, K, z)
        /\ Compact(s.nodes, J, n) /\ DOMAIN s.nodes[n].children # {} => Compact(h.nodes, K, z)
    BY <1>9, <1>11, <1>14, <2>1, <2>2, <2>4, <2>6, <2>7, HangHolds
  <2>9. z \in K /\ R[z] = tokens
    BY <2>6 DEF HangPath
  <2>10. Compact(h.nodes, K, term) /\ Holds(h, K, R, m) /\ term \in K /\ R[term] = tokens
    BY <1>9, <2>2, <2>8, <2>9
  <2> QED
    BY <1>12, <2>10
<1> QED
  BY <1>13, <1>14

-----------------------------------------------------------------------------
(* Removal: unmarking, and the turns of gc.                                *)

(* What is left when the leaf n is unlinked, slot by slot.                 *)
UnlinkDone(t, L, n, s) ==
    /\ s = [nodes |-> s.nodes, free |-> Append(t.free, n)]
    /\ DOMAIN s.nodes = DOMAIN t.nodes /\ s.nodes[n] = Unused
    /\ s.nodes[t.nodes[n].parent] =
          [t.nodes[t.nodes[n].parent] EXCEPT !.children =
              Restrict(t.nodes[t.nodes[n].parent].children,
                       DOMAIN t.nodes[t.nodes[n].parent].children \ {t.nodes[n].edge[1]})]
    /\ \A i \in DOMAIN t.nodes \ {n, t.nodes[n].parent} : s.nodes[i] = t.nodes[i]

(* What gc does to the arena when it takes out a leaf.                     *)
LEMMA UnlinkEffect ==
    ASSUME NEW t, NEW L, NEW P, Links(t.nodes, L, P), Arena(t, L), NEW n \in L, n # ROOT,
           NEW s, s = Unlink(t, n)
    PROVE  UnlinkDone(t, L, n, s)
<1>1. PICK N, x, u, v : N = t.nodes /\ x = N[n] /\ u = x.parent /\ v = N[u]
  BY Zenon
<1>2. u \in L /\ u # n /\ L \subseteq DOMAIN N /\ x.edge \in Seq(Nat) /\ x.edge # <<>>
  <2>1. UpLink(N, L, P, n)
    BY <1>1 DEF Links
  <2>2. u # n
    BY <1>1, NotOwn
  <2> QED
    BY <1>1, <2>1, <2>2 DEF Links, UpLink
<1>3. Head(x.edge) = x.edge[1]
  BY <1>2
<1>4. PICK q : q = [v EXCEPT !.children = Restrict(v.children, DOMAIN v.children \ {x.edge[1]})]
  BY Zenon
<1>5. PICK y : y = [t EXCEPT !.nodes = Put(N, u, q)]
  BY Zenon
<1>6. s = Free(y, n)
  BY <1>1, <1>3, <1>4, <1>5, Zenon DEF Unlink
<1>7. y = [nodes |-> Put(N, u, q), free |-> t.free]
  BY <1>5 DEF Arena
<1>8. y.nodes = Put(N, u, q) /\ y.free = t.free
  BY <1>7
<1>9. s = [nodes |-> Put(Put(N, u, q), n, Unused), free |-> Append(t.free, n)]
  BY <1>6, <1>8, Zenon DEF Free, Unused
<1>10. s.nodes = Put(Put(N, u, q), n, Unused) /\ s = [nodes |-> s.nodes, free |-> Append(t.free, n)]
  BY <1>9
<1>11. PICK z : z = Put(N, u, q)
  BY Zenon
<1>12. DOMAIN z = DOMAIN N /\ z[u] = q /\ \A i \in DOMAIN N \ {u} : z[i] = N[i]
  BY <1>2, <1>11 DEF Put
<1>13. s.nodes = Put(z, n, Unused) /\ n \in DOMAIN z
  BY <1>2, <1>10, <1>11, <1>12
<1>14. /\ DOMAIN s.nodes = DOMAIN N /\ s.nodes[n] = Unused
       /\ \A i \in DOMAIN N \ {n} : s.nodes[i] = z[i]
  BY <1>12, <1>13 DEF Put
<1>15. s.nodes[u] = q /\ \A i \in DOMAIN N \ {n, u} : s.nodes[i] = N[i]
  BY <1>2, <1>12, <1>14
<1> QED
  BY <1>1, <1>4, <1>10, <1>14, <1>15, Zenon DEF UnlinkDone

(* The tree s holds the map m without the slot n, which was freed.         *)
Unlinked(t, L, P, m, n, s) ==
    /\ Holds(s, L \ {n}, PathWithout(L, P, n), m) /\ t.nodes[n].parent \in L \ {n}
    /\ s.free = Append(t.free, n) /\ DOMAIN s.nodes = DOMAIN t.nodes
    /\ Compact(t.nodes, L, n) => Compact(s.nodes, L \ {n}, t.nodes[n].parent)

(* A leaf that ends no request is dropped; its parent may have to go next. *)
LEMMA UnlinkHolds ==
    ASSUME NEW t, NEW L, NEW P, NEW m, Holds(t, L, P, m), NEW n \in L, n # ROOT,
           t.nodes[n].terminators = {}, DOMAIN t.nodes[n].children = {},
           NEW s, s = Unlink(t, n)
    PROVE  Unlinked(t, L, P, m, n, s)
<1>1. PICK N, M, J, Q, u, v :
         /\ N = t.nodes /\ M = s.nodes /\ J = L \ {n} /\ Q = PathWithout(L, P, n)
         /\ u = N[n].parent /\ v = N[u]
  BY Zenon
<1>2. Links(N, L, P) /\ Arena(t, L) /\ Content(N, L, P, m)
  BY <1>1 DEF Holds
<1>3. UnlinkDone(t, L, n, s)
  BY <1>1, <1>2, UnlinkEffect
<1>4. u \in L /\ u # n /\ L \subseteq DOMAIN N /\ ROOT \in L
  <2>1. u \in L
    BY <1>1, <1>2, UpFacts
  <2>2. u # n
    BY <1>1, <1>2, NotOwn
  <2>3. L \subseteq DOMAIN N /\ ROOT \in L
    BY <1>2 DEF Links
  <2> QED
    BY <2>1, <2>2, <2>3
<1>5. PICK k : k = Restrict(v.children, DOMAIN v.children \ {N[n].edge[1]})
  BY Zenon
<1>6. /\ M[u] = [v EXCEPT !.children = k] /\ M[n] = Unused /\ DOMAIN M = DOMAIN N
      /\ \A i \in DOMAIN N \ {n, u} : M[i] = N[i]
  BY <1>1, <1>3, <1>5, Zenon DEF UnlinkDone
<1>7. \A i \in L : IsNode(N[i])
  BY <1>1, <1>2 DEF Arena
<1>8. /\ M[u].edge = v.edge /\ M[u].parent = v.parent /\ M[u].children = k
      /\ M[u].pending_count = v.pending_count /\ M[u].terminators = v.terminators
      /\ IsNode(M[u])
  <2>1. IsNode(v)
    BY <1>1, <1>4, <1>7
  <2>2. M[u] = [edge |-> v.edge, parent |-> v.parent, children |-> k,
                pending_count |-> v.pending_count, terminators |-> v.terminators]
    BY <1>6, <2>1, NodeChange
  <2> QED
    BY <2>2 DEF IsNode
<1>9. \A i \in L \ {n, u} : M[i] = N[i]
  BY <1>4, <1>6
<1>10. Links(M, J, Q)
  <2>1. J \subseteq DOMAIN M /\ SameLinks(N, M, L \ {n, u})
    <3>1. J \subseteq DOMAIN M
      BY <1>1, <1>4, <1>6
    <3>2. SameLinks(N, M, L \ {n, u})
      BY <1>9, Zenon DEF SameLinks
    <3> QED
      BY <3>1, <3>2
  <2>2. UnlinkLinks(N, L, M, n)
    BY <1>1, <1>5, <1>8, <2>1 DEF UnlinkLinks
  <2>3. DOMAIN N[n].children = {}
    BY <1>1
  <2> QED
    BY <1>1, <1>2, <2>2, <2>3, UnlinkKeepsLinks
<1>11. Arena(s, J)
  <2>1. /\ s = [nodes |-> s.nodes, free |-> Append(t.free, n)] /\ DOMAIN s.nodes = DOMAIN t.nodes
        /\ s.nodes[n] = Unused
    BY <1>3, Zenon DEF UnlinkDone
  <2>2. \A i \in L \ {n} : IsNode(s.nodes[i])
    BY <1>1, <1>7, <1>8, <1>9
  <2>3. \A i \in DOMAIN t.nodes \ L : s.nodes[i] = t.nodes[i]
    BY <1>1, <1>4, <1>6
  <2> QED
    BY <1>1, <1>2, <2>1, <2>2, <2>3, FreeArena
<1>12. \A i \in J : Q[i] = P[i]
  BY <1>1 DEF PathWithout
<1>13. \A i \in J : M[i].pending_count = N[i].pending_count /\ M[i].terminators = N[i].terminators
  BY <1>1, <1>8, <1>9
<1>14. Content(M, J, Q, m)
  <2>1. ASSUME NEW r \in DOMAIN m PROVE \E i \in J : Q[i] = m[r]
    <3>1. PICK i \in L : P[i] = m[r]
      BY <1>2 DEF Content
    <3>2. i # n
      <4>1. N[n].terminators = {b \in DOMAIN m : m[b] = P[n]}
        BY <1>2 DEF Content
      <4> QED
        BY <1>1, <3>1, <4>1
    <3> QED
      BY <1>1, <1>12, <3>1, <3>2
  <2>2. \A i \in J : M[i].terminators = {r \in DOMAIN m : m[r] = Q[i]}
    BY <1>1, <1>2, <1>12, <1>13 DEF Content
  <2>3. \A i \in J \ {ROOT} : M[i].pending_count = Cardinality(Under(m, Q[i]))
    BY <1>1, <1>2, <1>12, <1>13 DEF Content
  <2>4. IsFiniteSet(DOMAIN m) /\ M[ROOT].pending_count \in Nat
    BY <1>1, <1>2, <1>4, <1>13 DEF Content
  <2> QED
    BY <2>1, <2>2, <2>3, <2>4 DEF Content
<1>15. Compact(N, L, n) => Compact(M, J, u)
  BY <1>1, <1>9 DEF Compact
<1>16. s.free = Append(t.free, n)
  <2>1. s = [nodes |-> s.nodes, free |-> Append(t.free, n)]
    BY <1>3, Zenon DEF UnlinkDone
  <2> QED
    BY <2>1
<1>17. Holds(s, J, Q, m)
  BY <1>1, <1>10, <1>11, <1>14 DEF Holds
<1>18. u \in J /\ DOMAIN s.nodes = DOMAIN t.nodes
  <2>1. u \in J
    BY <1>1, <1>4
  <2>2. DOMAIN s.nodes = DOMAIN t.nodes
    BY <1>3, Zenon DEF UnlinkDone
  <2> QED
    BY <2>1, <2>2
<1> QED
  BY <1>1, <1>15, <1>16, <1>17, <1>18, Zenon DEF Unlinked

(* What the merge of n with its only child c leaves behind, slot by slot.  *)
MergeDone(t, L, n, c, s) ==
    /\ s = [nodes |-> s.nodes, free |-> Append(t.free, c)]
    /\ DOMAIN s.nodes = DOMAIN t.nodes /\ s.nodes[c] = Unused
    /\ s.nodes[n] = [edge |-> t.nodes[n].edge \o t.nodes[c].edge, parent |-> t.nodes[n].parent,
                     children |-> t.nodes[c].children,
                     pending_count |-> t.nodes[n].pending_count,
                     terminators |-> t.nodes[c].terminators]
    /\ \A i \in L \ {n, c} : s.nodes[i] = IF i \in Range(t.nodes[c].children)
                                          THEN [t.nodes[i] EXCEPT !.parent = n] ELSE t.nodes[i]
    /\ \A i \in DOMAIN t.nodes \ L : s.nodes[i] = t.nodes[i]

(* What gc does to the arena when it merges a slot with its only child,    *)
(* and that this child is another live slot.                               *)
LEMMA MergeEffect ==
    ASSUME NEW t, NEW L, NEW P, Links(t.nodes, L, P), Arena(t, L), NEW n \in L, n # ROOT,
           NEW c, Range(t.nodes[n].children) = {c}, NEW s, s = MergeOnlyChild(t, n)
    PROVE  MergeDone(t, L, n, c, s) /\ c \in L /\ c # ROOT /\ c # n
<1>1. PICK N, x, m, kids, moved, whole :
         /\ N = t.nodes /\ x = N[n] /\ m = N[c] /\ kids = Range(m.children)
         /\ moved = Reparent(N, kids, n)
         /\ whole = [x EXCEPT !.edge = x.edge \o m.edge, !.children = m.children,
                              !.terminators = m.terminators]
  BY Zenon
<1>2. c \in L /\ c # ROOT /\ c # n /\ kids \subseteq L
  <2>1. c \in Range(N[n].children)
    BY <1>1
  <2>2. c \in L /\ c # ROOT /\ N[c].parent = n
    <3>1. DownLinks(N, L, n)
      BY <1>1 DEF Links
    <3> QED
      BY <2>1, <3>1 DEF DownLinks, Range
  <2>3. c # n
    BY <1>1, <2>2, NotOwn
  <2>4. DownLinks(N, L, c)
    BY <1>1, <2>2 DEF Links
  <2> QED
    BY <1>1, <2>2, <2>3, <2>4 DEF DownLinks, Range
<1>3. (CHOOSE w \in Range(x.children) : TRUE) = c
  BY <1>1
<1>4. s = Free([t EXCEPT !.nodes = Put(moved, n, whole)], c)
  BY <1>1, <1>3, Zenon DEF MergeOnlyChild
<1>5. PICK z : z = Put(moved, n, whole)
  BY Zenon
<1>6. PICK y : y = [t EXCEPT !.nodes = z]
  BY Zenon
<1>7. y = [nodes |-> z, free |-> t.free]
  BY <1>6 DEF Arena
<1>8. y.nodes = z /\ y.free = t.free /\ s = Free(y, c)
  BY <1>4, <1>5, <1>6, <1>7
<1>9. s = [nodes |-> Put(z, c, Unused), free |-> Append(t.free, c)]
  BY <1>8, Zenon DEF Free, Unused
<1>10. s.nodes = Put(z, c, Unused) /\ s = [nodes |-> s.nodes, free |-> Append(t.free, c)]
  BY <1>9
<1>11. L \subseteq DOMAIN N /\ \A i \in L : IsNode(N[i])
  BY <1>1 DEF Arena
<1>12. /\ DOMAIN moved = DOMAIN N
       /\ \A i \in DOMAIN N : moved[i] = IF i \in kids THEN [N[i] EXCEPT !.parent = n] ELSE N[i]
  BY <1>1 DEF Reparent
<1>13. DOMAIN z = DOMAIN N /\ z[n] = whole /\ \A i \in DOMAIN N \ {n} : z[i] = moved[i]
  BY <1>5, <1>11, <1>12 DEF Put
<1>14. /\ DOMAIN s.nodes = DOMAIN N /\ s.nodes[c] = Unused
       /\ \A i \in DOMAIN N \ {c} : s.nodes[i] = z[i]
  BY <1>2, <1>10, <1>11, <1>13 DEF Put
<1>15. s.nodes[n] = whole
  BY <1>2, <1>11, <1>13, <1>14
<1>16. \A i \in DOMAIN N \ {n, c} :
          s.nodes[i] = IF i \in kids THEN [N[i] EXCEPT !.parent = n] ELSE N[i]
  BY <1>12, <1>13, <1>14
<1>17. whole = [edge |-> x.edge \o m.edge, parent |-> x.parent, children |-> m.children,
                pending_count |-> x.pending_count, terminators |-> m.terminators]
  <2>1. PICK e, k, w : e = x.edge \o m.edge /\ k = m.children /\ w = m.terminators
    BY Zenon
  <2>2. whole = [x EXCEPT !.edge = e, !.children = k, !.terminators = w]
    BY <1>1, <2>1, Zenon
  <2>3. IsNode(x)
    BY <1>1, <1>11
  <2>4. whole = [edge |-> e, parent |-> x.parent, children |-> k,
                 pending_count |-> x.pending_count, terminators |-> w]
    BY <2>2, <2>3 DEF IsNode
  <2> QED
    BY <2>1, <2>4, Zenon
<1>18. \A i \in L \ {n, c} : i \in DOMAIN N \ {n, c}
  BY <1>11
<1>19. \A i \in DOMAIN N \ L : i \in DOMAIN N \ {n, c} /\ i \notin kids
  BY <1>2
<1> QED
  BY <1>1, <1>2, <1>10, <1>14, <1>15, <1>16, <1>17, <1>18, <1>19, Zenon DEF MergeDone

(* A pass-through slot is merged with its only child: nothing ends between *)
(* them, so what begins with the one's path begins with the other's.       *)
LEMMA MergeHolds ==
    ASSUME NEW t, NEW L, NEW P, NEW m, Holds(t, L, P, m), NEW n \in L, n # ROOT,
           t.nodes[n].terminators = {}, NEW c, Range(t.nodes[n].children) = {c},
           NEW s, s = MergeOnlyChild(t, n)
    PROVE  /\ Holds(s, L \ {c}, MergePath(L, P, n, c), m)
           /\ Compact(t.nodes, L, n) => Compact(s.nodes, L \ {c}, ROOT)
<1>1. PICK N, M, J, Q : N = t.nodes /\ M = s.nodes /\ J = L \ {c} /\ Q = MergePath(L, P, n, c)
  BY Zenon
<1>2. Links(N, L, P) /\ Arena(t, L) /\ Content(N, L, P, m)
  BY <1>1 DEF Holds
<1>3. MergeDone(t, L, n, c, s) /\ c \in L /\ c # ROOT /\ c # n
  BY <1>1, <1>2, MergeEffect
<1>4. L \subseteq DOMAIN N /\ (\A i \in L : IsNode(N[i])) /\ ROOT \in L
  BY <1>1, <1>2 DEF Arena
<1>5. /\ M[n].edge = N[n].edge \o N[c].edge /\ M[n].parent = N[n].parent
      /\ M[n].children = N[c].children /\ M[n].pending_count = N[n].pending_count
      /\ M[n].terminators = N[c].terminators /\ IsNode(M[n])
  <2>1. PICK e : e = N[n].edge \o N[c].edge
    BY Zenon
  <2>2. M[n] = [edge |-> e, parent |-> N[n].parent, children |-> N[c].children,
                pending_count |-> N[n].pending_count, terminators |-> N[c].terminators]
    BY <1>1, <1>3, <2>1, Zenon DEF MergeDone
  <2>3. /\ M[n].edge = e /\ M[n].parent = N[n].parent
        /\ M[n].children = N[c].children /\ M[n].pending_count = N[n].pending_count
        /\ M[n].terminators = N[c].terminators /\ IsNode(M[n])
    BY <2>2 DEF IsNode
  <2> QED
    BY <2>1, <2>3
<1>6. ASSUME NEW i \in L, i # n, i # c
      PROVE  /\ M[i].edge = N[i].edge /\ M[i].children = N[i].children
             /\ M[i].parent = IF i \in Range(N[c].children) THEN n ELSE N[i].parent
             /\ M[i].pending_count = N[i].pending_count /\ M[i].terminators = N[i].terminators
             /\ IsNode(M[i])
  <2>1. IsNode(N[i])
    BY <1>4
  <2>2. M[i] = IF i \in Range(N[c].children) THEN [N[i] EXCEPT !.parent = n] ELSE N[i]
    BY <1>1, <1>3, <1>6 DEF MergeDone
  <2>3. CASE i \in Range(N[c].children)
    <3>1. M[i] = [N[i] EXCEPT !.parent = n]
      BY <2>2, <2>3
    <3>2. M[i] = [edge |-> N[i].edge, parent |-> n, children |-> N[i].children,
                  pending_count |-> N[i].pending_count, terminators |-> N[i].terminators]
      BY <2>1, <3>1, NodeChange
    <3>3. /\ M[i].edge = N[i].edge /\ M[i].children = N[i].children /\ M[i].parent = n
          /\ M[i].pending_count = N[i].pending_count /\ M[i].terminators = N[i].terminators
          /\ IsNode(M[i])
      BY <3>2 DEF IsNode
    <3> QED
      BY <2>3, <3>3
  <2>4. CASE i \notin Range(N[c].children)
    BY <2>1, <2>2, <2>4
  <2> QED
    BY <2>3, <2>4
<1>7. DOMAIN M = DOMAIN N /\ M[c] = Unused
  BY <1>1, <1>3 DEF MergeDone
<1>8. Links(M, J, Q)
  <2>1. Range(N[n].children) = {c} /\ L \ {c} \subseteq DOMAIN M
    BY <1>1, <1>4, <1>7
  <2>2. MergeLinks(N, L, M, n, c)
    BY <1>5, <1>6, <2>1 DEF MergeLinks
  <2> QED
    BY <1>1, <1>2, <1>3, <2>1, <2>2, MergeKeepsLinks
<1>9. Arena(s, J)
  <2>1. /\ s = [nodes |-> s.nodes, free |-> Append(t.free, c)] /\ DOMAIN s.nodes = DOMAIN t.nodes
        /\ s.nodes[c] = Unused
    BY <1>3, Zenon DEF MergeDone
  <2>2. \A i \in L \ {c} : IsNode(s.nodes[i])
    BY <1>1, <1>5, <1>6
  <2>3. \A i \in DOMAIN t.nodes \ L : s.nodes[i] = t.nodes[i]
    BY <1>3, Zenon DEF MergeDone
  <2> QED
    BY <1>1, <1>2, <1>3, <2>1, <2>2, <2>3, FreeArena
<1>10. Q[n] = P[c] /\ \A i \in L \ {n, c} : Q[i] = P[i]
  BY <1>1, <1>3 DEF MergePath
<1>11. N[c].parent = n
  <2>1. c \in Range(N[n].children)
    BY <1>1
  <2> QED
    BY <1>2, <1>3, <2>1, KidsOf
<1>12. \A r \in DOMAIN m : m[r] # P[n]
  <2>1. N[n].terminators = {b \in DOMAIN m : m[b] = P[n]}
    BY <1>2 DEF Content
  <2> QED
    BY <1>1, <2>1
<1>13. Under(m, P[n]) = Under(m, P[c])
  <2>1. ASSUME NEW r \in DOMAIN m, Pre(P[n], m[r]) PROVE Pre(P[c], m[r])
    <3>1. PICK b \in L : P[b] = m[r]
      BY <1>2 DEF Content
    <3>2. b # n /\ Pre(P[n], P[b])
      BY <1>12, <2>1, <3>1
    <3>3. PICK a \in L \ {ROOT} : N[a].parent = n /\ Pre(P[a], P[b])
      BY <1>2, <3>2, ChildOnWay
    <3>4. a \in Range(N[n].children)
      BY <1>2, <3>3, KidsOf
    <3>5. a = c
      BY <1>1, <3>4
    <3> QED
      BY <3>1, <3>3, <3>5
  <2>2. ASSUME NEW r \in DOMAIN m, Pre(P[c], m[r]) PROVE Pre(P[n], m[r])
    <3>1. PICK b \in L : P[b] = m[r]
      BY <1>2 DEF Content
    <3>2. Pre(P[n], P[c])
      BY <1>2, <1>3, <1>11, UpFacts
    <3>3. Len(P[n]) \in Nat /\ Len(P[c]) \in Nat /\ Len(m[r]) \in Nat
      BY <1>2, <1>3, <3>1, PathFacts
    <3> QED
      BY <2>2, <3>2, <3>3 DEF Pre
  <2> QED
    BY <2>1, <2>2 DEF Under
<1>14. Content(M, J, Q, m)
  <2>1. ASSUME NEW r \in DOMAIN m PROVE \E i \in J : Q[i] = m[r]
    <3>1. PICK i \in L : P[i] = m[r]
      BY <1>2 DEF Content
    <3>2. i # n
      BY <1>12, <3>1
    <3>3. CASE i = c
      BY <1>1, <1>3, <1>10, <3>1, <3>3
    <3>4. CASE i # c
      BY <1>1, <1>10, <3>1, <3>2, <3>4
    <3> QED
      BY <3>3, <3>4
  <2>2. ASSUME NEW i \in J PROVE M[i].terminators = {r \in DOMAIN m : m[r] = Q[i]}
    <3>1. CASE i = n
      <4>1. N[c].terminators = {r \in DOMAIN m : m[r] = P[c]}
        BY <1>2, <1>3 DEF Content
      <4> QED
        BY <1>5, <1>10, <3>1, <4>1
    <3>2. CASE i # n
      <4>1. i \in L /\ i # c /\ N[i].terminators = {r \in DOMAIN m : m[r] = P[i]}
        BY <1>1, <1>2 DEF Content
      <4> QED
        BY <1>6, <1>10, <3>2, <4>1
    <3> QED
      BY <3>1, <3>2
  <2>3. ASSUME NEW i \in J \ {ROOT} PROVE M[i].pending_count = Cardinality(Under(m, Q[i]))
    <3>1. i \in L /\ i # c /\ N[i].pending_count = Cardinality(Under(m, P[i]))
      BY <1>1, <1>2 DEF Content
    <3>2. CASE i = n
      BY <1>5, <1>10, <1>13, <3>1, <3>2
    <3>3. CASE i # n
      BY <1>6, <1>10, <3>1, <3>3
    <3> QED
      BY <3>2, <3>3
  <2>4. IsFiniteSet(DOMAIN m) /\ M[ROOT].pending_count \in Nat
    <3>1. M[ROOT].pending_count = N[ROOT].pending_count
      BY <1>3, <1>4, <1>6
    <3> QED
      BY <1>2, <3>1 DEF Content
  <2> QED
    BY <2>1, <2>2, <2>3, <2>4 DEF Content
<1>15. ASSUME Compact(N, L, n) PROVE Compact(M, J, ROOT)
  <2> SUFFICES ASSUME NEW i \in J \ {ROOT} PROVE Branching(M[i])
    BY DEF Compact
  <2>1. CASE i = n
    <3>1. Branching(N[c])
      BY <1>3, <1>15 DEF Compact
    <3> QED
      BY <1>5, <2>1, <3>1 DEF Branching
  <2>2. CASE i # n
    <3>1. i \in L /\ i # c
      BY <1>1
    <3>2. Branching(N[i])
      BY <1>15, <2>2, <3>1 DEF Compact
    <3>3. M[i].terminators = N[i].terminators /\ M[i].children = N[i].children
      BY <1>6, <2>2, <3>1
    <3> QED
      BY <3>2, <3>3 DEF Branching
  <2> QED
    BY <2>1, <2>2
<1> QED
  BY <1>1, <1>8, <1>9, <1>14, <1>15 DEF Holds

(* What the number of children says.                                       *)
KidsAre(kids) ==
    /\ Cardinality(DOMAIN kids) \in Nat
    /\ Cardinality(DOMAIN kids) = 0 => DOMAIN kids = {}
    /\ Cardinality(DOMAIN kids) = 1 => \E c : Range(kids) = {c}
    /\ Cardinality(DOMAIN kids) > 1 <=> \E j, k \in DOMAIN kids : j # k

(* The number of children, as gc compares it with zero and one, says       *)
(* whether the slot has none, one or several.                              *)
LEMMA KidsCount ==
    ASSUME NEW N, NEW L, NEW P, Links(N, L, P), IsFiniteSet(L), NEW n \in L
    PROVE  KidsAre(N[n].children)
<1>1. PICK f, K : f = N[n].children /\ K = DOMAIN f
  BY Zenon
<1>2. PICK g : g = [k \in K |-> f[k]]
  BY Zenon
<1>3. \A k \in K : f[k] \in L /\ N[f[k]].edge[1] = k
  <2>1. DownLinks(N, L, n)
    BY DEF Links
  <2> QED
    BY <1>1, <2>1 DEF DownLinks
<1>4. IsFiniteSet(K)
  <2>1. g \in Injection(K, L)
    BY <1>2, <1>3 DEF Injection, IsInjective
  <2> QED
    BY <2>1, FS_Injection
<1>5. Cardinality(K) \in Nat
  BY <1>4, FS_CardinalityType
<1>6. Cardinality(K) = 0 => K = {}
  BY <1>4, FS_EmptySet
<1>7. ASSUME NEW j \in K, \A k \in K : k = j PROVE Cardinality(K) = 1
  <2>1. K = {j}
    BY <1>7
  <2> QED
    BY <2>1, FS_Singleton
<1>8. ASSUME NEW j \in K, NEW k \in K, j # k PROVE Cardinality(K) > 1
  <2>1. PICK A : A = {j, k}
    BY Zenon
  <2>2. A \subseteq K /\ Cardinality(A) = 2
    <3>1. IsFiniteSet({j}) /\ Cardinality({j}) = 1
      BY FS_Singleton
    <3>2. Cardinality({j} \cup {k}) = Cardinality({j}) + 1
      BY <1>8, <3>1, FS_AddElement
    <3>3. A = {j} \cup {k}
      BY <2>1
    <3> QED
      BY <2>1, <3>1, <3>2, <3>3
  <2>3. Cardinality(A) <= Cardinality(K)
    BY <1>4, <2>2, FS_Subset
  <2> QED
    BY <1>5, <2>2, <2>3
<1>9. Cardinality(K) > 1 => \E j, k \in K : j # k
  <2> SUFFICES ASSUME Cardinality(K) > 1, \A j, k \in K : j = k PROVE FALSE
    BY Zenon
  <2>1. K # {}
    BY FS_EmptySet
  <2>2. PICK j : j \in K
    BY <2>1
  <2>3. Cardinality(K) = 1
    BY <1>7, <2>2
  <2> QED
    BY <2>3
<1>10. Cardinality(K) = 1 => \E c : Range(f) = {c}
  <2> SUFFICES ASSUME Cardinality(K) = 1 PROVE \E c : Range(f) = {c}
    OBVIOUS
  <2>1. K # {}
    BY FS_EmptySet
  <2>2. PICK j : j \in K
    BY <2>1
  <2>3. \A k \in K : k = j
    BY <1>8, <2>2
  <2>4. Range(f) = {f[j]}
    BY <1>1, <2>2, <2>3 DEF Range
  <2> QED
    BY <2>4
<1> QED
  BY <1>1, <1>5, <1>6, <1>8, <1>9, <1>10 DEF KidsAre

(* The state of the loop of gc after k turns: the tree is in order but for *)
(* the slot to look at next, and unless the loop is over a slot was freed  *)
(* per turn.                                                               *)
GcAt(s, m, D, k) ==
    /\ s = [tree |-> s.tree, node |-> s.node] /\ DOMAIN s.tree.nodes = D
    /\ \E L, P : /\ Holds(s.tree, L, P, m) /\ s.node \in L
                 /\ Compact(s.tree.nodes, L, s.node)
    /\ s.node = ROOT \/ k <= Len(s.tree.free)

(* One turn of the loop of gc keeps the tree true to the map, and each     *)
(* turn that does not stop frees a slot.                                   *)
LEMMA GcTurn ==
    ASSUME NEW s, NEW m, NEW D, NEW k \in Nat, GcAt(s, m, D, k), NEW r, r = GcStep(s)
    PROVE  GcAt(r, m, D, k + 1)
<1>1. PICK t, n, N, x : t = s.tree /\ n = s.node /\ N = t.nodes /\ x = N[n]
  BY Zenon
<1>2. PICK L, P : Holds(t, L, P, m) /\ n \in L /\ Compact(N, L, n)
  BY <1>1 DEF GcAt
<1>3. s = [tree |-> t, node |-> n] /\ DOMAIN N = D /\ (n = ROOT \/ k <= Len(t.free))
  BY <1>1 DEF GcAt
<1>4. Links(N, L, P) /\ Arena(t, L) /\ ROOT \in L
  BY <1>1, <1>2 DEF Holds, Links
<1>5. IsFiniteSet(L)
  BY <1>4, FS_Subset DEF Arena
<1>6. PICK kids : kids = Cardinality(DOMAIN x.children)
  BY Zenon
<1>7. /\ kids \in Nat /\ (kids = 0 => DOMAIN x.children = {})
      /\ (kids = 1 => \E c : Range(x.children) = {c})
      /\ (kids > 1 <=> \E i, j \in DOMAIN x.children : i # j)
  <2>1. KidsAre(x.children)
    BY <1>1, <1>2, <1>4, <1>5, KidsCount
  <2> QED
    BY <1>6, <2>1, Zenon DEF KidsAre
<1>8. r = IF n = ROOT \/ x.terminators # {} \/ kids > 1 THEN [s EXCEPT !.node = ROOT]
          ELSE IF kids = 0 THEN [tree |-> Unlink(t, n), node |-> x.parent]
          ELSE [tree |-> MergeOnlyChild(t, n), node |-> ROOT]
  BY <1>1, <1>6, Zenon DEF GcStep
<1>9. CASE n = ROOT \/ x.terminators # {} \/ kids > 1
  <2>1. r = [tree |-> t, node |-> ROOT]
    BY <1>3, <1>8, <1>9
  <2>2. Compact(N, L, ROOT)
    BY <1>1, <1>2, <1>7, <1>9 DEF Compact, Branching
  <2>3. r.tree = t /\ r.node = ROOT
    BY <2>1
  <2> QED
    BY <1>1, <1>2, <1>3, <1>4, <2>1, <2>2, <2>3 DEF GcAt
<1>10. CASE ~(n = ROOT \/ x.terminators # {} \/ kids > 1) /\ kids = 0
  <2>1. PICK y, u : y = Unlink(t, n) /\ u = x.parent
    BY Zenon
  <2>2. r = [tree |-> y, node |-> u]
    BY <1>8, <1>10, <2>1
  <2>3. n # ROOT /\ t.nodes[n].terminators = {} /\ DOMAIN t.nodes[n].children = {}
    BY <1>1, <1>7, <1>10
  <2>4. /\ Holds(y, L \ {n}, PathWithout(L, P, n), m) /\ u \in L \ {n}
        /\ y.free = Append(t.free, n) /\ DOMAIN y.nodes = DOMAIN N
        /\ Compact(y.nodes, L \ {n}, u)
    <3>1. t.nodes[n].parent = u /\ Compact(t.nodes, L, n) /\ t.nodes = N
      BY <1>1, <1>2, <2>1
    <3>2. Unlinked(t, L, P, m, n, y)
      BY <1>2, <2>1, <2>3, UnlinkHolds
    <3> QED
      BY <3>1, <3>2, Zenon DEF Unlinked
  <2>5. k + 1 <= Len(y.free)
    <3>1. PICK l : l = Len(t.free)
      BY Zenon
    <3>2. t.free \in Seq(DOMAIN N \ L) /\ n \in DOMAIN N
      BY <1>1, <1>2, <1>4 DEF Arena, Enumerates
    <3>3. t.free \in Seq(DOMAIN N)
      BY <3>2
    <3>4. Len(y.free) = l + 1 /\ l \in Nat
      BY <2>4, <3>1, <3>2, <3>3
    <3>5. k <= l
      BY <1>3, <2>3, <3>1
    <3> QED
      BY <3>4, <3>5
  <2>6. r.tree = y /\ r.node = u
    BY <2>2
  <2> QED
    BY <1>3, <2>2, <2>4, <2>5, <2>6 DEF GcAt
<1>11. CASE ~(n = ROOT \/ x.terminators # {} \/ kids > 1) /\ kids # 0
  <2>1. PICK y : y = MergeOnlyChild(t, n)
    BY Zenon
  <2>2. r = [tree |-> y, node |-> ROOT]
    BY <1>8, <1>11, <2>1
  <2>3. kids = 1
    BY <1>7, <1>11
  <2>4. PICK c : Range(x.children) = {c}
    BY <1>7, <2>3
  <2>5. n # ROOT /\ t.nodes[n].terminators = {} /\ Range(t.nodes[n].children) = {c}
    BY <1>1, <1>11, <2>4
  <2>6. Holds(y, L \ {c}, MergePath(L, P, n, c), m) /\ Compact(y.nodes, L \ {c}, ROOT)
    BY <1>1, <1>2, <2>1, <2>5, MergeHolds
  <2>7. ROOT \in L \ {c} /\ DOMAIN y.nodes = D
    <3>1. Links(t.nodes, L, P) /\ Arena(t, L) /\ n \in L /\ n # ROOT
      BY <1>1, <1>2, <1>4, <2>5 DEF Holds
    <3>2. MergeDone(t, L, n, c, y) /\ c # ROOT
      BY <2>1, <2>5, <3>1, MergeEffect
    <3> QED
      BY <1>1, <1>3, <1>4, <3>2 DEF MergeDone
  <2>8. r.tree = y /\ r.node = ROOT
    BY <2>2
  <2> QED
    BY <2>2, <2>6, <2>7, <2>8 DEF GcAt
<1> QED
  BY <1>9, <1>10, <1>11

(* The loop of gc, turn by turn.                                           *)
LEMMA GcTurns ==
    ASSUME NEW t, NEW node, NEW n \in Nat, n = Cardinality(DOMAIN t.nodes)
    PROVE  \E f : /\ f[0] = [tree |-> t, node |-> node]
                  /\ \A i \in 1..n : f[i] = GcStep(f[i - 1])
                  /\ Gc(t, node) = f[n].tree
<1>1. PICK init : init = [tree |-> t, node |-> node]
  BY Zenon
<1>2. \A i, s : Turn("gc", t, i, s) = GcStep(s)
  BY Zenon DEF Turn
<1>3. \A g : g = [i \in 0..n |-> IF i = 0 THEN init ELSE GcStep(g[i - 1])]
               <=> IsLoop(g, "gc", t, init, n)
  <2> SUFFICES ASSUME NEW g
               PROVE  [i \in 0..n |-> IF i = 0 THEN init ELSE Turn("gc", t, i, g[i - 1])]
                         = [i \in 0..n |-> IF i = 0 THEN init ELSE GcStep(g[i - 1])]
    BY Zenon DEF IsLoop
  <2> QED
    BY <1>2
<1>4. PICK f : f = Loop("gc", t, init, n)
  BY Zenon
<1>5. f = CHOOSE g : g = [i \in 0..n |-> IF i = 0 THEN init ELSE GcStep(g[i - 1])]
  BY <1>3, <1>4, Zenon DEF Loop
<1>6. Gc(t, node) = f[n].tree
  BY <1>1, <1>5, Zenon DEF Gc
<1>7. f[0] = init /\ \A i \in 1..n : f[i] = Turn("gc", t, i, f[i - 1])
  BY <1>4, LoopTurns
<1> QED
  BY <1>1, <1>2, <1>6, <1>7, Zenon

(* Tree::gc restores the compression: it ends before it runs out of slots. *)
LEMMA GcHolds ==
    ASSUME NEW t, NEW L, NEW P, NEW m, Holds(t, L, P, m), NEW n \in L, Compact(t.nodes, L, n),
           NEW r, r = Gc(t, n)
    PROVE  \E J, Q : Holds(r, J, Q, m) /\ Compact(r.nodes, J, ROOT)
<1>1. PICK D, k : D = DOMAIN t.nodes /\ k = Cardinality(DOMAIN t.nodes)
  BY Zenon
<1>2. IsFiniteSet(D) /\ k \in Nat
  BY <1>1, FS_CardinalityType DEF Holds, Arena
<1>3. PICK f : /\ f[0] = [tree |-> t, node |-> n] /\ \A i \in 1..k : f[i] = GcStep(f[i - 1])
               /\ r = f[k].tree
  BY <1>1, <1>2, GcTurns
<1> DEFINE S == {i \in 0..k : GcAt(f[i], m, D, i)}
<1>4. 0 \in S
  <2>1. f[0].tree = t /\ f[0].node = n /\ f[0] = [tree |-> f[0].tree, node |-> f[0].node]
    BY <1>3
  <2>2. 0 <= Len(t.free)
    <3>1. t.free \in Seq(DOMAIN t.nodes \ L)
      BY DEF Holds, Arena, Enumerates
    <3> QED
      BY <3>1
  <2> QED
    BY <1>1, <1>2, <2>1, <2>2 DEF GcAt
<1>5. ASSUME NEW i \in 1..k, i - 1 \in S PROVE i \in S
  <2>1. PICK j : j = i - 1
    BY Zenon
  <2>2. j \in Nat /\ i = j + 1 /\ i \in 0..k
    BY <1>2, <2>1
  <2>3. GcAt(f[j], m, D, j) /\ f[i] = GcStep(f[j])
    BY <1>3, <1>5, <2>1
  <2>4. GcAt(f[i], m, D, i)
    BY <2>2, <2>3, GcTurn
  <2> QED
    BY <2>2, <2>4
<1> HIDE DEF S
<1>6. \A i \in 0..k : i \in S
  BY <1>2, <1>4, <1>5, UpFromZero
<1>7. GcAt(f[k], m, D, k)
  <2>1. k \in S
    BY <1>2, <1>6
  <2> QED
    BY <2>1 DEF S
<1>8. PICK s : s = f[k]
  BY Zenon
<1>9. PICK J, Q : Holds(r, J, Q, m) /\ s.node \in J /\ Compact(r.nodes, J, s.node)
  BY <1>3, <1>7, <1>8, Zenon DEF GcAt
<1>10. s.node = ROOT
  <2> SUFFICES ASSUME s.node # ROOT PROVE FALSE
    OBVIOUS
  <2>1. k <= Len(r.free) /\ DOMAIN r.nodes = D
    BY <1>3, <1>7, <1>8 DEF GcAt
  <2>2. Enumerates(r.free, D \ J) /\ ROOT \in J /\ J \subseteq D
    BY <1>9, <2>1 DEF Holds, Arena
  <2>3. Cardinality(D \ J) = Len(r.free)
    BY <2>2, EnumLength
  <2>4. D \ J \subseteq D /\ D \ J # D
    BY <2>2
  <2>5. Cardinality(D \ J) < Cardinality(D)
    BY <1>2, <2>4, FS_Subset, FS_CardinalityType
  <2> QED
    BY <1>1, <1>2, <2>1, <2>3, <2>5
<1> QED
  BY <1>9, <1>10

(* Tree::remove takes the request out of what the tree holds.              *)
LEMMA TreeRemoveHolds ==
    ASSUME NEW t, NEW L, NEW P, NEW m, Holds(t, L, P, m), Compact(t.nodes, L, ROOT),
           NEW rid \in DOMAIN m, NEW r, r = TreeRemove(t, rid, m[rid]),
           NEW g, g = Restrict(m, DOMAIN m \ {rid})
    PROVE  \E J, Q : Holds(r, J, Q, g) /\ Compact(r.nodes, J, ROOT)
<1>1. Links(t.nodes, L, P) /\ Content(t.nodes, L, P, m)
  BY DEF Holds
<1>2. PICK c \in L : P[c] = m[rid]
  BY <1>1 DEF Content
<1>3. PICK d, q : d = Descend(t, q) /\ q = m[rid]
  BY Zenon
<1>4. d.node = c /\ d.consumed = Len(q) /\ AtNodeBoundary(t, d)
  <2>1. d = Descend(t, P[c])
    BY <1>2, <1>3
  <2>2. Home(t, d, c, P[c])
    BY <1>1, <2>1, DescendHome
  <2> QED
    BY <1>2, <1>3, <2>2 DEF Home
<1>5. rid \in t.nodes[c].terminators
  BY <1>1, <1>2 DEF Content
<1>6. TerminatesAt(t, rid, q)
  BY <1>3, <1>4, <1>5 DEF TerminatesAt
<1>7. PICK y, z : y = SetTerminators(t, c, t.nodes[c].terminators \ {rid}) /\ z = DropPath(y, c)
  BY Zenon
<1>8. r = Gc(z, c)
  BY <1>3, <1>4, <1>6, <1>7, Zenon DEF TreeRemove
<1>9. Holds(z, L, P, g) /\ Compact(z.nodes, L, c)
  BY <1>2, <1>7, UnmarkHolds
<1> QED
  BY <1>8, <1>9, GcHolds

-----------------------------------------------------------------------------
(* The invariant, and that every update keeps it.                          *)

(* The tree t, compressed, holds the map m.                                *)
Keeps(t, m) == \E L, P : Holds(t, L, P, m) /\ Compact(t.nodes, L, ROOT)

(* m is a map from request ids to prompts.                                 *)
IsMap(m) ==
    /\ m = [r \in DOMAIN m |-> m[r]] /\ DOMAIN m \subseteq Rid
    /\ \A r \in DOMAIN m : m[r] \in Prompts

(* The values the calls work on.                                           *)
InOrderState(s) ==
    /\ s = [tree |-> s.tree, paths |-> s.paths, n |-> s.n]
    /\ Keeps(s.tree, s.paths) /\ IsMap(s.paths) /\ s.n \in Nat

(* PendingTree::insert on such a value.                                    *)
InsertGives(s, item, r) ==
    /\ InOrderState(r)
    /\ item.rid \in DOMAIN s.paths => r = s
    /\ item.rid \notin DOMAIN s.paths =>
          r.n = s.n + 1 /\ r.paths = Put(s.paths, item.rid, item.tokens)

(* TreeInner::insert keeps the tree true to the map: a rid that is there   *)
(* changes nothing, a new one is added with its tokens and counted.        *)
LEMMA InnerInsertFacts ==
    ASSUME NEW s, InOrderState(s), NEW item \in [rid : Rid, tokens : Prompts],
           NEW r, r = InnerInsert(s, item)
    PROVE  InsertGives(s, item, r)
<1>1. PICK id, q : id = item.rid /\ q = item.tokens
  BY Zenon
<1>2. id \in Rid /\ q \in Prompts
  BY <1>1
<1>3. q \in Seq(Nat)
  BY <1>2, PendingAssumption
<1>4. CASE id \in DOMAIN s.paths
  BY <1>1, <1>4 DEF InnerInsert, InsertGives
<1>5. CASE id \notin DOMAIN s.paths
  <2>1. PICK t, m, k : t = s.tree /\ m = s.paths /\ k = s.n
    BY Zenon
  <2>2. PICK u, g : u = TreeInsert(t, id, q) /\ g = Put(m, id, q)
    BY Zenon
  <2>3. r = [tree |-> u, paths |-> g, n |-> k + 1]
    BY <1>1, <1>5, <2>1, <2>2, Zenon DEF InnerInsert
  <2>4. Keeps(t, m) /\ IsMap(m) /\ k \in Nat
    BY <2>1 DEF InOrderState
  <2>5. Keeps(u, g)
    <3>1. PICK L, P : Holds(t, L, P, m) /\ Compact(t.nodes, L, ROOT)
      BY <2>4 DEF Keeps
    <3> QED
      BY <1>3, <1>5, <2>1, <2>2, <3>1, TreeInsertHolds DEF Keeps
  <2>6. IsMap(g)
    BY <1>2, <2>2, <2>4 DEF IsMap, Put
  <2>7. r.tree = u /\ r.paths = g /\ r.n = k + 1 /\ r = [tree |-> r.tree, paths |-> r.paths, n |-> r.n]
    BY <2>3
  <2>8. InOrderState(r)
    BY <2>4, <2>5, <2>6, <2>7 DEF InOrderState
  <2> QED
    BY <1>1, <1>5, <2>1, <2>2, <2>7, <2>8 DEF InsertGives
<1> QED
  BY <1>4, <1>5

(* PendingTree::remove on such a value.                                    *)
RemoveGives(s, rid, r) ==
    /\ InOrderState(r)
    /\ rid \notin DOMAIN s.paths => r = s
    /\ rid \in DOMAIN s.paths =>
          r.n = s.n + 1 /\ r.paths = Restrict(s.paths, DOMAIN s.paths \ {rid})

(* TreeInner::remove keeps the tree true to the map: an unknown rid        *)
(* changes nothing, a known one is taken out and counted.                  *)
LEMMA InnerRemoveFacts ==
    ASSUME NEW s, InOrderState(s), NEW rid, NEW r, r = InnerRemove(s, rid)
    PROVE  RemoveGives(s, rid, r)
<1>1. CASE rid \notin DOMAIN s.paths
  BY <1>1 DEF InnerRemove, RemoveGives
<1>2. CASE rid \in DOMAIN s.paths
  <2>1. PICK t, m, k : t = s.tree /\ m = s.paths /\ k = s.n
    BY Zenon
  <2>2. PICK u, g : u = TreeRemove(t, rid, m[rid]) /\ g = Restrict(m, DOMAIN m \ {rid})
    BY Zenon
  <2>3. r = [tree |-> u, paths |-> g, n |-> k + 1]
    BY <1>2, <2>1, <2>2, Zenon DEF InnerRemove
  <2>4. Keeps(t, m) /\ IsMap(m) /\ k \in Nat
    BY <2>1 DEF InOrderState
  <2>5. Keeps(u, g)
    <3>1. PICK L, P : Holds(t, L, P, m) /\ Compact(t.nodes, L, ROOT)
      BY <2>4 DEF Keeps
    <3> QED
      BY <1>2, <2>1, <2>2, <3>1, TreeRemoveHolds DEF Keeps
  <2>6. IsMap(g)
    BY <2>2, <2>4 DEF IsMap, Restrict
  <2>7. r.tree = u /\ r.paths = g /\ r.n = k + 1 /\ r = [tree |-> r.tree, paths |-> r.paths, n |-> r.n]
    BY <2>3
  <2>8. InOrderState(r)
    BY <2>4, <2>5, <2>6, <2>7 DEF InOrderState
  <2> QED
    BY <1>2, <2>1, <2>2, <2>7, <2>8 DEF RemoveGives
<1> QED
  BY <1>1, <1>2

(* The inductive invariant: the tree, compressed, holds the map `paths`.   *)
IInv ==
    /\ Keeps(tree, paths) /\ IsMap(paths)
    /\ ret \in [err : {"none", "ValueError", "KeyError"}, n : Nat]

(* The invariant is what the inner operations start from.                  *)
LEMMA InnerInOrder ==
    ASSUME IInv
    PROVE  InOrderState(Inner) /\ Inner.paths = paths /\ Inner.tree = tree /\ Inner.n = 0
BY DEF IInv, InOrderState, Inner

(* A new tree holds the empty map.                                         *)
LEMMA InitKeeps == ASSUME Init PROVE IInv
<1>1. PICK t, m : t = NewTree /\ m = [r \in {} |-> <<>>]
  BY Zenon
<1>2. PICK L, P : L = {ROOT} /\ P = [i \in {ROOT} |-> <<>>]
  BY Zenon
<1>3. /\ t = [nodes |-> t.nodes, free |-> t.free] /\ t.free = <<>> /\ DOMAIN t.nodes = {ROOT}
      /\ t.nodes[ROOT] = NewNode(<<>>, ROOT)
  BY <1>1 DEF NewTree
<1>4. PICK N : N = t.nodes
  BY Zenon
<1>5. /\ N[ROOT].edge = <<>> /\ N[ROOT].parent = ROOT /\ DOMAIN N[ROOT].children = {}
      /\ N[ROOT].pending_count = 0 /\ N[ROOT].terminators = {} /\ IsNode(N[ROOT])
  BY <1>3, <1>4 DEF NewNode, IsNode
<1>6. Links(N, L, P)
  <2>1. P \in [L -> Seq(Nat)]
    <3>1. <<>> \in Seq(Nat)
      OBVIOUS
    <3> QED
      BY <1>2, <3>1
  <2>2. DownLinks(N, L, ROOT)
    BY <1>5 DEF DownLinks
  <2> QED
    BY <1>2, <1>3, <1>4, <1>5, <2>1, <2>2 DEF Links
<1>7. Arena(t, L)
  <2>1. IsFiniteSet({ROOT}) /\ Cardinality({ROOT}) = 1
    BY FS_Singleton
  <2>2. DOMAIN t.nodes = 0..(Cardinality(DOMAIN t.nodes) - 1)
    BY <1>3, <2>1 DEF ROOT
  <2>3. Enumerates(t.free, DOMAIN t.nodes \ L)
    <3>1. DOMAIN t.nodes \ L = {}
      BY <1>2, <1>3
    <3> QED
      BY <1>3, <3>1, EnumEmpty
  <2> QED
    BY <1>2, <1>3, <1>4, <1>5, <2>1, <2>2, <2>3 DEF Arena
<1>8. Content(N, L, P, m)
  BY <1>1, <1>2, <1>5, FS_EmptySet DEF Content
<1>9. Compact(N, L, ROOT)
  BY <1>2 DEF Compact
<1>10. Keeps(t, m)
  BY <1>4, <1>6, <1>7, <1>8, <1>9 DEF Keeps, Holds
<1>11. IsMap(m)
  BY <1>1 DEF IsMap
<1>12. tree = t /\ paths = m
  BY <1>1, Zenon DEF Init
<1>13. ret \in [err : {"none", "ValueError", "KeyError"}, n : Nat]
  BY DEF Init, Ok
<1> QED
  BY <1>10, <1>11, <1>12, <1>13 DEF IInv

(* What the calls answer and do to the map.                                *)
LEMMA PyInsertKeeps ==
    ASSUME IInv, NEW rid \in Rid, NEW tokens \in Prompts, PyInsert(rid, tokens)
    PROVE  /\ IInv'
           /\ rid \in DOMAIN paths => ret' = Raise("ValueError") /\ paths' = paths
           /\ rid \notin DOMAIN paths => ret' = Ok(1) /\ paths' = Put(paths, rid, tokens)
<1>1. PICK item, s : item = [rid |-> rid, tokens |-> tokens] /\ s = InnerInsert(Inner, item)
  BY Zenon
<1>2. item \in [rid : Rid, tokens : Prompts] /\ item.rid = rid /\ item.tokens = tokens
  BY <1>1
<1>3. InOrderState(Inner) /\ Inner.paths = paths /\ Inner.n = 0
  BY InnerInOrder
<1>4. InsertGives(Inner, item, s)
  BY <1>1, <1>2, <1>3, InnerInsertFacts
<1>5. tree' = s.tree /\ paths' = s.paths /\ ret' = IF s.n = 1 THEN Ok(1) ELSE Raise("ValueError")
  BY <1>1, Zenon DEF PyInsert, Become
<1>6. InOrderState(s)
  BY <1>4 DEF InsertGives
<1>7. Keeps(tree', paths') /\ IsMap(paths')
  BY <1>5, <1>6 DEF InOrderState
<1>8. /\ rid \in DOMAIN paths => s.n = 0 /\ s.paths = paths
      /\ rid \notin DOMAIN paths => s.n = 1 /\ s.paths = Put(paths, rid, tokens)
  BY <1>2, <1>3, <1>4 DEF InsertGives
<1>9. ret' \in [err : {"none", "ValueError", "KeyError"}, n : Nat]
  BY <1>5 DEF Ok, Raise
<1> QED
  BY <1>5, <1>7, <1>8, <1>9 DEF IInv

(* remove and discard keep the invariant, take the rid out of the map and  *)
(* nothing else, and answer with KeyError, or the count, as documented.    *)
LEMMA PyRemoveKeeps ==
    ASSUME IInv, NEW rid, PyRemove(rid) \/ PyDiscard(rid)
    PROVE  /\ IInv'
           /\ rid \notin DOMAIN paths => paths' = paths
           /\ rid \in DOMAIN paths => paths' = Restrict(paths, DOMAIN paths \ {rid})
           /\ PyRemove(rid) => ret' = IF rid \in DOMAIN paths THEN Ok(1) ELSE Raise("KeyError")
           /\ PyDiscard(rid) => ret' = Ok(IF rid \in DOMAIN paths THEN 1 ELSE 0)
<1>1. PICK s : s = InnerRemove(Inner, rid)
  BY Zenon
<1>2. InOrderState(Inner) /\ Inner.paths = paths /\ Inner.n = 0
  BY InnerInOrder
<1>3. RemoveGives(Inner, rid, s)
  BY <1>1, <1>2, InnerRemoveFacts
<1>4. tree' = s.tree /\ paths' = s.paths
  BY <1>1, Zenon DEF PyRemove, PyDiscard, Become
<1>5. /\ PyRemove(rid) => ret' = IF s.n = 1 THEN Ok(1) ELSE Raise("KeyError")
      /\ PyDiscard(rid) => ret' = Ok(s.n)
  BY <1>1, Zenon DEF PyRemove, PyDiscard
<1>6. InOrderState(s)
  BY <1>3 DEF RemoveGives
<1>7. Keeps(tree', paths') /\ IsMap(paths') /\ s.n \in Nat
  BY <1>4, <1>6 DEF InOrderState
<1>8. /\ rid \notin DOMAIN paths => s.n = 0 /\ s.paths = paths
      /\ rid \in DOMAIN paths => s.n = 1 /\ s.paths = Restrict(paths, DOMAIN paths \ {rid})
  BY <1>2, <1>3 DEF RemoveGives
<1>9. ret' \in [err : {"none", "ValueError", "KeyError"}, n : Nat]
  <2>1. CASE PyRemove(rid)
    BY <1>5, <2>1 DEF Ok, Raise
  <2>2. CASE PyDiscard(rid)
    BY <1>5, <1>7, <2>2 DEF Ok, Raise
  <2> QED
    BY <2>1, <2>2
<1> QED
  BY <1>4, <1>5, <1>7, <1>8, <1>9 DEF IInv

(* The values insert_many goes through, one per item.                    *)
Inserts(items, n, init) ==
    CHOOSE f : f = [i \in 0..n |-> IF i = 0 THEN init ELSE InnerInsert(f[i - 1], items[i])]

(* The loop of insert_many has a value: one inner insert per item, in      *)
(* order.                                                                  *)
LEMMA InsertLoop ==
    ASSUME NEW items, NEW n \in Nat, NEW init, NEW f, f = Inserts(items, n, init)
    PROVE  f[0] = init /\ \A i \in 1..n : f[i] = InnerInsert(f[i - 1], items[i])
<1>1. \A i, s : Turn("insert", items, i, s) = InnerInsert(s, items[i])
  BY Zenon DEF Turn
<1>2. \A g : g = [i \in 0..n |-> IF i = 0 THEN init ELSE InnerInsert(g[i - 1], items[i])]
               <=> IsLoop(g, "insert", items, init, n)
  <2> SUFFICES ASSUME NEW g
               PROVE  [i \in 0..n |-> IF i = 0 THEN init ELSE Turn("insert", items, i, g[i - 1])]
                         = [i \in 0..n |-> IF i = 0 THEN init ELSE InnerInsert(g[i - 1], items[i])]
    BY Zenon DEF IsLoop
  <2> QED
    BY <1>1
<1>3. f = Loop("insert", items, init, n)
  BY <1>2, Zenon DEF Inserts, Loop
<1>4. f[0] = init /\ \A i \in 1..n : f[i] = Turn("insert", items, i, f[i - 1])
  BY <1>3, LoopTurns
<1> QED
  BY <1>1, <1>4, Zenon

(* The values remove_many goes through, one per item.                    *)
Removes(order, n, init) ==
    CHOOSE f : f = [i \in 0..n |-> IF i = 0 THEN init ELSE InnerRemove(f[i - 1], order[i])]

(* The loop of remove_many has a value: one inner remove per rid, in the   *)
(* order the set is read.                                                  *)
LEMMA RemoveLoop ==
    ASSUME NEW order, NEW n \in Nat, NEW init, NEW f, f = Removes(order, n, init)
    PROVE  f[0] = init /\ \A i \in 1..n : f[i] = InnerRemove(f[i - 1], order[i])
<1>1. \A i, s : Turn("remove", order, i, s) = InnerRemove(s, order[i])
  BY Zenon DEF Turn
<1>2. \A g : g = [i \in 0..n |-> IF i = 0 THEN init ELSE InnerRemove(g[i - 1], order[i])]
               <=> IsLoop(g, "remove", order, init, n)
  <2> SUFFICES ASSUME NEW g
               PROVE  [i \in 0..n |-> IF i = 0 THEN init ELSE Turn("remove", order, i, g[i - 1])]
                         = [i \in 0..n |-> IF i = 0 THEN init ELSE InnerRemove(g[i - 1], order[i])]
    BY Zenon DEF IsLoop
  <2> QED
    BY <1>1
<1>3. f = Loop("remove", order, init, n)
  BY <1>2, Zenon DEF Removes, Loop
<1>4. f[0] = init /\ \A i \in 1..n : f[i] = Turn("remove", order, i, f[i - 1])
  BY <1>3, LoopTurns
<1> QED
  BY <1>1, <1>4, Zenon

(* The map m has the first i items, next to what was there before.         *)
Filled(items, i, m) ==
    /\ DOMAIN m = DOMAIN paths \cup {items[j].rid : j \in 1..i}
    /\ \A r \in DOMAIN paths : m[r] = paths[r]
    /\ \A j \in 1..i : m[items[j].rid] = items[j].tokens

(* insert_many keeps the invariant: a batch with a known or repeated rid   *)
(* changes nothing, any other is inserted whole.                           *)
LEMMA PyInsertManyKeeps ==
    ASSUME IInv, NEW items \in Batches, PyInsertMany(items)
    PROVE  /\ IInv'
           /\ RejectBatch(items) => ret' = Raise("ValueError") /\ paths' = paths /\ tree' = tree
           /\ ~RejectBatch(items) => ret' = Ok(Len(items)) /\ Filled(items, Len(items), paths')
<1>1. CASE RejectBatch(items)
  <2>1. ret' = Raise("ValueError") /\ paths' = paths /\ tree' = tree
    BY <1>1, Zenon DEF PyInsertMany
  <2>2. Raise("ValueError") \in [err : {"none", "ValueError", "KeyError"}, n : Nat]
    BY DEF Raise
  <2> QED
    BY <1>1, <2>1, <2>2 DEF IInv
<1>2. CASE ~RejectBatch(items)
  <2>1. items \in Seq([rid : Rid, tokens : Prompts])
    BY PendingAssumption
  <2>2. PICK n : n = Len(items)
    BY Zenon
  <2>3. n \in Nat /\ \A i \in 1..n : items[i] \in [rid : Rid, tokens : Prompts] /\ i \in DOMAIN items
    <3>1. PICK T : T = [rid : Rid, tokens : Prompts]
      BY Zenon
    <3>2. items \in Seq(T)
      BY <2>1, <3>1
    <3>3. n \in Nat /\ DOMAIN items = 1..n /\ \A i \in 1..n : items[i] \in T
      BY <2>2, <3>2
    <3> QED
      BY <3>1, <3>3
  <2>4. /\ \A i \in 1..n : items[i].rid \notin DOMAIN paths
        /\ \A i, j \in 1..n : i # j => items[i].rid # items[j].rid
    BY <1>2, <2>3 DEF RejectBatch
  <2>5. PICK f : f = Inserts(items, n, Inner)
    BY Zenon
  <2>6. tree' = f[n].tree /\ paths' = f[n].paths /\ ret' = Ok(n)
    BY <1>2, <2>2, <2>5, Zenon DEF PyInsertMany, Become, Inserts
  <2>7. InOrderState(Inner) /\ Inner.paths = paths
    BY InnerInOrder
  <2>8. f[0] = Inner /\ \A i \in 1..n : f[i] = InnerInsert(f[i - 1], items[i])
    <3>1. n \in Nat
      BY <2>3
    <3> QED
      BY <2>5, <3>1, InsertLoop
  <2> DEFINE S == {i \in 0..n : InOrderState(f[i]) /\ Filled(items, i, f[i].paths)}
  <2>9. 0 \in S
    BY <2>3, <2>7, <2>8 DEF Filled
  <2>10. ASSUME NEW i \in 1..n, i - 1 \in S PROVE i \in S
    <3>1. PICK j, s, r, x : j = i - 1 /\ s = f[j] /\ r = f[i] /\ x = items[i]
      BY Zenon
    <3>2. /\ j \in 0..n /\ i \in 0..n /\ (\A k \in 1..j : k \in 1..n /\ k # i)
          /\ (\A k \in 1..i : k \in 1..j \/ k = i) /\ 1..j \subseteq 1..i /\ i \in 1..i
      BY <2>3, <3>1
    <3>3. InOrderState(s) /\ Filled(items, j, s.paths) /\ r = InnerInsert(s, x)
      BY <2>8, <2>10, <3>1
    <3>4. x \in [rid : Rid, tokens : Prompts]
      BY <2>3, <3>1
    <3>5. InsertGives(s, x, r)
      BY <3>3, <3>4, InnerInsertFacts
    <3>6. x.rid \notin DOMAIN paths /\ \A k \in 1..j : items[k].rid # x.rid
      BY <2>4, <3>1, <3>2
    <3>7. DOMAIN s.paths = DOMAIN paths \cup {items[k].rid : k \in 1..j}
      BY <3>3 DEF Filled
    <3>8. x.rid \notin DOMAIN s.paths
      BY <3>6, <3>7
    <3>9. InOrderState(r) /\ r.paths = Put(s.paths, x.rid, x.tokens)
      BY <3>5, <3>8 DEF InsertGives
    <3>10. PICK a, b : a = x.rid /\ b = x.tokens
      BY Zenon
    <3>11. /\ DOMAIN r.paths = DOMAIN s.paths \cup {a} /\ r.paths[a] = b
           /\ \A c \in DOMAIN s.paths : c # a => r.paths[c] = s.paths[c]
      BY <3>9, <3>10 DEF Put
    <3>12. DOMAIN r.paths = DOMAIN paths \cup {items[k].rid : k \in 1..i}
      <4>1. {items[k].rid : k \in 1..i} = {items[k].rid : k \in 1..j} \cup {a}
        BY <3>1, <3>2, <3>10
      <4> QED
        BY <3>7, <3>11, <4>1
    <3>13. \A c \in DOMAIN paths : r.paths[c] = paths[c]
      BY <3>3, <3>6, <3>7, <3>10, <3>11 DEF Filled
    <3>14. ASSUME NEW k \in 1..i PROVE r.paths[items[k].rid] = items[k].tokens
      <4>1. CASE k = i
        BY <3>1, <3>10, <3>11, <4>1
      <4>2. CASE k # i
        <5>1. k \in 1..j
          BY <3>2, <4>2
        <5>2. items[k].rid \in DOMAIN s.paths /\ items[k].rid # a
          BY <3>6, <3>7, <3>10, <5>1
        <5>3. s.paths[items[k].rid] = items[k].tokens
          BY <3>3, <5>1 DEF Filled
        <5> QED
          BY <3>11, <5>2, <5>3
      <4> QED
        BY <4>1, <4>2
    <3>15. Filled(items, i, r.paths)
      BY <3>12, <3>13, <3>14 DEF Filled
    <3> QED
      BY <3>1, <3>2, <3>9, <3>15
  <2> HIDE DEF S
  <2>11. \A i \in 0..n : i \in S
    BY <2>3, <2>9, <2>10, UpFromZero
  <2>12. n \in S
    BY <2>3, <2>11
  <2>13. InOrderState(f[n]) /\ Filled(items, n, f[n].paths)
    BY <2>12 DEF S
  <2>14. Keeps(tree', paths') /\ IsMap(paths')
    BY <2>6, <2>13 DEF InOrderState
  <2>15. ret' \in [err : {"none", "ValueError", "KeyError"}, n : Nat]
    BY <2>3, <2>6 DEF Ok
  <2> QED
    BY <1>2, <2>2, <2>6, <2>13, <2>14, <2>15 DEF IInv
<1> QED
  BY <1>1, <1>2

(* After the calls for the rids in R, and k answers that were true.        *)
Emptied(R, m, k) ==
    m = Restrict(paths, DOMAIN paths \ R) /\ k = Cardinality(R \cap DOMAIN paths)

(* remove_many keeps the invariant: the rids leave the map, and the        *)
(* answer counts those that were there.                                    *)
LEMMA PyRemoveManyKeeps ==
    ASSUME IInv, NEW rids \in SUBSET Rid, PyRemoveMany(rids)
    PROVE  /\ IInv'
           /\ paths' = Restrict(paths, DOMAIN paths \ rids)
           /\ ret' = Ok(Cardinality(rids \cap DOMAIN paths))
<1>1. PICK order \in SetToSeqs(rids) :
         LET done[i \in 0..Len(order)] ==
               IF i = 0 THEN Inner ELSE InnerRemove(done[i - 1], order[i])
         IN Become(done[Len(order)]) /\ ret' = Ok(done[Len(order)].n)
  BY Zenon DEF PyRemoveMany
<1>2. IsFiniteSet(rids) /\ Cardinality(rids) \in Nat
  BY PendingAssumption, FS_Subset, FS_CardinalityType
<1>3. PICK n : n = Cardinality(rids)
  BY Zenon
<1>4. order \in [1..n -> rids] /\ \A i, j \in 1..n : i # j => order[i] # order[j]
  BY <1>1, <1>3 DEF SetToSeqs
<1>5. n \in Nat /\ Len(order) = n
  BY <1>2, <1>3, <1>4, SeqIntro
<1>6. {order[i] : i \in 1..n} = rids
  <2>1. order \in Injection(1..n, rids)
    BY <1>4 DEF Injection, IsInjective
  <2>2. Cardinality(1..n) = n
    BY <1>5, UpTo
  <2>3. order \in Surjection(1..n, rids)
    BY <1>2, <1>3, <2>1, <2>2, FS_Injection
  <2> QED
    BY <1>4, <2>3 DEF Surjection
<1>7. PICK f : f = Removes(order, n, Inner)
  BY Zenon
<1>8. tree' = f[n].tree /\ paths' = f[n].paths /\ ret' = Ok(f[n].n)
  BY <1>1, <1>5, <1>7, Zenon DEF Become, Removes
<1>9. InOrderState(Inner) /\ Inner.paths = paths /\ Inner.n = 0
  BY InnerInOrder
<1>10. f[0] = Inner /\ \A i \in 1..n : f[i] = InnerRemove(f[i - 1], order[i])
  BY <1>5, <1>7, RemoveLoop
<1>11. PICK D : D = DOMAIN paths
  BY Zenon
<1>12. paths = [r \in D |-> paths[r]] /\ D \subseteq Rid
  BY <1>11 DEF IInv, IsMap
<1> DEFINE Gone(i) == {order[j] : j \in 1..i}
           S == {i \in 0..n : InOrderState(f[i]) /\ Emptied(Gone(i), f[i].paths, f[i].n)}
<1>13. 0 \in S
  <2>1. Gone(0) = {} /\ Gone(0) \cap D = {} /\ D \ Gone(0) = D
    OBVIOUS
  <2>2. Cardinality({}) = 0
    BY FS_EmptySet
  <2>3. Emptied({}, paths, 0)
    BY <1>11, <1>12, <2>2 DEF Emptied, Restrict
  <2> QED
    <3>1. f[0].paths = paths /\ f[0].n = 0 /\ InOrderState(f[0]) /\ 0 \in 0..n
      BY <1>5, <1>9, <1>10
    <3>2. Emptied(Gone(0), f[0].paths, f[0].n)
      BY <2>1, <2>3, <3>1
    <3> QED
      BY <3>1, <3>2
<1>14. ASSUME NEW i \in 1..n, i - 1 \in S PROVE i \in S
  <2>1. PICK j, s, r, x : j = i - 1 /\ s = f[j] /\ r = f[i] /\ x = order[i]
    BY Zenon
  <2>2. /\ j \in 0..n /\ i \in 0..n /\ (\A k \in 1..j : k \in 1..n /\ k # i)
        /\ (\A k \in 1..i : k \in 1..j \/ k = i) /\ 1..j \subseteq 1..i /\ i \in 1..i
    BY <1>5, <2>1
  <2>3. PICK G, H : G = Gone(j) /\ H = Gone(i)
    BY Zenon
  <2>4. InOrderState(s) /\ Emptied(G, s.paths, s.n) /\ r = InnerRemove(s, x)
    BY <1>10, <1>14, <2>1, <2>3
  <2>5. H = G \cup {x} /\ x \notin G /\ G \subseteq rids
    <3>1. \A k \in 1..j : order[k] # x /\ order[k] \in rids
      BY <1>4, <2>1, <2>2
    <3> QED
      BY <2>1, <2>2, <2>3, <3>1
  <2>6. RemoveGives(s, x, r)
    BY <2>4, InnerRemoveFacts
  <2>7. s.paths = Restrict(paths, D \ G) /\ s.n = Cardinality(G \cap D)
    BY <1>11, <2>4 DEF Emptied
  <2>8. DOMAIN s.paths = D \ G /\ \A c \in D \ G : s.paths[c] = paths[c]
    BY <2>7 DEF Restrict
  <2>9. IsFiniteSet(G \cap D)
    <3>1. G \cap D \subseteq rids
      BY <2>5
    <3> QED
      BY <1>2, <3>1, FS_Subset
  <2>10. CASE x \in D
    <3>1. x \in DOMAIN s.paths
      BY <2>5, <2>8, <2>10
    <3>2. r.n = s.n + 1 /\ r.paths = Restrict(s.paths, (D \ G) \ {x})
      BY <2>6, <2>8, <3>1 DEF RemoveGives
    <3>3. (D \ G) \ {x} = D \ H /\ H \cap D = (G \cap D) \cup {x} /\ x \notin G \cap D
      BY <2>5, <2>10
    <3>4. Restrict(s.paths, D \ H) = Restrict(paths, D \ H)
      BY <2>5, <2>8 DEF Restrict
    <3>5. Cardinality(H \cap D) = Cardinality(G \cap D) + 1
      BY <2>9, <3>3, FS_AddElement
    <3> QED
      BY <1>11, <2>7, <3>2, <3>3, <3>4, <3>5, <2>1, <2>2, <2>3, <2>6 DEF Emptied, RemoveGives
  <2>11. CASE x \notin D
    <3>1. x \notin DOMAIN s.paths
      BY <2>8, <2>11
    <3>2. r = s
      BY <2>6, <3>1 DEF RemoveGives
    <3>3. D \ G = D \ H /\ H \cap D = G \cap D
      BY <2>5, <2>11
    <3> QED
      BY <1>11, <2>7, <3>2, <3>3, <2>1, <2>2, <2>3, <2>4 DEF Emptied
  <2> QED
    BY <2>10, <2>11
<1> HIDE DEF S
<1>15. \A i \in 0..n : i \in S
  BY <1>5, <1>13, <1>14, UpFromZero
<1>16. n \in S
  BY <1>5, <1>15
<1>17. InOrderState(f[n]) /\ Emptied(rids, f[n].paths, f[n].n)
  BY <1>6, <1>16 DEF S
<1>18. Keeps(tree', paths') /\ IsMap(paths') /\ f[n].n \in Nat
  BY <1>8, <1>17 DEF InOrderState
<1>19. ret' \in [err : {"none", "ValueError", "KeyError"}, n : Nat]
  BY <1>8, <1>18 DEF Ok
<1> QED
  BY <1>8, <1>17, <1>18, <1>19 DEF IInv, Emptied

(* Every operation keeps the invariant.                                    *)
LEMMA InvStep == ASSUME IInv, [Next]_vars PROVE IInv'
<1>1. ASSUME NEW rid \in Rid, NEW tokens \in Prompts, PyInsert(rid, tokens) PROVE IInv'
  BY <1>1, PyInsertKeeps
<1>2. ASSUME NEW rid \in Rid, PyRemove(rid) PROVE IInv'
  BY <1>2, PyRemoveKeeps
<1>3. ASSUME NEW rid \in Rid, PyDiscard(rid) PROVE IInv'
  BY <1>3, PyRemoveKeeps
<1>4. ASSUME NEW items \in Batches, PyInsertMany(items) PROVE IInv'
  BY <1>4, PyInsertManyKeeps
<1>5. ASSUME NEW rids \in SUBSET Rid, PyRemoveMany(rids) PROVE IInv'
  BY <1>5, PyRemoveManyKeeps
<1>6. CASE UNCHANGED vars
  BY <1>6 DEF vars, IInv
<1> QED
  BY <1>1, <1>2, <1>3, <1>4, <1>5, <1>6 DEF Next

(* The inductive invariant of the pending tree holds in every reachable    *)
(* state, after any sequence of insert, remove, discard, insert_many,      *)
(* remove_many and clear (tree.rs 173-330, pending.rs), for any prompts    *)
(* over any tokens.                                                        *)
THEOREM PendingInvariant == Spec => []IInv
<1>1. Init => IInv
  BY InitKeeps
<1>2. IInv /\ [Next]_vars => IInv'
  BY InvStep
<1> QED
  BY <1>1, <1>2, PTL DEF Spec

-----------------------------------------------------------------------------
(* Reading the tree: reachable slots, their paths, the map in them.        *)

(* Beginnings of beginnings, and of the same sequence.                     *)
LEMMA PreTrans ==
    ASSUME NEW p \in Seq(Nat), NEW q \in Seq(Nat), NEW r \in Seq(Nat), Pre(p, q), Pre(q, r)
    PROVE  Pre(p, r)
<1>1. PICK a, b, c : a = Len(p) /\ b = Len(q) /\ c = Len(r)
  BY Zenon
<1>2. a \in Nat /\ b \in Nat /\ c \in Nat
  BY <1>1
<1>3. a <= b /\ b <= c /\ (\A i \in 1..a : p[i] = q[i]) /\ \A i \in 1..b : q[i] = r[i]
  BY <1>1, Zenon DEF Pre
<1>4. a <= c /\ \A i \in 1..a : i \in 1..b
  BY <1>2, <1>3
<1> QED
  BY <1>1, <1>3, <1>4 DEF Pre

(* Of two beginnings of one sequence, one begins the other.                *)
LEMMA PreEither ==
    ASSUME NEW p \in Seq(Nat), NEW q \in Seq(Nat), NEW r \in Seq(Nat), Pre(p, r), Pre(q, r)
    PROVE  Pre(p, q) \/ Pre(q, p)
<1>1. PICK a, b : a = Len(p) /\ b = Len(q)
  BY Zenon
<1>2. a \in Nat /\ b \in Nat
  BY <1>1
<1>3. (\A i \in 1..a : p[i] = r[i]) /\ \A i \in 1..b : q[i] = r[i]
  BY <1>1, Zenon DEF Pre
<1>4. CASE a <= b
  <2>1. \A i \in 1..a : i \in 1..b
    BY <1>2, <1>4
  <2> QED
    BY <1>1, <1>3, <1>4, <2>1 DEF Pre
<1>5. CASE ~(a <= b)
  <2>1. b <= a /\ \A i \in 1..b : i \in 1..a
    BY <1>2, <1>5
  <2> QED
    BY <1>1, <1>3, <2>1 DEF Pre
<1> QED
  BY <1>4, <1>5

(* Induction from the leaves up.                                           *)
LEMMA FromLeaves ==
    ASSUME NEW N, NEW L, NEW P, Links(N, L, P), IsFiniteSet(L), NEW S,
           \A n \in L : (\A c \in L \ {ROOT} : N[c].parent = n => c \in S) => n \in S
    PROVE  \A n \in L : n \in S
<1> DEFINE Sub(n) == {m \in L : Pre(P[n], P[m])}
           B == {k \in Nat : \E n \in L : n \notin S /\ k = Cardinality(Sub(n))}
<1>1. \A n \in L : IsFiniteSet(Sub(n)) /\ Cardinality(Sub(n)) \in Nat
  <2> TAKE n \in L
  <2>1. Sub(n) \subseteq L
    OBVIOUS
  <2> HIDE DEF Sub
  <2> QED
    BY <2>1, FS_Subset, FS_CardinalityType
<1> SUFFICES ASSUME NEW x \in L, x \notin S PROVE FALSE
  OBVIOUS
<1>2. Cardinality(Sub(x)) \in B
  <2>1. Cardinality(Sub(x)) \in Nat
    BY <1>1
  <2> HIDE DEF Sub
  <2> QED
    BY <2>1
<1>3. PICK k \in B : \A l \in B : k <= l
  <2> HIDE DEF Sub
  <2>1. B \in SUBSET Nat /\ B # {}
    BY <1>2
  <2> QED
    BY <2>1, LeastNat
<1>4. PICK n \in L : n \notin S /\ k = Cardinality(Sub(n))
  <2> HIDE DEF Sub
  <2> QED
    BY <1>3
<1>5. PICK c \in L \ {ROOT} : N[c].parent = n /\ c \notin S
  BY <1>4
<1>6. Sub(c) \subseteq Sub(n) /\ n \notin Sub(c) /\ n \in Sub(n)
  <2>1. Pre(P[n], P[c]) /\ Len(P[n]) < Len(P[c])
    BY <1>5, UpFacts
  <2>2. Len(P[n]) \in Nat /\ Len(P[c]) \in Nat /\ \A m \in L : P[m] \in Seq(Nat)
    BY PathFacts
  <2>3. ASSUME NEW m \in L, Pre(P[c], P[m]) PROVE Pre(P[n], P[m])
    BY <2>1, <2>2, <2>3, PreTrans
  <2>4. ~Pre(P[c], P[n]) /\ Pre(P[n], P[n])
    BY <2>1, <2>2 DEF Pre
  <2> QED
    BY <2>3, <2>4
<1>7. Cardinality(Sub(c)) \in B
  <2>1. Cardinality(Sub(c)) \in Nat
    BY <1>1
  <2> HIDE DEF Sub
  <2> QED
    BY <1>5, <2>1
<1> HIDE DEF Sub, B
<1>8. Cardinality(Sub(c)) < Cardinality(Sub(n))
  <2>1. Cardinality(Sub(c)) <= Cardinality(Sub(n)) /\ Cardinality(Sub(n)) # Cardinality(Sub(c))
    BY <1>1, <1>6, FS_Subset
  <2>2. Cardinality(Sub(c)) \in Nat /\ Cardinality(Sub(n)) \in Nat
    BY <1>1
  <2> QED
    BY <2>1, <2>2
<1>9. Cardinality(Sub(c)) \in Nat /\ Cardinality(Sub(n)) \in Nat
  BY <1>1
<1> QED
  BY <1>3, <1>4, <1>7, <1>8, <1>9

(* The slots below n, reached through slots in `open` only.                *)
Between(P, n, x, m) == Pre(P[n], P[x]) /\ Pre(P[x], P[m]) /\ x # m

Below(L, P, open, n) ==
    {m \in L : Pre(P[n], P[m]) /\ \A x \in L : Between(P, n, x, m) => x \in open}

(* What is below a slot: the slot, and what is below its children if the   *)
(* search goes through it.                                                 *)
LEMMA BelowStep ==
    ASSUME NEW N, NEW L, NEW P, Links(N, L, P), NEW open, NEW n \in L, NEW K,
           K = Range(N[n].children)
    PROVE  Below(L, P, open, n) =
             {n} \cup (IF n \in open THEN UNION {Below(L, P, open, c) : c \in K} ELSE {})
<1>1. \A m \in L : P[m] \in Seq(Nat) /\ Pre(P[m], P[m])
  BY PathFacts DEF Pre
<1>2. \A c \in K : c \in L /\ c # ROOT /\ N[c].parent = n
  <2>1. DownLinks(N, L, n)
    BY DEF Links
  <2> QED
    BY <2>1 DEF DownLinks, Range
<1>3. ASSUME NEW m \in Below(L, P, open, n), m # n
      PROVE  n \in open /\ \E c \in K : m \in Below(L, P, open, c)
  <2>1. m \in L /\ Pre(P[n], P[m]) /\ \A x \in L : Between(P, n, x, m) => x \in open
    BY DEF Below
  <2>2. n \in open
    BY <1>1, <1>3, <2>1 DEF Between
  <2>3. PICK c \in L \ {ROOT} : N[c].parent = n /\ Pre(P[c], P[m])
    BY <1>3, <2>1, ChildOnWay
  <2>4. c \in K
    BY <2>3, KidsOf
  <2>5. Pre(P[n], P[c])
    BY <2>3, UpFacts
  <2>6. ASSUME NEW x \in L, Between(P, c, x, m) PROVE x \in open
    <3>1. Pre(P[n], P[x])
      BY <1>1, <2>5, <2>6, PreTrans DEF Between
    <3> QED
      BY <2>1, <2>6, <3>1 DEF Between
  <2>7. m \in Below(L, P, open, c)
    BY <2>1, <2>3, <2>6 DEF Below
  <2> QED
    BY <2>2, <2>4, <2>7
<1>4. n \in Below(L, P, open, n)
  <2>1. ASSUME NEW x \in L, Between(P, n, x, n) PROVE FALSE
    <3>1. P[x] = P[n]
      BY <1>1, <2>1, PreBoth DEF Between, Pre
    <3> QED
      BY <2>1, <3>1, OneSlot DEF Between
  <2> QED
    BY <1>1, <2>1 DEF Below
<1>5. ASSUME n \in open, NEW c \in K, NEW m \in Below(L, P, open, c)
      PROVE  m \in Below(L, P, open, n)
  <2>1. m \in L /\ Pre(P[c], P[m]) /\ \A x \in L : Between(P, c, x, m) => x \in open
    BY <1>5 DEF Below
  <2>2. c \in L /\ c # ROOT /\ N[c].parent = n
    BY <1>2, <1>5
  <2>3. Pre(P[n], P[c])
    BY <2>2, UpFacts
  <2>4. Pre(P[n], P[m])
    BY <1>1, <2>1, <2>2, <2>3, PreTrans
  <2>5. ASSUME NEW x \in L, Between(P, n, x, m), x # n PROVE x \in open
    <3>1. Pre(P[n], P[x]) /\ Pre(P[x], P[m]) /\ x # m
      BY <2>5 DEF Between
    <3>2. Pre(P[c], P[x])
      <4> SUFFICES ASSUME ~Pre(P[c], P[x]) PROVE FALSE
        OBVIOUS
      <4>1. Pre(P[x], P[c])
        BY <1>1, <2>1, <2>2, <3>1, PreEither
      <4>2. x # c
        BY <1>1, <2>2
      <4>3. Pre(P[x], P[n])
        BY <2>2, <4>1, <4>2, AboveParent
      <4>4. P[x] = P[n]
        BY <1>1, <3>1, <4>3, PreBoth DEF Pre
      <4> QED
        BY <2>5, <4>4, OneSlot
    <3> QED
      BY <2>1, <3>1, <3>2 DEF Between
  <2> QED
    BY <1>5, <2>1, <2>4, <2>5 DEF Below
<1>6. CASE n \in open
  BY <1>3, <1>4, <1>5, <1>6
<1>7. CASE n \notin open
  BY <1>3, <1>4, <1>7
<1> QED
  BY <1>6, <1>7

(* The children of a live slot are live.                                   *)
LEMMA KidsIn ==
    ASSUME NEW N, NEW L, NEW P, Links(N, L, P), NEW n \in L
    PROVE  \A c \in Range(N[n].children) : c \in L \ {ROOT} /\ N[c].parent = n
<1>1. DownLinks(N, L, n)
  BY DEF Links
<1> QED
  BY <1>1 DEF DownLinks, Range

(* What a traversal visits.                                                *)
IsVisit(N, open, v) ==
    v = [n \in DOMAIN N |->
           {n} \cup IF n \in open THEN UNION {v[c] : c \in Range(N[n].children)} ELSE {}]

(* sample_terminator_in_subtree (tree.rs 532-542) visits the slots whose   *)
(* path goes on from that of n, through the open slots only.               *)
LEMMA VisitedFacts ==
    ASSUME NEW t, NEW L, NEW P, Links(t.nodes, L, P), Arena(t, L), NEW open, NEW n \in L
    PROVE  Visited(t, n, open) = Below(L, P, open, n)
<1>1. PICK N : N = t.nodes
  BY Zenon
<1>2. /\ Links(N, L, P) /\ IsFiniteSet(L) /\ L \subseteq DOMAIN N
      /\ \A m \in DOMAIN N \ L : N[m] = Unused
  BY <1>1, FS_Subset DEF Arena
<1>3. \E v : IsVisit(N, open, v)
  <2>1. PICK v : v = [m \in DOMAIN N |-> IF m \in L THEN Below(L, P, open, m) ELSE {m}]
    BY Zenon
  <2>2. ASSUME NEW m \in DOMAIN N
        PROVE  v[m] = {m} \cup IF m \in open THEN UNION {v[c] : c \in Range(N[m].children)} ELSE {}
    <3>1. CASE m \in L
      <4>1. PICK K : K = Range(N[m].children)
        BY Zenon
      <4>2. Below(L, P, open, m) =
              {m} \cup (IF m \in open THEN UNION {Below(L, P, open, c) : c \in K} ELSE {})
        BY <1>2, <3>1, <4>1, BelowStep
      <4>3. \A c \in K : c \in L
        BY <1>2, <3>1, <4>1, KidsIn
      <4>4. \A c \in K : v[c] = Below(L, P, open, c)
        BY <1>2, <2>1, <4>3
      <4>5. v[m] = Below(L, P, open, m)
        BY <2>1, <3>1
      <4>6. {v[c] : c \in K} = {Below(L, P, open, c) : c \in K}
        BY <4>4
      <4> QED
        BY <4>1, <4>2, <4>5, <4>6
    <3>2. CASE m \notin L
      <4>1. N[m] = Unused
        BY <1>2, <3>2
      <4>2. Range(N[m].children) = {}
        BY <4>1 DEF Unused, NewNode, Range
      <4> QED
        BY <2>1, <3>2, <4>2
    <3> QED
      BY <3>1, <3>2
  <2>3. IsVisit(N, open, v)
    BY <2>1, <2>2 DEF IsVisit
  <2> QED
    BY <2>3
<1>4. PICK v : v = CHOOSE w : IsVisit(N, open, w)
  BY Zenon
<1>5. IsVisit(N, open, v)
  BY <1>3, <1>4, Zenon
<1>6. Visited(t, n, open) = v[n]
  BY <1>1, <1>4, Zenon DEF Visited, IsVisit
<1> DEFINE S == {m \in L : v[m] = Below(L, P, open, m)}
<1>7. ASSUME NEW m \in L, \A c \in L \ {ROOT} : N[c].parent = m => c \in S
      PROVE  m \in S
  <2>1. PICK K : K = Range(N[m].children)
    BY Zenon
  <2>2. \A c \in K : v[c] = Below(L, P, open, c)
    <3>1. \A c \in K : c \in L \ {ROOT} /\ N[c].parent = m
      BY <1>2, <2>1, KidsIn
    <3> QED
      BY <1>7, <3>1
  <2>3. {v[c] : c \in K} = {Below(L, P, open, c) : c \in K}
    BY <2>2
  <2>4. Below(L, P, open, m) =
              {m} \cup (IF m \in open THEN UNION {Below(L, P, open, c) : c \in K} ELSE {})
    BY <1>2, <2>1, BelowStep
  <2>5. v[m] = {m} \cup IF m \in open THEN UNION {v[c] : c \in K} ELSE {}
    BY <1>2, <1>5, <2>1 DEF IsVisit
  <2> QED
    BY <2>3, <2>4, <2>5
<1> HIDE DEF S
<1>8. n \in S
  BY <1>2, <1>7, FromLeaves
<1> QED
  BY <1>6, <1>8 DEF S

(* p is the beginning of q, as the properties write it.                    *)
LEMMA PrefixFacts ==
    ASSUME NEW p \in Seq(Nat), NEW q \in Seq(Nat)
    PROVE  IsPrefix(p, q) <=> Pre(p, q)
<1>1. PICK n, m : n = Len(p) /\ m = Len(q)
  BY Zenon
<1>2. n \in Nat /\ m \in Nat
  BY <1>1
<1>3. CASE n <= m
  <2>1. PICK s, r : s = SubSeq(p, 1, n) /\ r = SubSeq(q, 1, n)
    BY Zenon
  <2>2. /\ DOMAIN s = 1..n /\ \A i \in 1..n : s[i] = p[i]
        /\ s = [i \in 1..n |-> s[i]]
    BY <1>1, <1>2, <2>1
  <2>3. /\ DOMAIN r = 1..n /\ \A i \in 1..n : r[i] = q[i]
        /\ r = [i \in 1..n |-> r[i]]
    BY <1>1, <1>2, <1>3, <2>1
  <2>4. s = r <=> \A i \in 1..n : p[i] = q[i]
    BY <2>2, <2>3
  <2> QED
    BY <1>1, <1>3, <2>1, <2>4 DEF IsPrefix, Pre
<1>4. CASE ~(n <= m)
  BY <1>1, <1>4 DEF IsPrefix, Pre
<1> QED
  BY <1>3, <1>4

(* The live slots and their paths, as the tree has them.                   *)
Reads(L, P) == Holds(tree, L, P, paths) /\ Compact(tree.nodes, L, ROOT)

(* What the invariant gives a reader of the tree.                          *)
LEMMA ReadsFacts ==
    ASSUME NEW L, NEW P, Reads(L, P)
    PROVE  /\ Links(tree.nodes, L, P) /\ Arena(tree, L) /\ Content(tree.nodes, L, P, paths)
           /\ IsFiniteSet(L) /\ L \subseteq DOMAIN tree.nodes /\ ROOT \in L
           /\ \A n \in L : P[n] \in Seq(Nat)
BY FS_Subset DEF Reads, Holds, Arena, Links

(* The traversal from ROOT finds exactly the live slots.                   *)
LEMMA ReachableFacts ==
    ASSUME NEW L, NEW P, Reads(L, P)
    PROVE  Reachable = L
<1>1. PICK N : N = tree.nodes
  BY Zenon
<1>2. Links(N, L, P) /\ Arena(tree, L) /\ L \subseteq DOMAIN N /\ ROOT \in L /\ P[ROOT] = <<>>
  BY <1>1, ReadsFacts DEF Links
<1>3. Reachable = Below(L, P, DOMAIN N, ROOT)
  BY <1>1, <1>2, VisitedFacts DEF Reachable
<1>4. \A m \in L : Pre(P[ROOT], P[m])
  BY <1>2, PathFacts DEF Pre
<1> QED
  BY <1>2, <1>3, <1>4 DEF Below

(* The recursion that reads the paths.                                     *)
IsDown(N, d) ==
    d = [m \in DOMAIN N |-> IF m = ROOT THEN <<>> ELSE d[N[m].parent] \o N[m].edge]

(* A continued path is the concatenation.                                  *)
LEMMA JoinedIs ==
    ASSUME NEW p \in Seq(Nat), NEW e \in Seq(Nat), NEW q \in Seq(Nat), Joined(q, p, e)
    PROVE  q = p \o e
<1>1. PICK a, b, s : a = Len(p) /\ b = Len(e) /\ s = p \o e
  BY Zenon
<1>2. a \in Nat /\ b \in Nat
  BY <1>1
<1>3. /\ Len(q) = a + b /\ (\A i \in 1..a : q[i] = p[i])
      /\ \A i \in 1..b : q[a + i] = e[i]
  BY <1>1, Zenon DEF Joined
<1>4. s \in Seq(Nat) /\ Len(s) = a + b
  BY <1>1, <1>2
<1>5. \A i \in 1..(a + b) : s[i] = IF i <= a THEN p[i] ELSE e[i - a]
  BY <1>1, <1>2
<1>6. ASSUME NEW i \in 1..(a + b) PROVE q[i] = s[i]
  <2>1. CASE i <= a
    <3>1. i \in 1..a
      BY <1>2, <2>1
    <3> QED
      BY <1>3, <1>5, <2>1, <3>1
  <2>2. CASE ~(i <= a)
    <3>1. PICK j : j = i - a
      BY Zenon
    <3>2. j \in 1..b /\ i = a + j
      BY <1>2, <2>2, <3>1
    <3> QED
      BY <1>3, <1>5, <2>2, <3>1, <3>2
  <2> QED
    BY <2>1, <2>2
<1>7. q = [i \in 1..(a + b) |-> q[i]] /\ s = [i \in 1..(a + b) |-> s[i]]
  BY <1>3, <1>4
<1> QED
  BY <1>1, <1>6, <1>7

(* The path the recursion reads off the parent links is the path of the    *)
(* slot.                                                                   *)
LEMMA NodePathFacts ==
    ASSUME NEW L, NEW P, Reads(L, P), NEW n \in L
    PROVE  NodePath(n) = P[n]
<1>1. PICK N : N = tree.nodes
  BY Zenon
<1>2. /\ Links(N, L, P) /\ L \subseteq DOMAIN N /\ ROOT \in L
      /\ \A m \in DOMAIN N \ L : N[m] = Unused
      /\ P[ROOT] = <<>>
  BY <1>1, ReadsFacts DEF Arena, Links
<1>3. ASSUME NEW m \in L \ {ROOT}
      PROVE  /\ N[m].parent \in L /\ P[m] = P[N[m].parent] \o N[m].edge
             /\ Len(P[N[m].parent]) < Len(P[m])
  <2>1. UpLink(N, L, P, m)
    BY <1>2 DEF Links
  <2>2. PICK u, e : u = N[m].parent /\ e = N[m].edge
    BY Zenon
  <2>3. u \in L /\ e \in Seq(Nat) /\ Joined(P[m], P[u], e)
    BY <2>1, <2>2 DEF UpLink
  <2>4. P[m] \in Seq(Nat) /\ P[u] \in Seq(Nat)
    BY <1>2, <2>3, PathFacts
  <2>5. P[m] = P[u] \o e
    BY <2>3, <2>4, JoinedIs
  <2>6. Len(P[u]) < Len(P[m])
    BY <1>2, <2>2, UpFacts
  <2> QED
    BY <2>2, <2>3, <2>5, <2>6
<1>4. \E d : IsDown(N, d)
  <2>1. PICK d : d = [m \in DOMAIN N |-> IF m \in L THEN P[m] ELSE <<>>]
    BY Zenon
  <2>2. ASSUME NEW m \in DOMAIN N
        PROVE  d[m] = IF m = ROOT THEN <<>> ELSE d[N[m].parent] \o N[m].edge
    <3>1. CASE m = ROOT
      BY <1>2, <2>1, <3>1
    <3>2. CASE m \in L \ {ROOT}
      <4>1. d[m] = P[m] /\ d[N[m].parent] = P[N[m].parent]
        BY <1>2, <1>3, <2>1, <3>2
      <4> QED
        BY <1>3, <3>2, <4>1
    <3>3. CASE m \notin L
      <4>1. N[m].parent = ROOT /\ N[m].edge = <<>>
        BY <1>2, <3>3 DEF Unused, NewNode
      <4>2. d[ROOT] = <<>> /\ d[m] = <<>>
        BY <1>2, <2>1, <3>3
      <4>3. <<>> \o <<>> = <<>>
        OBVIOUS
      <4> QED
        BY <1>2, <3>3, <4>1, <4>2, <4>3
    <3> QED
      BY <3>1, <3>2, <3>3
  <2>3. IsDown(N, d)
    BY <2>1, <2>2 DEF IsDown
  <2> QED
    BY <2>3
<1>5. PICK d : d = CHOOSE x : IsDown(N, x)
  BY Zenon
<1>6. IsDown(N, d)
  BY <1>4, <1>5, Zenon
<1>7. NodePath(n) = d[n]
  BY <1>1, <1>5, Zenon DEF NodePath, IsDown
<1> DEFINE B == {l \in Nat : \E m \in L : l = Len(P[m]) /\ d[m] # P[m]}
<1> SUFFICES ASSUME d[n] # P[n] PROVE FALSE
  BY <1>7
<1>8. Len(P[n]) \in B
  <2>1. Len(P[n]) \in Nat
    BY <1>2, PathFacts
  <2> QED
    BY <2>1
<1>9. PICK l \in B : \A k \in B : l <= k
  BY <1>8, LeastNat
<1>10. PICK m \in L : l = Len(P[m]) /\ d[m] # P[m]
  BY <1>9
<1>11. m # ROOT
  BY <1>2, <1>6, <1>10 DEF IsDown
<1>12. PICK u : u = N[m].parent
  BY Zenon
<1>13. u \in L /\ P[m] = P[u] \o N[m].edge /\ Len(P[u]) < Len(P[m])
  BY <1>3, <1>11, <1>12
<1>14. d[m] = d[u] \o N[m].edge
  BY <1>2, <1>6, <1>11, <1>12 DEF IsDown
<1>15. d[u] = P[u]
  <2>1. Len(P[u]) \in Nat /\ Len(P[m]) \in Nat
    BY <1>2, <1>13, PathFacts
  <2>2. Len(P[u]) \notin B
    <3>1. PICK x, y : x = Len(P[u]) /\ y = Len(P[m])
      BY Zenon
    <3>2. x < y /\ x \in Nat /\ y \in Nat /\ \A k \in B : y <= k
      BY <1>9, <1>10, <1>13, <2>1, <3>1
    <3>3. ~(y <= x)
      BY <3>2
    <3> QED
      BY <3>1, <3>2, <3>3
  <2> QED
    BY <1>13, <2>1, <2>2
<1> QED
  BY <1>10, <1>13, <1>14, <1>15

(* Every slot but ROOT has a request at it or below it.                    *)
LEMMA HasRequest ==
    ASSUME NEW L, NEW P, Reads(L, P), NEW n \in L, n # ROOT
    PROVE  \E r \in DOMAIN paths : Pre(P[n], paths[r])
<1>1. PICK N : N = tree.nodes
  BY Zenon
<1>2. /\ Links(N, L, P) /\ IsFiniteSet(L) /\ Content(N, L, P, paths) /\ Compact(N, L, ROOT)
      /\ \A m \in L : P[m] \in Seq(Nat)
  BY <1>1, ReadsFacts DEF Reads
<1> DEFINE S == {m \in L : m # ROOT => \E r \in DOMAIN paths : Pre(P[m], paths[r])}
<1>3. ASSUME NEW m \in L, \A c \in L \ {ROOT} : N[c].parent = m => c \in S
      PROVE  m \in S
  <2> SUFFICES ASSUME m # ROOT PROVE \E r \in DOMAIN paths : Pre(P[m], paths[r])
    OBVIOUS
  <2>1. Branching(N[m])
    BY <1>2 DEF Compact
  <2>2. CASE N[m].terminators # {}
    <3>1. PICK r \in DOMAIN paths : paths[r] = P[m]
      BY <1>2, <2>2 DEF Content
    <3>2. Pre(P[m], P[m])
      BY <1>2 DEF Pre
    <3> QED
      BY <3>1, <3>2
  <2>3. CASE DOMAIN N[m].children # {}
    <3>1. PICK c \in Range(N[m].children) : TRUE
      BY <2>3 DEF Range
    <3>2. c \in L \ {ROOT} /\ N[c].parent = m
      BY <1>2, <3>1, KidsIn
    <3>3. PICK r \in DOMAIN paths : Pre(P[c], paths[r])
      BY <1>3, <3>2
    <3>4. Pre(P[m], P[c]) /\ P[m] \in Seq(Nat) /\ P[c] \in Seq(Nat)
      BY <1>2, <3>2, UpFacts
    <3>5. PICK e \in L : P[e] = paths[r]
      BY <1>2 DEF Content
    <3>6. paths[r] \in Seq(Nat)
      BY <1>2, <3>5
    <3> QED
      BY <3>3, <3>4, <3>6, PreTrans
  <2> QED
    BY <2>1, <2>2, <2>3 DEF Branching
<1> HIDE DEF S
<1>4. n \in S
  BY <1>2, <1>3, FromLeaves
<1> QED
  BY <1>4 DEF S

(* The map read off the tree is the map the calls keep.                    *)
LEMMA PathsInTreeFacts == ASSUME IInv PROVE PathsInTree = paths
<1>1. PICK L, P : Reads(L, P)
  BY DEF IInv, Keeps, Reads
<1>2. PICK N, D : N = tree.nodes /\ D = DOMAIN paths
  BY Zenon
<1>3. Links(N, L, P) /\ Content(N, L, P, paths) /\ Reachable = L
  BY <1>1, <1>2, ReadsFacts, ReachableFacts
<1>4. PICK ends : ends = {n \in L : N[n].terminators # {}}
  BY Zenon
<1>5. /\ \A n \in L : N[n].terminators = {r \in D : paths[r] = P[n]}
      /\ \A r \in D : \E n \in L : P[n] = paths[r]
  BY <1>2, <1>3 DEF Content
<1>6. UNION {N[n].terminators : n \in ends} = D
  BY <1>4, <1>5
<1>7. ASSUME NEW r \in D PROVE NodePath(CHOOSE n \in ends : r \in N[n].terminators) = paths[r]
  <2>1. PICK n : n = CHOOSE x \in ends : r \in N[x].terminators
    BY Zenon
  <2>2. \E x \in ends : r \in N[x].terminators
    BY <1>4, <1>5
  <2>3. n \in ends /\ r \in N[n].terminators
    BY <2>1, <2>2, Zenon
  <2>4. n \in L /\ paths[r] = P[n]
    BY <1>4, <1>5, <2>3
  <2>5. NodePath(n) = P[n]
    BY <1>1, <2>4, NodePathFacts
  <2> QED
    BY <2>1, <2>4, <2>5
<1>8. PathsInTree = [r \in UNION {N[n].terminators : n \in ends} |->
                        NodePath(CHOOSE n \in ends : r \in N[n].terminators)]
  BY <1>2, <1>3, <1>4 DEF PathsInTree
<1>9. PathsInTree = [r \in D |-> NodePath(CHOOSE n \in ends : r \in N[n].terminators)]
  BY <1>6, <1>8, Zenon
<1>10. paths = [r \in D |-> paths[r]]
  BY <1>2 DEF IInv, IsMap
<1>11. PICK f, g : /\ f = [r \in D |-> NodePath(CHOOSE n \in ends : r \in N[n].terminators)]
                   /\ g = [r \in D |-> paths[r]]
  BY Zenon
<1>12. \A r \in D : f[r] = g[r]
  <2> SUFFICES ASSUME NEW r \in D PROVE f[r] = g[r]
    BY Zenon
  <2>1. f[r] = NodePath(CHOOSE n \in ends : r \in N[n].terminators) /\ g[r] = paths[r]
    BY <1>11, Zenon
  <2> QED
    BY <1>7, <2>1, Zenon
<1>13. f = g
  BY <1>11, <1>12, Zenon
<1> QED
  BY <1>9, <1>10, <1>11, <1>13, Zenon

-----------------------------------------------------------------------------
(* The tree is well formed.                                                *)

(* What the invariant says in the terms of the properties.                 *)
LEMMA InvType == ASSUME IInv PROVE TypeOK
<1>1. PICK L, P : Reads(L, P)
  BY DEF IInv, Keeps, Reads
<1>2. PICK N, D : N = tree.nodes /\ D = DOMAIN tree.nodes
  BY Zenon
<1>3. Links(N, L, P) /\ Content(N, L, P, paths) /\ Arena(tree, L) /\ L \subseteq D /\ ROOT \in L
  BY <1>1, <1>2, ReadsFacts
<1>4. D = 0..(Cardinality(D) - 1)
  BY <1>2, <1>3 DEF Arena
<1>5. ASSUME NEW i \in D
      PROVE  N[i].parent \in D /\ N[i].pending_count \in Nat /\ N[i].terminators \subseteq Rid
  <2>1. CASE i \in L
    <3>1. N[i].parent \in L
      BY <1>3, <2>1, UpFacts DEF Links
    <3>2. N[i].pending_count \in Nat
      <4>1. CASE i = ROOT
        BY <1>3, <4>1 DEF Content
      <4>2. CASE i # ROOT
        <5>1. N[i].pending_count = Cardinality(Under(paths, P[i])) /\ IsFiniteSet(DOMAIN paths)
          BY <1>3, <2>1, <4>2 DEF Content
        <5>2. Under(paths, P[i]) \subseteq DOMAIN paths
          BY DEF Under
        <5> QED
          BY <5>1, <5>2, FS_Subset, FS_CardinalityType
      <4> QED
        BY <4>1, <4>2
    <3>3. N[i].terminators \subseteq DOMAIN paths
      BY <1>3, <2>1 DEF Content
    <3> QED
      BY <1>3, <3>1, <3>2, <3>3 DEF IInv, IsMap
  <2>2. CASE i \notin L
    <3>1. N[i] = Unused
      BY <1>2, <1>3, <2>2 DEF Arena
    <3> QED
      BY <1>3, <3>1 DEF Unused, NewNode
  <2> QED
    BY <2>1, <2>2
<1>6. ToSet(tree.free) = D \ L
  BY <1>2, <1>3 DEF Arena, Enumerates
<1>7. DOMAIN paths \subseteq Rid /\ Range(paths) \subseteq Prompts
  BY DEF IInv, IsMap, Range
<1>8. ret \in [err : {"none", "ValueError", "KeyError"}, n : Nat]
  BY DEF IInv
<1> QED
  BY <1>2, <1>3, <1>4, <1>5, <1>6, <1>7, <1>8 DEF TypeOK

(* The invariant implies that every slot is either reachable from the      *)
(* root or on the free list, once.                                         *)
LEMMA InvArena == ASSUME IInv PROVE ArenaExact
<1>1. PICK L, P : Reads(L, P)
  BY DEF IInv, Keeps, Reads
<1>2. PICK D, s : D = DOMAIN tree.nodes /\ s = tree.free
  BY Zenon
<1>3. /\ Reachable = L /\ Links(tree.nodes, L, P) /\ Arena(tree, L)
      /\ IsFiniteSet(L) /\ L \subseteq D /\ ROOT \in L
  BY <1>1, <1>2, ReadsFacts, ReachableFacts
<1>4. Enumerates(s, D \ L) /\ IsFiniteSet(D)
  BY <1>2, <1>3 DEF Arena
<1>5. ToSet(s) = D \ L /\ IsInjective(s)
  BY <1>4 DEF Enumerates
<1>6. PICK c, d, e : c = Cardinality(D) /\ d = Len(s) /\ e = Cardinality(L)
  BY Zenon
<1>7. c - d = e
  <2>1. Cardinality(D \ L) = d
    BY <1>4, <1>6, EnumLength
  <2>2. L = D \ (D \ L) /\ D \cap (D \ L) = D \ L
    BY <1>3
  <2>3. Cardinality(D \ (D \ L)) = Cardinality(D) - Cardinality(D \cap (D \ L))
    BY <1>4, FS_Difference
  <2> QED
    BY <1>6, <2>1, <2>2, <2>3
<1>8. LiveNodes(tree) = Cardinality(L)
  BY <1>2, <1>6, <1>7 DEF LiveNodes
<1>9. ASSUME DOMAIN paths = {} PROVE LiveNodes(tree) = 1
  <2>1. \A n \in L : n = ROOT
    BY <1>1, <1>9, HasRequest
  <2>2. L = {ROOT}
    BY <1>3, <2>1
  <2> QED
    BY <1>8, <2>2, FS_Singleton
<1> QED
  BY <1>2, <1>3, <1>5, <1>8, <1>9 DEF ArenaExact

(* The requests below a path, as the properties write them.                *)
LEMMA StartingFacts ==
    ASSUME IInv, NEW p \in Seq(Nat)
    PROVE  StartingWith(p) = Under(paths, p)
<1>1. \A r \in DOMAIN paths : paths[r] \in Seq(Nat)
  BY PendingAssumption DEF IInv, IsMap
<1> QED
  BY <1>1, PrefixFacts DEF StartingWith, Under

(* The invariant implies that pending_count is the number of requests      *)
(* whose tokens go through the slot, and the terminators those that end    *)
(* there.                                                                  *)
LEMMA InvCounts == ASSUME IInv PROVE CountsExact
<1>1. PICK L, P : Reads(L, P)
  BY DEF IInv, Keeps, Reads
<1>2. PICK N : N = tree.nodes
  BY Zenon
<1>3. Reachable = L /\ Content(N, L, P, paths) /\ \A n \in L : P[n] \in Seq(Nat)
  BY <1>1, <1>2, ReadsFacts, ReachableFacts
<1>4. ASSUME NEW n \in L
      PROVE  /\ N[n].terminators = EndingAt(NodePath(n))
             /\ n # ROOT => N[n].pending_count = Cardinality(StartingWith(NodePath(n)))
  <2>1. NodePath(n) = P[n]
    BY <1>1, NodePathFacts
  <2>2. StartingWith(P[n]) = Under(paths, P[n])
    BY <1>3, StartingFacts
  <2> QED
    BY <1>3, <2>1, <2>2 DEF Content, EndingAt
<1> QED
  BY <1>2, <1>3, <1>4 DEF CountsExact

(* The invariant implies that the tree is compressed: every slot but the   *)
(* root ends a request or branches.                                        *)
LEMMA InvCompressed == ASSUME IInv PROVE Compressed
<1>1. PICK L, P : Reads(L, P)
  BY DEF IInv, Keeps, Reads
<1>2. PICK N : N = tree.nodes
  BY Zenon
<1>3. Reachable = L /\ Links(N, L, P) /\ IsFiniteSet(L) /\ Compact(N, L, ROOT)
  BY <1>1, <1>2, ReadsFacts, ReachableFacts DEF Reads
<1>4. ASSUME NEW n \in L \ {ROOT}
      PROVE  N[n].edge # <<>> /\ (N[n].terminators # {} \/ Cardinality(DOMAIN N[n].children) >= 2)
  <2>1. N[n].edge # <<>>
    BY <1>3 DEF Links, UpLink
  <2>2. Branching(N[n])
    BY <1>3 DEF Compact
  <2>3. KidsAre(N[n].children)
    BY <1>3, KidsCount
  <2>4. (\E j, k \in DOMAIN N[n].children : j # k) => Cardinality(DOMAIN N[n].children) >= 2
    <3>1. PICK c : c = Cardinality(DOMAIN N[n].children)
      BY Zenon
    <3>2. c \in Nat /\ (c > 1 <=> \E j, k \in DOMAIN N[n].children : j # k)
      BY <2>3, <3>1 DEF KidsAre
    <3>3. c > 1 => c >= 2
      BY <3>2
    <3> QED
      BY <3>1, <3>2, <3>3
  <2> QED
    BY <2>1, <2>2, <2>4 DEF Branching
<1> QED
  BY <1>2, <1>3, <1>4 DEF Compressed

(* The radix tree stays well formed whatever is inserted and removed: the  *)
(* arena has no lost or doubly used slot, the parent and child links       *)
(* agree, pending_count and the terminators are exact, and no slot is      *)
(* left that gc or split_edge should have merged.                          *)
THEOREM TreeWellFormed == Spec => []WellFormed
<1>1. IInv => WellFormed
  BY InvType, InvArena, InvCounts, InvCompressed DEF WellFormed
<1> QED
  BY <1>1, PendingInvariant, PTL

-----------------------------------------------------------------------------
(* The tree is a map.                                                      *)

(* The size of a set, as the specification of the map names it.            *)
LEMMA SizeInMap == \A S : Map!Cardinality(S) = Cardinality(S)
BY DEF Map!Cardinality, Cardinality

(* A sequence, in the terms the provers need.                              *)
LEMMA SeqFacts ==
    ASSUME NEW T, NEW s \in Seq(T)
    PROVE  Len(s) \in Nat /\ DOMAIN s = 1..Len(s) /\ \A i \in 1..Len(s) : s[i] \in T
OBVIOUS

(* Items with pairwise different rids have as many rids as items.          *)
LEMMA DistinctRids ==
    ASSUME NEW items \in Seq([rid : Rid, tokens : Prompts]), NEW R,
           R = {items[i].rid : i \in 1..Len(items)}
    PROVE  /\ Len(items) \in Nat /\ Cardinality(R) \in Nat
           /\ Cardinality(R) < Len(items)
                <=> \E i, j \in 1..Len(items) : i # j /\ items[i].rid = items[j].rid
<1>1. PICK n, T : n = Len(items) /\ T = [rid : Rid, tokens : Prompts]
  BY Zenon
<1>2. n \in Nat /\ \A i \in 1..n : items[i] \in T
  BY <1>1, SeqFacts, Zenon
<1>3. PICK f : f = [i \in 1..n |-> items[i].rid]
  BY Zenon
<1>4. R = {f[i] : i \in 1..n}
  BY <1>1, <1>3
<1>5. f \in Surjection(1..n, R)
  BY <1>3, <1>4 DEF Surjection
<1>6. IsFiniteSet(1..n) /\ Cardinality(1..n) = n
  BY <1>2, UpTo
<1>7. /\ IsFiniteSet(R) /\ Cardinality(R) <= n
      /\ Cardinality(R) = n <=> f \in Injection(1..n, R)
  BY <1>5, <1>6, FS_Surjection
<1>8. PICK c : c = Cardinality(R)
  BY Zenon
<1>9. c \in Nat
  BY <1>7, <1>8, FS_CardinalityType
<1>10. f \in Injection(1..n, R) <=> \A i, j \in 1..n : items[i].rid = items[j].rid => i = j
  <2>1. f \in [1..n -> R]
    BY <1>5 DEF Surjection
  <2> QED
    BY <1>3, <2>1 DEF Injection, IsInjective
<1>11. c < n <=> ~(c = n)
  BY <1>2, <1>7, <1>8, <1>9
<1> QED
  BY <1>1, <1>2, <1>7, <1>8, <1>9, <1>10, <1>11, Zenon

(* The tree and the map agree.                                             *)
Agree == PathsInTree = paths

(* Each call of the tree is the call of the map.                           *)
LEMMA InsertMaps ==
    ASSUME IInv, PathsInTree = paths, PathsInTree' = paths', NEW rid \in Rid, NEW tokens \in Prompts,
           PyInsert(rid, tokens)
    PROVE  Map!Insert(rid, tokens)
<1>1. /\ rid \in DOMAIN paths => ret' = Raise("ValueError") /\ paths' = paths
      /\ rid \notin DOMAIN paths => ret' = Ok(1) /\ paths' = Put(paths, rid, tokens)
  BY PyInsertKeeps
<1>2. CASE rid \in DOMAIN paths
  BY <1>1, <1>2 DEF Map!Insert, Map!Raise, Raise
<1>3. CASE rid \notin DOMAIN paths
  BY <1>1, <1>3 DEF Map!Insert, Map!Ok, Ok, Put
<1> QED
  BY <1>2, <1>3

(* A remove or discard of the tree is one of the map.                      *)
LEMMA RemoveMaps ==
    ASSUME IInv, PathsInTree = paths, PathsInTree' = paths', NEW rid \in Rid
    PROVE  /\ PyRemove(rid) => Map!Remove(rid)
           /\ PyDiscard(rid) => Map!Discard(rid)
<1> SUFFICES ASSUME PyRemove(rid) \/ PyDiscard(rid)
             PROVE  /\ PyRemove(rid) => Map!Remove(rid)
                    /\ PyDiscard(rid) => Map!Discard(rid)
  OBVIOUS
<1>1. PICK D : D = DOMAIN paths
  BY Zenon
<1>2. /\ rid \notin D => paths' = paths
      /\ rid \in D => paths' = Restrict(paths, D \ {rid})
      /\ PyRemove(rid) => ret' = IF rid \in D THEN Ok(1) ELSE Raise("KeyError")
      /\ PyDiscard(rid) => ret' = Ok(IF rid \in D THEN 1 ELSE 0)
  BY <1>1, PyRemoveKeeps
<1>3. paths' = [r \in D \ {rid} |-> paths[r]]
  <2>1. rid \notin D => D \ {rid} = D
    OBVIOUS
  <2>2. paths = [r \in D |-> paths[r]]
    BY <1>1 DEF IInv, IsMap
  <2> QED
    BY <1>2, <2>1, <2>2 DEF Restrict
<1>4. paths' = Map!Without({rid})
  BY <1>1, <1>3 DEF Map!Without
<1>5. Cardinality({rid} \cap D) = IF rid \in D THEN 1 ELSE 0
  <2>1. rid \in D => {rid} \cap D = {rid}
    OBVIOUS
  <2>2. rid \notin D => {rid} \cap D = {}
    OBVIOUS
  <2> QED
    BY <2>1, <2>2, FS_Singleton, FS_EmptySet
<1>6. PyRemove(rid) => Map!Remove(rid)
  BY <1>1, <1>2, <1>4 DEF Map!Remove, Map!Ok, Map!Raise, Ok, Raise
<1>7. PyDiscard(rid) => Map!Discard(rid)
  <2>1. PICK c : c = Map!Cardinality({rid} \cap DOMAIN PathsInTree)
    BY Zenon
  <2>2. c = IF rid \in D THEN 1 ELSE 0
    BY <1>1, <1>5, <2>1, SizeInMap
  <2>3. PyDiscard(rid) => ret' = Map!Ok(c)
    BY <1>2, <2>2 DEF Map!Ok, Ok
  <2> QED
    BY <1>4, <2>1, <2>3, Zenon DEF Map!Discard
<1> QED
  BY <1>6, <1>7

(* An insert_many of the tree is one of the map.                           *)
LEMMA InsertManyMaps ==
    ASSUME IInv, PathsInTree = paths, PathsInTree' = paths', NEW items \in Batches,
           PyInsertMany(items)
    PROVE  Map!InsertMany(items)
<1>1. items \in Seq([rid : Rid, tokens : Prompts])
  BY PendingAssumption
<1>2. PICK n, R, D : n = Len(items) /\ R = {items[i].rid : i \in 1..Len(items)} /\ D = DOMAIN paths
  BY Zenon
<1>3. /\ n \in Nat /\ Cardinality(R) \in Nat
      /\ Cardinality(R) < n <=> \E i, j \in 1..n : i # j /\ items[i].rid = items[j].rid
  BY <1>1, <1>2, DistinctRids
<1>4. DOMAIN items = 1..n
  <2>1. PICK T : T = [rid : Rid, tokens : Prompts]
    BY Zenon
  <2> QED
    BY <1>1, <1>2, <2>1
<1>5. RejectBatch(items) <=> R \cap D # {} \/ Cardinality(R) < n
  BY <1>2, <1>3, <1>4 DEF RejectBatch
<1>6. /\ RejectBatch(items) => ret' = Raise("ValueError") /\ paths' = paths
      /\ ~RejectBatch(items) => ret' = Ok(n) /\ Filled(items, n, paths')
  BY <1>2, PyInsertManyKeeps
<1>7. CASE RejectBatch(items)
  <2>1. R \cap DOMAIN PathsInTree # {} \/ Map!Cardinality(R) < Len(items)
    BY <1>2, <1>5, <1>7, SizeInMap
  <2>2. ret' = Map!Raise("ValueError") /\ PathsInTree' = PathsInTree
    BY <1>6, <1>7 DEF Map!Raise, Raise
  <2> QED
    BY <1>2, <2>1, <2>2, Zenon DEF Map!InsertMany
<1>8. CASE ~RejectBatch(items)
  <2>1. PICK g : g = [r \in D \cup R |->
                        IF r \in R THEN items[CHOOSE i \in 1..n : items[i].rid = r].tokens
                        ELSE paths[r]]
    BY Zenon
  <2>2. DOMAIN paths' = D \cup R
    BY <1>2, <1>6, <1>8 DEF Filled
  <2>3. ASSUME NEW r \in D \cup R PROVE paths'[r] = g[r]
    <3>1. CASE r \in R
      <4>1. PICK k : k = CHOOSE i \in 1..n : items[i].rid = r
        BY Zenon
      <4>2. \E i \in 1..n : items[i].rid = r
        BY <1>2, <3>1
      <4>3. k \in 1..n /\ items[k].rid = r
        BY <4>1, <4>2, Zenon
      <4>4. g[r] = items[k].tokens
        BY <2>1, <3>1, <4>1
      <4>5. paths'[items[k].rid] = items[k].tokens
        BY <1>6, <1>8, <4>3 DEF Filled
      <4> QED
        BY <4>3, <4>4, <4>5
    <3>2. CASE r \notin R
      BY <1>2, <1>6, <1>8, <2>1, <3>2 DEF Filled
    <3> QED
      BY <3>1, <3>2
  <2>4. paths' = [r \in DOMAIN paths' |-> paths'[r]]
    BY PyInsertManyKeeps DEF IInv, IsMap
  <2>5. paths' = g
    BY <2>1, <2>2, <2>3, <2>4
  <2>6. PICK pt : pt = PathsInTree
    BY Zenon
  <2>7. ~(R \cap DOMAIN pt # {} \/ Map!Cardinality(R) < Len(items)) /\ ret' = Map!Ok(Len(items))
    BY <1>2, <1>5, <1>6, <1>8, <2>6, SizeInMap DEF Ok, Map!Ok
  <2>8. PathsInTree' = [r \in DOMAIN pt \cup R |->
                        IF r \in R THEN items[CHOOSE i \in 1..Len(items) : items[i].rid = r].tokens
                        ELSE pt[r]]
    BY <1>2, <2>1, <2>5, <2>6
  <2> QED
    BY <1>2, <2>6, <2>7, <2>8 DEF Map!InsertMany
<1> QED
  BY <1>7, <1>8

(* A remove_many of the tree is one of the map.                            *)
LEMMA RemoveManyMaps ==
    ASSUME IInv, PathsInTree = paths, PathsInTree' = paths', NEW rids \in SUBSET Rid,
           PyRemoveMany(rids)
    PROVE  Map!RemoveMany(rids)
<1>1. /\ paths' = Restrict(paths, DOMAIN paths \ rids)
      /\ ret' = Ok(Cardinality(rids \cap DOMAIN paths))
  BY PyRemoveManyKeeps
<1>2. PathsInTree' = Map!Without(rids)
  BY <1>1 DEF Map!Without, Restrict
<1>3. ret' = Map!Ok(Map!Cardinality(rids \cap DOMAIN PathsInTree))
  BY <1>1, SizeInMap DEF Map!Ok, Ok
<1> QED
  BY <1>2, <1>3, Zenon DEF Map!RemoveMany

(* The requests and tokens that can be read off the tree are those of the  *)
(* map the PendingTree class keeps, in every reachable state.              *)
THEOREM TreeAgrees == Spec => []Agree
<1>1. IInv => Agree
  BY PathsInTreeFacts DEF Agree
<1> QED
  BY <1>1, PendingInvariant, PTL

(* The tree implements the map of PendingMap: each operation on the radix  *)
(* tree, read through the paths from the root to the terminators, is the   *)
(* operation of the same name on a map from rids to tokens, errors and     *)
(* answers included.                                                       *)
THEOREM TreeImplementsMap == Spec => ImplementsMap
<1>1. Init => Map!Init
  <2> SUFFICES ASSUME Init PROVE Map!Init
    OBVIOUS
  <2>1. PathsInTree = paths
    BY InitKeeps, PathsInTreeFacts
  <2> QED
    BY <2>1 DEF Init, Map!Init, Map!Ok, Ok
<1>2. IInv /\ Agree /\ Agree' /\ [Next]_vars => [Map!Next]_Map!vars
  <2> SUFFICES ASSUME IInv, Agree, Agree', [Next]_vars PROVE [Map!Next]_Map!vars
    OBVIOUS
  <2>1. ASSUME NEW rid \in Rid, NEW tokens \in Prompts, PyInsert(rid, tokens)
        PROVE  [Map!Next]_Map!vars
    BY <2>1, InsertMaps DEF Agree, Map!Next
  <2>2. ASSUME NEW rid \in Rid, PyRemove(rid) PROVE [Map!Next]_Map!vars
    BY <2>2, RemoveMaps DEF Agree, Map!Next
  <2>3. ASSUME NEW rid \in Rid, PyDiscard(rid) PROVE [Map!Next]_Map!vars
    BY <2>3, RemoveMaps DEF Agree, Map!Next
  <2>4. ASSUME NEW items \in Batches, PyInsertMany(items) PROVE [Map!Next]_Map!vars
    BY <2>4, InsertManyMaps DEF Agree, Map!Next
  <2>5. ASSUME NEW rids \in SUBSET Rid, PyRemoveMany(rids) PROVE [Map!Next]_Map!vars
    BY <2>5, RemoveManyMaps DEF Agree, Map!Next
  <2>6. CASE UNCHANGED vars
    BY <2>6 DEF Agree, vars, Map!vars
  <2> QED
    BY <2>1, <2>2, <2>3, <2>4, <2>5, <2>6 DEF Next
<1> QED
  BY <1>1, <1>2, PendingInvariant, TreeAgrees, PTL DEF Spec, ImplementsMap, Map!Spec

-----------------------------------------------------------------------------
(* Demand along a path, and the eviction priority.                         *)

(* How a stopped walk of the tokens p stands to the paths.                 *)
LEMMA WalkEnd ==
    ASSUME NEW L, NEW P, Reads(L, P), NEW p \in Seq(Nat), NEW d, d = Descend(tree, p)
    PROVE  /\ Matched(tree.nodes, L, P, p, d.node, d.offset, d.consumed)
           /\ Ends(tree.nodes, p, d.node, d.offset, d.consumed)
<1>1. Links(tree.nodes, L, P)
  BY ReadsFacts
<1> QED
  BY <1>1, DescendFacts DEF OnTheWay, Stopped

(* The slot a walk has entered holds what is below the tokens consumed, as *)
(* it does for any h that ends within the slot's edge.                     *)
LEMMA EnteredCount ==
    ASSUME NEW L, NEW P, Reads(L, P), NEW p \in Seq(Nat), NEW n, NEW o, NEW k,
           Matched(tree.nodes, L, P, p, n, o, k), n # ROOT,
           NEW h \in Seq(Nat), Len(P[tree.nodes[n].parent]) < Len(h), Len(h) <= k,
           \A i \in 1..Len(h) : h[i] = p[i]
    PROVE  Under(paths, h) = Under(paths, P[n])
<1>1. PICK N, j : N = tree.nodes /\ j = Len(h)
  BY Zenon
<1>2. Links(N, L, P) /\ Holds(tree, L, P, paths)
  BY <1>1, ReadsFacts DEF Reads
<1>3. /\ n \in L /\ o \in Nat /\ k \in Nat /\ o <= Len(N[n].edge)
      /\ k + Len(N[n].edge) = Len(P[n]) + o /\ \A i \in 1..k : p[i] = P[n][i]
  BY <1>1 DEF Matched
<1>4. Len(P[n]) \in Nat /\ Len(N[n].edge) \in Nat /\ j \in Nat
  BY <1>1, <1>2, <1>3, PathFacts, EdgeFacts
<1>5. k <= Len(P[n])
  BY <1>3, <1>4
<1>6. j <= Len(P[n])
  BY <1>1, <1>3, <1>4, <1>5
<1>7. \A i \in 1..j : i \in 1..k
  BY <1>1, <1>3, <1>4
<1>8. Pre(h, P[n])
  BY <1>1, <1>3, <1>6, <1>7 DEF Pre
<1> QED
  BY <1>1, <1>2, <1>3, <1>8, UnderInside

(* The tokens a walk has consumed end within the edge of the slot it is at. *)
LEMMA Consumed ==
    ASSUME NEW N, NEW L, NEW P, Links(N, L, P), NEW p, NEW n, NEW o, NEW k,
           Matched(N, L, P, p, n, o, k)
    PROVE  /\ k <= Len(P[n]) /\ (n = ROOT <=> k = 0)
           /\ n # ROOT => k = Len(P[N[n].parent]) + o /\ o > 0 /\ Len(P[N[n].parent]) \in Nat
<1>1. /\ n \in L /\ o \in Nat /\ k \in Nat /\ o <= Len(N[n].edge)
      /\ k + Len(N[n].edge) = Len(P[n]) + o /\ (n # ROOT => o > 0)
  BY DEF Matched
<1>2. PICK a, b : a = Len(P[n]) /\ b = Len(N[n].edge)
  BY Zenon
<1>3. a \in Nat /\ b \in Nat
  BY <1>1, <1>2, PathFacts, EdgeFacts
<1>4. k <= a
  BY <1>1, <1>2, <1>3
<1>5. CASE n = ROOT
  <2>1. a = 0 /\ b = 0
    BY <1>2, <1>5 DEF Links
  <2> QED
    BY <1>1, <1>2, <1>4, <1>5, <2>1
<1>6. CASE n # ROOT
  <2>1. PICK u, c : u = N[n].parent /\ c = Len(P[u])
    BY Zenon
  <2>2. c \in Nat
    BY <1>1, <1>6, <2>1, UpFacts, PathFacts
  <2>3. a = c + b
    <3>1. EndsWith(P[n], P[N[n].parent], N[n].edge)
      BY <1>1, <1>6, EdgeEnd
    <3> QED
      BY <1>2, <2>1, <3>1, Zenon DEF EndsWith
  <2>4. k = c + o /\ k # 0
    BY <1>1, <1>2, <1>3, <1>6, <2>2, <2>3
  <2> QED
    BY <1>1, <1>2, <1>4, <1>6, <2>1, <2>2, <2>4
<1> QED
  BY <1>5, <1>6

(* A request that begins with j tokens is found by the walk.               *)
LEMMA WalkReaches ==
    ASSUME NEW L, NEW P, Reads(L, P), NEW p \in Seq(Nat), NEW n, NEW o, NEW k,
           Matched(tree.nodes, L, P, p, n, o, k), Ends(tree.nodes, p, n, o, k),
           NEW r \in DOMAIN paths, NEW j \in Nat, j <= Len(p), j <= Len(paths[r]),
           \A i \in 1..j : p[i] = paths[r][i]
    PROVE  j <= k
<1>1. PICK c \in L : P[c] = paths[r]
  BY ReadsFacts DEF Content
<1>2. Links(tree.nodes, L, P)
  BY ReadsFacts
<1>3. j <= Len(P[c]) /\ \A i \in 1..j : p[i] = P[c][i]
  BY <1>1
<1> QED
  BY <1>2, <1>3, LongestWalk

(* pending_demand of a path is the number of requests that begin with it.  *)
LEMMA DemandFacts ==
    ASSUME IInv, NEW p \in Seq(Nat), p # <<>>
    PROVE  PendingDemand(tree, p) = Cardinality(Under(paths, p))
<1>1. PICK L, P : Reads(L, P)
  BY DEF IInv, Keeps, Reads
<1>2. PICK N, d, n, o, k : N = tree.nodes /\ d = Descend(tree, p) /\ n = d.node /\ o = d.offset
                           /\ k = d.consumed
  BY Zenon
<1>3. Matched(N, L, P, p, n, o, k) /\ Ends(N, p, n, o, k) /\ Links(N, L, P)
      /\ Content(N, L, P, paths)
  BY <1>1, <1>2, WalkEnd, ReadsFacts
<1>4. PICK l : l = Len(p)
  BY Zenon
<1>5. l \in Nat /\ l # 0 /\ k \in Nat /\ k <= l /\ n \in L
  BY <1>3, <1>4 DEF Matched
<1>6. PendingDemand(tree, p) = IF k = l THEN N[n].pending_count ELSE 0
  BY <1>2, <1>4, Zenon DEF PendingDemand
<1>7. CASE k = l
  <2>1. n # ROOT
    BY <1>3, <1>5, <1>7, Consumed
  <2>2. PICK c : c = Len(P[N[n].parent])
    BY Zenon
  <2>3. c \in Nat /\ k = c + o /\ o \in Nat /\ o > 0
    <3>1. o \in Nat
      BY <1>3 DEF Matched
    <3>2. Links(N, L, P) /\ Matched(N, L, P, p, n, o, k)
      BY <1>3
    <3>3. k = Len(P[N[n].parent]) + o /\ o > 0 /\ Len(P[N[n].parent]) \in Nat
      BY <2>1, <3>2, Consumed
    <3> QED
      BY <2>2, <3>1, <3>3
  <2>4. c < l
    BY <1>7, <2>3
  <2>5. Under(paths, p) = Under(paths, P[n])
    <3>1. l <= k
      BY <1>5, <1>7
    <3>2. \A i \in 1..l : p[i] = p[i]
      OBVIOUS
    <3> QED
      BY <1>1, <1>2, <1>3, <1>4, <2>1, <2>2, <2>4, <3>1, <3>2, EnteredCount
  <2> QED
    BY <1>3, <1>5, <1>6, <1>7, <2>1, <2>5 DEF Content
<1>8. CASE k # l
  <2>1. ASSUME NEW r \in Under(paths, p) PROVE FALSE
    <3>1. r \in DOMAIN paths /\ l <= Len(paths[r]) /\ \A i \in 1..l : p[i] = paths[r][i]
      BY <1>4 DEF Under, Pre
    <3>2. l <= l
      BY <1>5
    <3>3. l <= k
      BY <1>1, <1>2, <1>3, <1>4, <1>5, <3>1, <3>2, WalkReaches
    <3> QED
      BY <1>5, <1>8, <3>3
  <2>2. Under(paths, p) = {}
    BY <2>1
  <2> QED
    BY <1>6, <1>8, <2>2, FS_EmptySet
<1> QED
  BY <1>7, <1>8

(* terminators_at of a path is the number of requests that end there.      *)
LEMMA EndingFacts ==
    ASSUME IInv, NEW p \in Seq(Nat)
    PROVE  TerminatorsAt(tree, p) = Cardinality(EndingAt(p))
<1>1. PICK L, P : Reads(L, P)
  BY DEF IInv, Keeps, Reads
<1>2. PICK N, d, n, o, k : N = tree.nodes /\ d = Descend(tree, p) /\ n = d.node /\ o = d.offset
                           /\ k = d.consumed
  BY Zenon
<1>3. Matched(N, L, P, p, n, o, k) /\ Links(N, L, P) /\ Content(N, L, P, paths)
  BY <1>1, <1>2, WalkEnd, ReadsFacts
<1>4. PICK l, e : l = Len(p) /\ e = Len(N[n].edge)
  BY Zenon
<1>5. TerminatorsAt(tree, p) = IF k = l /\ o = e THEN Cardinality(N[n].terminators) ELSE 0
  BY <1>2, <1>4, Zenon DEF TerminatorsAt, AtNodeBoundary
<1>6. CASE k = l /\ o = e
  <2>1. /\ n \in L /\ o \in Nat /\ k \in Nat /\ k + e = Len(P[n]) + o
        /\ \A i \in 1..k : p[i] = P[n][i]
    BY <1>3, <1>4 DEF Matched
  <2>2. Len(P[n]) \in Nat /\ P[n] \in Seq(Nat)
    BY <1>3, <2>1, PathFacts
  <2>3. Len(P[n]) = l
    BY <1>6, <2>1, <2>2
  <2>4. Pre(p, P[n])
    BY <1>4, <1>6, <2>1, <2>2, <2>3 DEF Pre
  <2>5. p = P[n]
    BY <1>4, <2>2, <2>3, <2>4, PreBoth
  <2>6. N[n].terminators = EndingAt(p)
    BY <1>3, <2>1, <2>5 DEF Content, EndingAt
  <2> QED
    BY <1>5, <1>6, <2>6
<1>7. CASE ~(k = l /\ o = e)
  <2>1. ASSUME NEW r \in EndingAt(p) PROVE FALSE
    <3>1. PICK c \in L : P[c] = p
      BY <1>3 DEF Content, EndingAt
    <3>2. Home(tree, d, c, P[c])
      <4>1. d = Descend(tree, P[c]) /\ Links(tree.nodes, L, P)
        BY <1>2, <1>3, <3>1
      <4> QED
        BY <4>1, DescendHome
    <3>3. n = c /\ k = l /\ AtNodeBoundary(tree, d)
      BY <1>2, <1>4, <3>1, <3>2, Zenon DEF Home
    <3>4. o = e
      BY <1>2, <1>4, <3>3, Zenon DEF AtNodeBoundary
    <3> QED
      BY <1>7, <3>3, <3>4
  <2>2. EndingAt(p) = {}
    BY <2>1
  <2>3. TerminatorsAt(tree, p) = 0
    BY <1>5, <1>7
  <2> QED
    BY <2>2, <2>3, FS_EmptySet
<1> QED
  BY <1>6, <1>7

(* The greatest member is the maximum.                                     *)
LEMMA MaxIs ==
    ASSUME NEW S \in SUBSET Nat, NEW x \in S, \A y \in S : y <= x
    PROVE  Max(S) = x
<1>1. \A y \in S : x >= y
  OBVIOUS
<1>2. PICK z : z = Max(S)
  BY Zenon
<1>3. z \in S /\ \A y \in S : z >= y
  BY <1>1, <1>2, Zenon DEF Max
<1>4. x \in Nat /\ z \in Nat /\ x >= z /\ z >= x
  BY <1>1, <1>3
<1> QED
  BY <1>2, <1>4

(* A function on a finite set has a greatest value.                        *)
LEMMA GreatestValue ==
    ASSUME NEW A, IsFiniteSet(A), A # {}, NEW f \in [A -> Nat]
    PROVE  \E x \in A : \A y \in A : f[y] <= f[x]
<1>1. PICK R : R = {f[x] : x \in A}
  BY Zenon
<1>2. R \in SUBSET Int /\ R # {}
  BY <1>1
<1>3. f \in Surjection(A, R)
  BY <1>1 DEF Surjection
<1>4. IsFiniteSet(R)
  BY <1>3, FS_Surjection
<1>5. Max(R) \in R /\ \A i \in R : i <= Max(R)
  BY <1>2, <1>4, MaxMinFacts
<1> QED
  BY <1>1, <1>5

(* The best of the tokens at risk, and the ancestors that are visited.     *)
BestRisk(tokens, S) == Max({0} \cup {TokensAtRisk(tokens, n) : n \in S})

Levels(tokens, ends) ==
    {n \in ends : \A m \in ends :
       m < n => ~Stops(TokensAtRisk(tokens, m), BestRisk(tokens, {k \in ends : k <= m}))}

(* _max_ancestor_demand returns the best value over the levels it          *)
(* reaches: those no shallower level stops it before.                      *)
LEMMA AncestorValue ==
    ASSUME NEW tokens, NEW ends
    PROVE  MaxAncestorDemand(tokens, ends).value = BestRisk(tokens, Levels(tokens, ends))
<1>1. PICK v, top : v = Levels(tokens, ends) /\ top = BestRisk(tokens, v)
  BY Zenon
<1>2. MaxAncestorDemand(tokens, ends) =
        [value  |-> top,
         len    |-> IF top = 0 THEN 0 ELSE Min({n \in v : TokensAtRisk(tokens, n) = top}),
         levels |-> Cardinality(v)]
  BY <1>1, Zenon DEF MaxAncestorDemand, BestRisk, Levels
<1>3. PICK b, c : /\ b = IF top = 0 THEN 0 ELSE Min({n \in v : TokensAtRisk(tokens, n) = top})
                  /\ c = Cardinality(v)
  BY Zenon
<1>4. MaxAncestorDemand(tokens, ends) = [value |-> top, len |-> b, levels |-> c]
  BY <1>2, <1>3, Zenon
<1>5. MaxAncestorDemand(tokens, ends).value = top
  BY <1>4
<1> QED
  BY <1>1, <1>5

(* The tokens at risk of a path, and of the paths it begins.               *)
LEMMA RiskFacts ==
    ASSUME IInv, NEW p \in Seq(Nat), NEW n \in 1..Len(p)
    PROVE  /\ TokensAtRisk(p, n) \in Nat
           /\ TokensAtRisk(p, n) = n * Cardinality(StartingWith(SubSeq(p, 1, n)))
           /\ \A m \in 1..Len(p) : m < n /\ TokensAtRisk(p, m) = 0 => TokensAtRisk(p, n) = 0
<1>1. IsFiniteSet(DOMAIN paths)
  BY PendingAssumption, FS_Subset DEF IInv, IsMap
<1>2. ASSUME NEW i \in 1..Len(p)
      PROVE  /\ SubSeq(p, 1, i) \in Seq(Nat) /\ Len(SubSeq(p, 1, i)) = i
             /\ \A j \in 1..i : SubSeq(p, 1, i)[j] = p[j]
             /\ i \in Nat /\ i > 0
             /\ IsFiniteSet(Under(paths, SubSeq(p, 1, i)))
             /\ Cardinality(Under(paths, SubSeq(p, 1, i))) \in Nat
             /\ TokensAtRisk(p, i) = Cardinality(Under(paths, SubSeq(p, 1, i))) * i
  <2>1. i \in 0..Len(p) /\ i \in Nat /\ i > 0
    BY <1>2
  <2>2. PICK h : h = SubSeq(p, 1, i)
    BY Zenon
  <2>3. h \in Seq(Nat) /\ Len(h) = i /\ \A j \in 1..i : h[j] = p[j]
    BY <2>1, <2>2, TakeFacts
  <2>4. h # <<>>
    BY <2>1, <2>3
  <2>5. PendingDemand(tree, h) = Cardinality(Under(paths, h))
    BY <2>3, <2>4, DemandFacts
  <2>6. Under(paths, h) \subseteq DOMAIN paths
    BY DEF Under
  <2>7. IsFiniteSet(Under(paths, h)) /\ Cardinality(Under(paths, h)) \in Nat
    BY <1>1, <2>6, FS_Subset, FS_CardinalityType
  <2>8. TokensAtRisk(p, i) = Cardinality(Under(paths, h)) * i
    BY <2>2, <2>5, Zenon DEF TokensAtRisk
  <2> QED
    BY <2>1, <2>2, <2>3, <2>7, <2>8
<1>3. PICK h, c : h = SubSeq(p, 1, n) /\ c = Cardinality(Under(paths, h))
  BY Zenon
<1>4. /\ h \in Seq(Nat) /\ Len(h) = n /\ (\A j \in 1..n : h[j] = p[j])
      /\ n \in Nat /\ c \in Nat /\ TokensAtRisk(p, n) = c * n
  BY <1>2, <1>3
<1>5. StartingWith(h) = Under(paths, h)
  BY <1>4, StartingFacts
<1>6. c * n \in Nat /\ c * n = n * c
  BY <1>4
<1>7. ASSUME NEW m \in 1..Len(p), m < n, TokensAtRisk(p, m) = 0 PROVE TokensAtRisk(p, n) = 0
  <2>1. PICK g, b : g = SubSeq(p, 1, m) /\ b = Cardinality(Under(paths, g))
    BY Zenon
  <2>2. /\ g \in Seq(Nat) /\ Len(g) = m /\ (\A j \in 1..m : g[j] = p[j])
        /\ m \in Nat /\ m > 0 /\ b \in Nat /\ b * m = 0 /\ IsFiniteSet(Under(paths, g))
    BY <1>2, <1>7, <2>1
  <2>3. b = 0
    BY <2>2
  <2>4. Under(paths, g) = {}
    BY <2>1, <2>2, <2>3, FS_EmptySet
  <2>5. Pre(g, h)
    <3>1. m <= n /\ \A j \in 1..m : j \in 1..n
      BY <1>4, <1>7, <2>2
    <3> QED
      BY <1>4, <2>2, <3>1 DEF Pre
  <2>6. \A r \in DOMAIN paths : paths[r] \in Seq(Nat)
    BY PendingAssumption DEF IInv, IsMap
  <2>7. Under(paths, h) = {}
    BY <1>4, <2>2, <2>4, <2>5, <2>6, PreTrans DEF Under
  <2>8. c = 0
    BY <1>3, <2>7, FS_EmptySet
  <2> QED
    BY <1>4, <2>8
<1> QED
  BY <1>3, <1>4, <1>5, <1>6, <1>7

(* Leaving the walk on demand collapse misses nothing.                     *)
LEMMA AncestorFacts ==
    ASSUME IInv, NEW p \in Seq(Nat), NEW ends \in SUBSET (1..Len(p)), ends # {}
    PROVE  MaxAncestorDemand(p, ends).value =
             Max({n * Cardinality(StartingWith(SubSeq(p, 1, n))) : n \in ends})
<1>1. PICK f : f = [n \in ends |-> TokensAtRisk(p, n)]
  BY Zenon
<1>2. \A n \in ends : n \in 1..Len(p)
  OBVIOUS
<1>3. /\ \A n \in ends : f[n] \in Nat /\ f[n] = TokensAtRisk(p, n)
      /\ \A n \in ends : f[n] = n * Cardinality(StartingWith(SubSeq(p, 1, n)))
      /\ \A m, n \in ends : m < n /\ f[m] = 0 => f[n] = 0
  BY <1>1, <1>2, RiskFacts
<1>4. IsFiniteSet(ends)
  <2>1. Len(p) \in Nat
    OBVIOUS
  <2>2. IsFiniteSet(1..Len(p))
    BY <2>1, UpTo
  <2> QED
    BY <2>2, FS_Subset
<1>5. PICK x \in ends : \A y \in ends : f[y] <= f[x]
  <2>1. f \in [ends -> Nat]
    BY <1>1, <1>3
  <2> QED
    BY <1>4, <2>1, GreatestValue
<1>6. PICK R : R = {f[n] : n \in ends}
  BY Zenon
<1>7. Max(R) = f[x]
  <2>1. R \in SUBSET Nat /\ f[x] \in R
    BY <1>3, <1>6
  <2>2. \A y \in R : y <= f[x]
    BY <1>5, <1>6
  <2> QED
    BY <2>1, <2>2, MaxIs
<1>8. {n * Cardinality(StartingWith(SubSeq(p, 1, n))) : n \in ends} = R
  BY <1>3, <1>6
<1>9. PICK V : V = Levels(p, ends)
  BY Zenon
<1>10. V \subseteq ends
  BY <1>9 DEF Levels
<1>11. PICK B : B = {0} \cup {TokensAtRisk(p, n) : n \in V}
  BY Zenon
<1>12. B \in SUBSET Nat /\ \A y \in B : y = 0 \/ \E n \in V : y = f[n]
  <2>1. \A n \in V : n \in ends
    BY <1>10
  <2>2. \A n \in V : TokensAtRisk(p, n) = f[n] /\ f[n] \in Nat
    BY <1>3, <2>1, Zenon
  <2> QED
    BY <1>11, <2>2
<1>13. f[x] \in B
  <2>1. CASE x \in V
    BY <1>3, <1>11, <2>1
  <2>2. CASE x \notin V
    <3>1. PICK m \in ends : m < x /\ Stops(TokensAtRisk(p, m), BestRisk(p, {k \in ends : k <= m}))
      BY <1>9, <2>2 DEF Levels
    <3>2. f[m] = 0
      BY <1>3, <3>1 DEF Stops
    <3>3. f[x] = 0
      BY <1>3, <3>1, <3>2
    <3> QED
      BY <1>11, <3>3
  <2> QED
    BY <2>1, <2>2
<1>14. \A y \in B : y <= f[x]
  <2>1. f[x] \in Nat
    BY <1>3
  <2> SUFFICES ASSUME NEW y \in B PROVE y <= f[x]
    OBVIOUS
  <2>2. CASE y = 0
    BY <2>1, <2>2
  <2>3. ASSUME NEW n \in V, y = f[n] PROVE y <= f[x]
    BY <1>5, <1>10, <2>3
  <2> QED
    BY <1>12, <2>2, <2>3
<1>15. Max(B) = f[x]
  BY <1>12, <1>13, <1>14, MaxIs
<1>16. MaxAncestorDemand(p, ends).value = Max(B)
  BY <1>9, <1>11, AncestorValue DEF BestRisk
<1> QED
  BY <1>7, <1>8, <1>15, <1>16

(* The eviction demand read off the tree (pending_demand, and              *)
(* _max_ancestor_demand over its levels) is what the definition over the   *)
(* pending requests gives: every level's count is the number of requests   *)
(* that need it, and stopping early loses nothing.                         *)
THEOREM TreeDemandExact == Spec => []EvictionDemandExact
<1>1. IInv => EvictionDemandExact
  <2> SUFFICES ASSUME IInv PROVE EvictionDemandExact
    OBVIOUS
  <2>1. ASSUME NEW p \in Prompts
        PROVE  /\ p # <<>> => PendingDemand(tree, p) = Cardinality(StartingWith(p))
               /\ TerminatorsAt(tree, p) = Cardinality(EndingAt(p))
    <3>1. p \in Seq(Nat)
      BY PendingAssumption
    <3> QED
      BY <3>1, DemandFacts, EndingFacts, StartingFacts
  <2>2. ASSUME NEW p \in Prompts \ {<<>>}, NEW E \in SUBSET (1..Len(p)), NEW ends, ends = E \cup {Len(p)}
        PROVE  MaxAncestorDemand(p, ends).value =
                 Max({n * Cardinality(StartingWith(SubSeq(p, 1, n))) : n \in ends})
    <3>1. p \in Seq(Nat)
      BY PendingAssumption
    <3>2. Len(p) \in 1..Len(p)
      BY <3>1
    <3>3. ends \in SUBSET (1..Len(p)) /\ ends # {}
      BY <2>2, <3>2
    <3> QED
      BY <3>1, <3>3, AncestorFacts
  <2>3. DemandExact
    BY <2>1 DEF DemandExact
  <2>4. AncestorDemandExact
    BY <2>2, Zenon DEF AncestorDemandExact
  <2> QED
    BY <2>3, <2>4 DEF EvictionDemandExact
<1> QED
  BY <1>1, PendingInvariant, PTL

(* How far two sequences agree, in either order.                           *)
LEMMA AgreeFacts ==
    ASSUME NEW a \in Seq(Nat), NEW b \in Seq(Nat), NEW k, k = MatchEdgeLen(a, b)
    PROVE  /\ k \in Nat /\ k <= Len(a) /\ k <= Len(b) /\ \A i \in 1..k : a[i] = b[i]
           /\ \A j \in Nat : j <= Len(a) /\ j <= Len(b) /\ (\A i \in 1..j : a[i] = b[i]) => j <= k
<1>1. PICK m, n : m = Len(a) /\ n = Len(b)
  BY Zenon
<1>2. m \in Nat /\ n \in Nat
  BY <1>1
<1>3. PartAfter(a, b, k)
  BY MatchFacts
<1>4. /\ k \in Nat /\ k <= m /\ k <= n /\ (\A i \in 1..k : a[i] = b[i])
      /\ k < m /\ k < n => a[k + 1] # b[k + 1]
  BY <1>1, <1>3, Zenon DEF PartAfter
<1>5. ASSUME NEW j \in Nat, j <= m, j <= n, \A i \in 1..j : a[i] = b[i] PROVE j <= k
  <2> SUFFICES ASSUME k < j PROVE FALSE
    BY <1>4
  <2>1. k + 1 \in 1..j /\ k < m /\ k < n
    BY <1>2, <1>4, <1>5
  <2> QED
    BY <1>4, <1>5, <2>1
<1> QED
  BY <1>1, <1>4, <1>5

-----------------------------------------------------------------------------
(* Lookups: scores, positions and matches.                                 *)

(* A walk goes on consuming, and enters children of where it was.          *)
LEMMA WalkOn ==
    ASSUME NEW L, NEW P, Reads(L, P), NEW p \in Seq(Nat), NEW w, w = Walk(tree, p)
    PROVE  /\ w[0].node = ROOT /\ w[0].consumed = 0
           /\ \A i \in 0..Len(p) :
                 Matched(tree.nodes, L, P, p, w[i].node, w[i].offset, w[i].consumed)
           /\ \A i \in 1..Len(p) : \/ w[i] = w[i - 1]
                                   \/ /\ ~Ends(tree.nodes, p, w[i - 1].node, w[i - 1].offset, w[i - 1].consumed)
                                      /\ tree.nodes[w[i].node].parent = w[i - 1].node
           /\ \A i, j \in 0..Len(p) : i <= j => w[i].consumed <= w[j].consumed
<1>1. PICK N, l : N = tree.nodes /\ l = Len(p)
  BY Zenon
<1>2. Links(tree.nodes, L, P) /\ l \in Nat
  BY <1>1, ReadsFacts
<1>3. w[0] = [node |-> ROOT, offset |-> 0, consumed |-> 0]
      /\ \A i \in 1..l : w[i] = WalkTurn(tree, p, w[i - 1])
  BY <1>1, <1>2, WalkTurns
<1>4. \A i \in 0..l : OnTheWay(N, L, P, p, w[i])
  BY <1>1, <1>2, WalkFacts
<1>5. ASSUME NEW i \in 1..l
      PROVE  /\ \/ w[i] = w[i - 1]
                \/ ~Stopped(N, p, w[i - 1]) /\ N[w[i].node].parent = w[i - 1].node
             /\ w[i - 1].consumed <= w[i].consumed
  <2>1. i - 1 \in 0..l
    BY <1>2
  <2>2. PICK s, r : s = w[i - 1] /\ r = w[i]
    BY Zenon
  <2>3. OnTheWay(tree.nodes, L, P, p, s) /\ r = WalkTurn(tree, p, s)
    BY <1>1, <1>3, <1>4, <2>1, <2>2
  <2>4. Turned(N, L, P, p, s, r)
    <3>1. Turned(tree.nodes, L, P, p, s, r)
      BY <1>2, <2>3, WalkTurnFacts
    <3> QED
      BY <1>1, <3>1
  <2>5. s.consumed \in Nat /\ r.consumed \in Nat
    BY <1>1, <2>3, <2>4 DEF OnTheWay, Matched, Turned
  <2> QED
    BY <2>2, <2>4, <2>5 DEF Turned
<1> DEFINE S == {j \in 0..l : \A i \in 0..j : w[i].consumed <= w[j].consumed}
<1>6. \A i \in 0..l : w[i].consumed \in Nat
  BY <1>4 DEF OnTheWay, Matched
<1>7. 0 \in S
  BY <1>2, <1>6
<1>8. ASSUME NEW j \in 1..l, j - 1 \in S PROVE j \in S
  <2>1. \A i \in 0..j : i = j \/ i \in 0..(j - 1)
    BY <1>2
  <2>2. j \in 0..l /\ j - 1 \in 0..l /\ \A i \in 0..j : i \in 0..l
    BY <1>2
  <2>3. PICK c, b : c = w[j].consumed /\ b = w[j - 1].consumed
    BY Zenon
  <2>4. c \in Nat /\ b \in Nat /\ b <= c
    BY <1>5, <1>6, <2>2, <2>3
  <2>5. ASSUME NEW i \in 0..j PROVE w[i].consumed <= c
    <3>1. CASE i = j
      BY <2>3, <2>4, <3>1
    <3>2. CASE i # j
      <4>1. w[i].consumed <= b /\ w[i].consumed \in Nat
        BY <1>6, <1>8, <2>1, <2>2, <2>3, <3>2
      <4> QED
        BY <2>4, <4>1
    <3> QED
      BY <3>1, <3>2
  <2> QED
    BY <2>2, <2>3, <2>5
<1> HIDE DEF S
<1>9. \A j \in 0..l : j \in S
  BY <1>2, <1>7, <1>8, UpFromZero
<1>10. ASSUME NEW i \in 0..l, NEW j \in 0..l, i <= j PROVE w[i].consumed <= w[j].consumed
  <2>1. i \in 0..j
    BY <1>2, <1>10
  <2> QED
    BY <1>9, <2>1 DEF S
<1>11. w[0].node = ROOT /\ w[0].consumed = 0
  BY <1>3
<1>12. \A i \in 0..l : Matched(N, L, P, p, w[i].node, w[i].offset, w[i].consumed)
  BY <1>4 DEF OnTheWay
<1>13. \A i \in 1..l : \/ w[i] = w[i - 1]
                      \/ /\ ~Ends(N, p, w[i - 1].node, w[i - 1].offset, w[i - 1].consumed)
                         /\ N[w[i].node].parent = w[i - 1].node
  BY <1>5 DEF Stopped
<1> QED
  BY <1>1, <1>10, <1>11, <1>12, <1>13

(* Two sequences agree on k tokens, and on no more.                        *)
Overlap(a, b, k) ==
    /\ k \in Nat /\ k <= Len(a) /\ k <= Len(b) /\ \A i \in 1..k : a[i] = b[i]
    /\ \A j \in Nat : j <= Len(a) /\ j <= Len(b) /\ (\A i \in 1..j : a[i] = b[i]) => j <= k

(* match_edge_len is the greatest common overlap, either way round.        *)
LEMMA OverlapFacts ==
    ASSUME NEW a \in Seq(Nat), NEW b \in Seq(Nat), NEW k, k = MatchEdgeLen(a, b)
    PROVE  Overlap(a, b, k) /\ Overlap(b, a, k)
<1>1. /\ k \in Nat /\ k <= Len(a) /\ k <= Len(b) /\ \A i \in 1..k : a[i] = b[i]
      /\ \A j \in Nat : j <= Len(a) /\ j <= Len(b) /\ (\A i \in 1..j : a[i] = b[i]) => j <= k
  BY AgreeFacts
<1>2. \A j \in Nat : (\A i \in 1..j : a[i] = b[i]) <=> (\A i \in 1..j : b[i] = a[i])
  BY Zenon
<1>3. Overlap(a, b, k)
  BY <1>1 DEF Overlap
<1>4. Overlap(b, a, k)
  BY <1>1, <1>2 DEF Overlap
<1> QED
  BY <1>3, <1>4

(* v is the greatest depth at which `least` requests follow the tokens p.  *)
DeepestIs(p, least, v) ==
    /\ v \in Nat
    /\ v = 0 \/ \E h \in Seq(Nat) : /\ Pre(h, p) /\ Len(h) = v
                                    /\ Cardinality(Under(paths, h)) >= least
    /\ \A h \in Seq(Nat) : Pre(h, p) /\ h # <<>> /\ Cardinality(Under(paths, h)) >= least => Len(h) <= v

(* f is the overlap of p with each request in Q, and there are enough of   *)
(* them below a beginning of p just if one of Q is.                        *)
Overlaps(p, Q, f) == \A q \in Q : paths[q] \in Seq(Nat) /\ Overlap(p, paths[q], f[q])

Enough(p, least, Q) ==
    \A h \in Seq(Nat) : Pre(h, p) /\ h # <<>> =>
       (Cardinality(Under(paths, h)) >= least <=> \E q \in Q : Pre(h, paths[q]))

Depths(Q, f) == {0} \cup {f[q] : q \in Q}

(* The same as the greatest overlap with one of the requests in Q.         *)
LEMMA GreatestOverlap ==
    ASSUME NEW p \in Seq(Nat), NEW least, NEW v, DeepestIs(p, least, v), NEW Q, NEW f,
           Overlaps(p, Q, f), Enough(p, least, Q)
    PROVE  Max(Depths(Q, f)) = v
<1>1. PICK S : S = {0} \cup {f[q] : q \in Q}
  BY Zenon
<1>2. S \in SUBSET Nat /\ v \in Nat
  BY <1>1 DEF Overlap, Overlaps, DeepestIs
<1>3. ASSUME NEW q \in Q PROVE f[q] <= v
  <2>1. PICK k, b : k = f[q] /\ b = paths[q]
    BY Zenon
  <2>2. Overlap(p, b, k) /\ b \in Seq(Nat)
    BY <2>1 DEF Overlaps
  <2>3. k \in Nat /\ k <= Len(p) /\ k <= Len(b) /\ \A i \in 1..k : p[i] = b[i]
    BY <2>2 DEF Overlap
  <2>4. CASE k = 0
    BY <1>2, <2>1, <2>4
  <2>5. CASE k # 0
    <3>1. k \in 0..Len(p)
      BY <2>3
    <3>2. PICK h : h = SubSeq(p, 1, k)
      BY Zenon
    <3>3. h \in Seq(Nat) /\ Len(h) = k /\ \A i \in 1..k : h[i] = p[i]
      BY <3>1, <3>2, TakeFacts
    <3>4. Pre(h, p) /\ Pre(h, b) /\ h # <<>>
      <4>1. \A i \in 1..k : h[i] = b[i]
        BY <2>3, <3>3
      <4>2. h # <<>>
        BY <2>5, <3>3
      <4> QED
        BY <2>3, <3>3, <4>1, <4>2 DEF Pre
    <3>5. Cardinality(Under(paths, h)) >= least
      BY <2>1, <3>3, <3>4 DEF Enough
    <3> QED
      BY <2>1, <3>3, <3>4, <3>5 DEF DeepestIs
  <2> QED
    BY <2>4, <2>5
<1>4. \A y \in S : y <= v
  BY <1>1, <1>2, <1>3
<1>5. v \in S
  <2>1. CASE v = 0
    BY <1>1, <2>1
  <2>2. CASE v # 0
    <3>1. PICK h \in Seq(Nat) : /\ Pre(h, p) /\ Len(h) = v /\ Cardinality(Under(paths, h)) >= least
      BY <2>2 DEF DeepestIs
    <3>2. h # <<>>
      BY <2>2, <3>1
    <3>3. PICK q \in Q : Pre(h, paths[q])
      BY <3>1, <3>2 DEF Enough
    <3>4. PICK k, b : k = f[q] /\ b = paths[q]
      BY Zenon
    <3>5. Overlap(p, b, k) /\ b \in Seq(Nat)
      BY <3>4 DEF Overlaps
    <3>6. /\ v <= Len(p) /\ v <= Len(b) /\ (\A i \in 1..v : h[i] = p[i])
          /\ \A i \in 1..v : h[i] = b[i]
      BY <3>1, <3>3, <3>4 DEF Pre
    <3>7. \A i \in 1..v : p[i] = b[i]
      BY <3>6
    <3>8. v <= k /\ k \in Nat
      BY <1>2, <3>5, <3>6, <3>7 DEF Overlap
    <3>9. k <= v
      BY <1>3, <3>4
    <3>10. v = k
      BY <1>2, <3>8, <3>9
    <3> QED
      BY <1>1, <3>4, <3>10
  <2> QED
    BY <2>1, <2>2
<1>6. Max(S) = v
  BY <1>2, <1>4, <1>5, MaxIs
<1> QED
  BY <1>1, <1>6 DEF Depths

(* deepest_with_count: edge by edge, the depth is the deepest.             *)
LEMMA DeepestFacts ==
    ASSUME IInv, NEW p \in Seq(Nat), NEW least \in Nat, least > 0, NEW v,
           v = DeepestWithCount(tree, p, least)
    PROVE  DeepestIs(p, least, v)
<1>1. PICK L, P : Reads(L, P)
  BY DEF IInv, Keeps, Reads
<1>2. PICK N, l, w : N = tree.nodes /\ l = Len(p) /\ w = Walk(tree, p)
  BY Zenon
<1>3. /\ Links(N, L, P) /\ Content(N, L, P, paths) /\ l \in Nat
      /\ \A n \in L : P[n] \in Seq(Nat)
  BY <1>1, <1>2, ReadsFacts
<1>4. /\ w[0].node = ROOT /\ w[0].consumed = 0
      /\ \A i \in 0..l : Matched(N, L, P, p, w[i].node, w[i].offset, w[i].consumed)
      /\ \A i \in 1..l : \/ w[i] = w[i - 1]
                         \/ /\ ~Ends(N, p, w[i - 1].node, w[i - 1].offset, w[i - 1].consumed)
                            /\ N[w[i].node].parent = w[i - 1].node
      /\ \A i, j \in 0..l : i <= j => w[i].consumed <= w[j].consumed
  BY <1>1, <1>2, WalkOn
<1>5. \A i \in 0..l : w[i].consumed \in Nat /\ w[i].consumed <= l /\ w[i].node \in L
  BY <1>2, <1>4 DEF Matched
<1>6. PICK hits : hits = {i \in 1..l : w[i].node # ROOT /\ N[w[i].node].pending_count >= least}
  BY Zenon
<1>7. v = IF hits = {} THEN 0 ELSE w[Max(hits)].consumed
  BY <1>2, <1>6 DEF DeepestWithCount
<1>8. hits # {} => Max(hits) \in hits /\ \A i \in hits : i <= Max(hits)
  <2>1. IsFiniteSet(hits)
    <3>1. IsFiniteSet(1..l) /\ hits \subseteq 1..l
      BY <1>3, <1>6, UpTo
    <3> QED
      BY <3>1, FS_Subset
  <2>2. hits \in SUBSET Int
    BY <1>6
  <2> QED
    BY <2>1, <2>2, MaxMinFacts
<1>9. ASSUME NEW i \in hits
      PROVE  \E h \in Seq(Nat) : /\ Pre(h, p) /\ Len(h) = w[i].consumed
                                 /\ Cardinality(Under(paths, h)) >= least
  <2>1. PICK n, o, k : n = w[i].node /\ o = w[i].offset /\ k = w[i].consumed
    BY Zenon
  <2>2. /\ n # ROOT /\ N[n].pending_count >= least /\ i \in 0..l
        /\ Matched(N, L, P, p, n, o, k)
    BY <1>4, <1>6, <2>1
  <2>3. PICK c : c = Len(P[N[n].parent])
    BY Zenon
  <2>4. o \in Nat /\ k \in Nat /\ k <= l /\ n \in L
    BY <1>2, <2>2 DEF Matched
  <2>5. k = c + o /\ o > 0 /\ c \in Nat
    BY <1>3, <2>2, <2>3, Consumed
  <2>6. c < k /\ k \in 0..Len(p)
    BY <1>2, <1>3, <2>4, <2>5
  <2>7. PICK h : h = SubSeq(p, 1, k)
    BY Zenon
  <2>8. h \in Seq(Nat) /\ Len(h) = k /\ \A x \in 1..k : h[x] = p[x]
    BY <2>6, <2>7, TakeFacts
  <2>9. Under(paths, h) = Under(paths, P[n])
    <3>1. Len(P[tree.nodes[n].parent]) < Len(h) /\ Len(h) <= k /\ \A x \in 1..Len(h) : h[x] = p[x]
      BY <1>2, <2>3, <2>4, <2>6, <2>8
    <3>2. n # ROOT /\ Matched(tree.nodes, L, P, p, n, o, k) /\ h \in Seq(Nat)
      BY <1>2, <2>2, <2>8
    <3> QED
      BY <1>1, <3>1, <3>2, EnteredCount
  <2>10. N[n].pending_count = Cardinality(Under(paths, P[n]))
    BY <1>3, <2>2, <2>4 DEF Content
  <2>11. Pre(h, p)
    BY <1>2, <2>4, <2>8 DEF Pre
  <2> QED
    BY <2>1, <2>2, <2>8, <2>9, <2>10, <2>11
<1>10. ASSUME NEW h \in Seq(Nat), Pre(h, p), h # <<>>, Cardinality(Under(paths, h)) >= least
       PROVE  \E i \in hits : Len(h) <= w[i].consumed
  <2>1. PICK j : j = Len(h)
    BY Zenon
  <2>2. j \in Nat /\ j > 0 /\ j <= l /\ \A x \in 1..j : h[x] = p[x]
    BY <1>2, <1>10, <2>1 DEF Pre
  <2>3. PICK r : r \in Under(paths, h)
    <3>1. PICK U : U = Under(paths, h)
      BY Zenon
    <3>2. Cardinality(U) >= least
      BY <1>10, <3>1
    <3>3. U # {}
      <4> SUFFICES ASSUME U = {} PROVE FALSE
        OBVIOUS
      <4>1. Cardinality(U) = 0
        BY FS_EmptySet, Zenon
      <4>2. 0 >= least /\ least > 0 /\ least \in Nat
        BY <3>2, <4>1
      <4> QED
        BY <4>2
    <3> QED
      BY <3>1, <3>3
  <2>4. j <= w[l].consumed
    <3>1. PICK d : d = Descend(tree, p)
      BY Zenon
    <3>2. d = w[l]
      BY <1>2, <3>1 DEF Descend
    <3>3. Matched(tree.nodes, L, P, p, d.node, d.offset, d.consumed)
          /\ Ends(tree.nodes, p, d.node, d.offset, d.consumed)
      BY <1>1, <3>1, WalkEnd
    <3>4. r \in DOMAIN paths /\ j <= Len(paths[r]) /\ \A x \in 1..j : h[x] = paths[r][x]
      BY <2>1, <2>3 DEF Under, Pre
    <3>5. \A x \in 1..j : p[x] = paths[r][x]
      BY <2>2, <3>4
    <3>6. j <= d.consumed
      BY <1>1, <1>2, <2>2, <3>3, <3>4, <3>5, WalkReaches
    <3> QED
      BY <3>2, <3>6
  <2> DEFINE B == {i \in 0..l : j <= w[i].consumed}
  <2>5. B \in SUBSET Nat /\ B # {}
    <3>1. l \in 0..l /\ \A i \in 0..l : i \in Nat
      BY <1>3
    <3>2. l \in B
      BY <2>4, <3>1
    <3> QED
      BY <3>1, <3>2
  <2>6. PICK i \in B : \A x \in B : i <= x
    BY <2>5, LeastNat
  <2>7. i \in 1..l /\ i - 1 \in 0..l /\ i - 1 \notin B
    <3>1. i # 0
      BY <1>4, <2>2, <2>6
    <3>2. i \in 1..l /\ i - 1 \in 0..l /\ ~(i <= i - 1)
      BY <1>3, <3>1
    <3> HIDE DEF B
    <3> QED
      BY <2>6, <3>2
  <2>8. PICK n, o, k, u, a, b : /\ n = w[i].node /\ o = w[i].offset /\ k = w[i].consumed
                                /\ u = w[i - 1].node /\ a = w[i - 1].offset /\ b = w[i - 1].consumed
    BY Zenon
  <2>9. j <= k /\ ~(j <= b) /\ k \in Nat /\ b \in Nat /\ n \in L
    BY <1>3, <1>5, <2>7, <2>8
  <2>10. ~Ends(N, p, u, a, b) /\ N[n].parent = u
    <3>1. w[i] # w[i - 1]
      BY <2>8, <2>9
    <3> QED
      BY <1>4, <2>7, <2>8, <3>1
  <2>11. Matched(N, L, P, p, n, o, k) /\ Matched(N, L, P, p, u, a, b)
    BY <1>3, <1>4, <2>7, <2>8
  <2>12. Len(P[u]) = b
    <3>1. PICK c, e : c = Len(P[u]) /\ e = Len(N[u].edge)
      BY Zenon
    <3>2. b + e = c + a /\ a \in Nat /\ a <= e /\ ~(a < e) /\ u \in L
      BY <2>10, <2>11, <3>1 DEF Matched, Ends
    <3>3. c \in Nat /\ e \in Nat
      BY <1>3, <3>1, <3>2, PathFacts, EdgeFacts
    <3>4. e = a
      BY <3>2, <3>3
    <3>5. b = c
      BY <2>9, <3>2, <3>3, <3>4
    <3> QED
      BY <3>1, <3>5
  <2>13. n # ROOT
    BY <1>3, <2>2, <2>9, <2>11, Consumed
  <2>14. Under(paths, h) = Under(paths, P[n])
    <3>1. b < j
      BY <2>2, <2>9
    <3>2. Len(P[tree.nodes[n].parent]) < Len(h) /\ Len(h) <= k /\ \A x \in 1..Len(h) : h[x] = p[x]
      BY <1>2, <2>1, <2>2, <2>9, <2>10, <2>12, <3>1
    <3> QED
      BY <1>1, <1>2, <2>11, <2>13, <3>2, EnteredCount
  <2>15. N[n].pending_count >= least
    BY <1>3, <1>10, <2>9, <2>13, <2>14 DEF Content
  <2>16. i \in hits
    BY <1>6, <2>7, <2>8, <2>13, <2>15
  <2> QED
    BY <2>1, <2>8, <2>9, <2>16
<1>11. CASE hits = {}
  <2>1. v = 0
    BY <1>7, <1>11
  <2> QED
    BY <1>10, <1>11, <2>1 DEF DeepestIs
<1>12. CASE hits # {}
  <2>1. PICK i : i = Max(hits)
    BY Zenon
  <2>2. v = w[i].consumed /\ i \in hits /\ \A j \in hits : j <= i
    BY <1>7, <1>8, <1>12, <2>1
  <2>3. i \in 0..l /\ \A j \in hits : j \in 0..l
    BY <1>6, <2>2
  <2>4. v \in Nat
    BY <1>5, <2>2, <2>3
  <2>5. \E h \in Seq(Nat) : /\ Pre(h, p) /\ Len(h) = v /\ Cardinality(Under(paths, h)) >= least
    BY <1>9, <2>2
  <2>6. ASSUME NEW h \in Seq(Nat), Pre(h, p), h # <<>>, Cardinality(Under(paths, h)) >= least
        PROVE  Len(h) <= v
    <3>1. PICK j \in hits : Len(h) <= w[j].consumed
      BY <1>10, <2>6
    <3>2. w[j].consumed <= v /\ w[j].consumed \in Nat /\ Len(h) \in Nat
      BY <1>4, <1>5, <2>2, <2>3
    <3> QED
      BY <2>4, <3>1, <3>2
  <2> QED
    BY <2>4, <2>5, <2>6 DEF DeepestIs
<1> QED
  BY <1>11, <1>12

(* The thresholds one and two of a count, as statements on members.        *)
LEMMA CountFacts ==
    ASSUME NEW U, IsFiniteSet(U)
    PROVE  /\ Cardinality(U) >= 1 <=> U # {}
           /\ \A r \in U : Cardinality(U) >= 2 <=> \E q \in U : q # r
<1>1. ASSUME NEW V, IsFiniteSet(V) PROVE Cardinality(V) \in Nat /\ (Cardinality(V) >= 1 <=> V # {})
  <2>1. Cardinality(V) \in Nat /\ (Cardinality(V) = 0 <=> V = {})
    BY <1>1, FS_CardinalityType, FS_EmptySet
  <2> QED
    BY <2>1
<1>2. ASSUME NEW r \in U PROVE Cardinality(U) >= 2 <=> \E q \in U : q # r
  <2>1. PICK V : V = U \ {r}
    BY Zenon
  <2>2. IsFiniteSet(V) /\ r \notin V /\ U = V \cup {r}
    <3>1. V \subseteq U
      BY <2>1
    <3> QED
      BY <2>1, <3>1, FS_Subset
  <2>3. Cardinality(U) = Cardinality(V) + 1
    BY <2>2, FS_AddElement
  <2>4. Cardinality(V) \in Nat /\ (Cardinality(V) >= 1 <=> V # {})
    BY <1>1, <2>2
  <2>5. Cardinality(U) >= 2 <=> V # {}
    BY <2>3, <2>4
  <2> QED
    BY <2>1, <2>5
<1> QED
  BY <1>1, <1>2

(* The requests that begin with h are finitely many; their tokens are      *)
(* sequences.                                                              *)
LEMMA PendingFacts ==
    ASSUME IInv
    PROVE  /\ IsFiniteSet(DOMAIN paths) /\ \A h : IsFiniteSet(Under(paths, h))
           /\ \A r \in DOMAIN paths : paths[r] \in Seq(Nat)
<1>1. IsFiniteSet(DOMAIN paths)
  BY PendingAssumption, FS_Subset DEF IInv, IsMap
<1>2. \A h : IsFiniteSet(Under(paths, h))
  <2> TAKE h
  <2>1. Under(paths, h) \subseteq DOMAIN paths
    BY DEF Under
  <2> QED
    BY <1>1, <2>1, FS_Subset
<1>3. \A r \in DOMAIN paths : paths[r] \in Seq(Nat)
  BY PendingAssumption DEF IInv, IsMap
<1> QED
  BY <1>1, <1>2, <1>3

(* At depth one any request counts: the overlap with all of them.          *)
LEMMA MatchedDepth ==
    ASSUME IInv, NEW p \in Seq(Nat), NEW v, DeepestIs(p, 1, v)
    PROVE  Max({0} \cup {MatchEdgeLen(paths[q], p) : q \in DOMAIN paths}) = v
<1>1. PICK Q, f : Q = DOMAIN paths /\ f = [q \in Q |-> MatchEdgeLen(paths[q], p)]
  BY Zenon
<1>2. \A q \in Q : paths[q] \in Seq(Nat)
  BY <1>1, PendingFacts
<1>3. \A q \in Q : Overlap(p, paths[q], f[q])
  BY <1>1, <1>2, OverlapFacts
<1>4. \A h \in Seq(Nat) : Pre(h, p) /\ h # <<>> =>
        (Cardinality(Under(paths, h)) >= 1 <=> \E q \in Q : Pre(h, paths[q]))
  <2> TAKE h \in Seq(Nat)
  <2>1. PICK U : U = Under(paths, h)
    BY Zenon
  <2>2. Cardinality(U) >= 1 <=> U # {}
    BY <2>1, PendingFacts, CountFacts
  <2>3. U # {} <=> \E q \in Q : Pre(h, paths[q])
    BY <1>1, <2>1 DEF Under
  <2> QED
    BY <2>1, <2>2, <2>3
<1>5. Overlaps(p, Q, f) /\ Enough(p, 1, Q)
  BY <1>2, <1>3, <1>4 DEF Overlaps, Enough
<1>6. Max(Depths(Q, f)) = v
  BY <1>5, GreatestOverlap
<1>7. Depths(Q, f) = {0} \cup {MatchEdgeLen(paths[q], p) : q \in DOMAIN paths}
  BY <1>1 DEF Depths
<1> QED
  BY <1>6, <1>7

(* The invariant implies that deepest_with_count at two (the shared        *)
(* prefix) answers the longest prefix of the prompt that two requests      *)
(* share, and at one the longest any has.                                  *)
LEMMA InvShared == ASSUME IInv PROVE SharedPrefixExact
<1>1. ASSUME NEW r \in DOMAIN paths PROVE LongestSharedPrefix(r) = SharedWithOther(r)
  <2>1. PICK p, v : p = paths[r] /\ v = DeepestWithCount(tree, p, 2)
    BY Zenon
  <2>2. p \in Seq(Nat)
    BY <2>1, PendingFacts
  <2>3. DeepestIs(p, 2, v)
    <3>1. 2 \in Nat /\ 2 > 0
      OBVIOUS
    <3> QED
      BY <2>1, <2>2, <3>1, DeepestFacts
  <2>4. PICK Q, f : Q = DOMAIN paths \ {r} /\ f = [q \in Q |-> Shared(r, q)]
    BY Zenon
  <2>5. \A q \in Q : paths[q] \in Seq(Nat)
    BY <2>4, PendingFacts
  <2>6. \A q \in Q : Overlap(p, paths[q], f[q])
    BY <2>1, <2>2, <2>4, <2>5, OverlapFacts DEF Shared
  <2>7. \A h \in Seq(Nat) : Pre(h, p) /\ h # <<>> =>
          (Cardinality(Under(paths, h)) >= 2 <=> \E q \in Q : Pre(h, paths[q]))
    <3> SUFFICES ASSUME NEW h \in Seq(Nat), Pre(h, p)
                 PROVE  Cardinality(Under(paths, h)) >= 2 <=> \E q \in Q : Pre(h, paths[q])
      OBVIOUS
    <3>1. PICK U : U = Under(paths, h)
      BY Zenon
    <3>2. r \in U
      BY <2>1, <3>1 DEF Under
    <3>3. Cardinality(U) >= 2 <=> \E q \in U : q # r
      BY <3>1, <3>2, PendingFacts, CountFacts
    <3>4. (\E q \in U : q # r) <=> \E q \in Q : Pre(h, paths[q])
      BY <2>4, <3>1 DEF Under
    <3> QED
      BY <3>1, <3>3, <3>4
  <2>8. Overlaps(p, Q, f) /\ Enough(p, 2, Q)
    BY <2>5, <2>6, <2>7 DEF Overlaps, Enough
  <2>9. Max(Depths(Q, f)) = v
    BY <2>2, <2>3, <2>8, GreatestOverlap
  <2>10. Depths(Q, f) = {0} \cup {Shared(r, q) : q \in DOMAIN paths \ {r}}
    BY <2>4 DEF Depths
  <2> QED
    BY <1>1, <2>1, <2>9, <2>10 DEF LongestSharedPrefix, SharedWithOther
<1>2. ASSUME NEW p \in Prompts
      PROVE  MatchPrefix(p) = Max({0} \cup {MatchEdgeLen(paths[q], p) : q \in DOMAIN paths})
  <2>1. p \in Seq(Nat) /\ 1 \in Nat /\ 1 > 0
    BY PendingAssumption
  <2>2. PICK v : v = DeepestWithCount(tree, p, 1)
    BY Zenon
  <2>3. DeepestIs(p, 1, v)
    BY <2>1, <2>2, DeepestFacts
  <2> QED
    BY <2>1, <2>2, <2>3, MatchedDepth DEF MatchPrefix
<1> QED
  BY <1>1, <1>2 DEF SharedPrefixExact

(* The walk of the beginning of a request consumes all of it.              *)
LEMMA KnownWalk ==
    ASSUME NEW L, NEW P, Reads(L, P), NEW r \in DOMAIN paths, paths[r] \in Seq(Nat),
           NEW p \in Prefixes(paths[r]), NEW d, d = Descend(tree, p)
    PROVE  /\ p \in Seq(Nat) /\ Matched(tree.nodes, L, P, p, d.node, d.offset, d.consumed)
           /\ d.consumed = Len(p)
<1>1. PICK j \in 0..Len(paths[r]) : p = SubSeq(paths[r], 1, j)
  BY DEF Prefixes
<1>2. p \in Seq(Nat) /\ Len(p) = j /\ \A i \in 1..j : p[i] = paths[r][i]
  BY <1>1, TakeFacts
<1>3. /\ Matched(tree.nodes, L, P, p, d.node, d.offset, d.consumed)
      /\ Ends(tree.nodes, p, d.node, d.offset, d.consumed)
  BY <1>2, WalkEnd
<1>4. j \in Nat /\ j <= Len(p) /\ j <= Len(paths[r])
  BY <1>1, <1>2
<1>5. j <= d.consumed
  BY <1>2, <1>3, <1>4, WalkReaches
<1>6. d.consumed \in Nat /\ d.consumed <= Len(p)
  BY <1>3 DEF Matched
<1> QED
  BY <1>2, <1>3, <1>4, <1>5, <1>6

(* The invariant implies that prefix_position tells prefixes apart: two    *)
(* prefixes of known requests have one position only if they are equal.    *)
LEMMA InvPositions == ASSUME IInv PROVE PositionsInjective
<1>1. PICK L, P : Reads(L, P)
  BY DEF IInv, Keeps, Reads
<1>2. PICK N : N = tree.nodes
  BY Zenon
<1>3. Links(N, L, P)
  BY <1>1, <1>2, ReadsFacts
<1>4. ASSUME NEW r \in DOMAIN paths, NEW s \in DOMAIN paths,
             NEW p \in Prefixes(paths[r]), NEW q \in Prefixes(paths[s]),
             PrefixPosition(tree, p) = PrefixPosition(tree, q)
      PROVE  p = q
  <2>1. PICK d, e : d = Descend(tree, p) /\ e = Descend(tree, q)
    BY Zenon
  <2>2. PICK n, o, j, k : n = d.node /\ o = d.offset /\ j = d.consumed /\ k = e.consumed
    BY Zenon
  <2>3. n = e.node /\ o = e.offset
    <3>1. <<d.node, d.offset>> = <<e.node, e.offset>>
      BY <1>4, <2>1 DEF PrefixPosition
    <3> QED
      BY <2>2, <3>1
  <2>4. paths[r] \in Seq(Nat) /\ paths[s] \in Seq(Nat)
    BY PendingFacts
  <2>5. p \in Seq(Nat) /\ Matched(N, L, P, p, n, o, j) /\ j = Len(p)
    BY <1>1, <1>2, <2>1, <2>2, <2>4, KnownWalk
  <2>6. q \in Seq(Nat) /\ Matched(N, L, P, q, n, o, k) /\ k = Len(q)
    BY <1>1, <1>2, <2>1, <2>2, <2>3, <2>4, KnownWalk
  <2>7. PICK a, b : a = Len(N[n].edge) /\ b = Len(P[n])
    BY Zenon
  <2>8. /\ j \in Nat /\ k \in Nat /\ o \in Nat /\ n \in L /\ j + a = b + o /\ k + a = b + o
        /\ (\A i \in 1..j : p[i] = P[n][i]) /\ \A i \in 1..k : q[i] = P[n][i]
    BY <2>5, <2>6, <2>7 DEF Matched
  <2>9. a \in Nat /\ b \in Nat
    BY <1>3, <2>7, <2>8, PathFacts, EdgeFacts
  <2>10. j = k
    BY <2>8, <2>9
  <2>11. \A i \in 1..j : p[i] = q[i]
    BY <2>8, <2>10
  <2>12. Pre(p, q)
    BY <2>5, <2>6, <2>8, <2>10, <2>11 DEF Pre
  <2>13. Len(q) <= Len(p)
    BY <2>5, <2>6, <2>8, <2>10
  <2> QED
    BY <2>5, <2>6, <2>12, <2>13, PreBoth
<1> QED
  BY <1>4 DEF PositionsInjective

(* A descent ends at the greatest depth that any request has.              *)
LEMMA DescendDeepest ==
    ASSUME IInv, NEW L, NEW P, Reads(L, P), NEW p \in Seq(Nat), NEW n, NEW o, NEW k,
           Matched(tree.nodes, L, P, p, n, o, k), Ends(tree.nodes, p, n, o, k)
    PROVE  DeepestIs(p, 1, k)
<1>1. PICK N : N = tree.nodes
  BY Zenon
<1>2. Links(N, L, P) /\ Matched(N, L, P, p, n, o, k) /\ Ends(N, p, n, o, k)
  BY <1>1, ReadsFacts
<1>3. k \in Nat /\ k <= Len(p) /\ n \in L /\ \A i \in 1..k : p[i] = P[n][i]
  BY <1>2 DEF Matched
<1>4. ASSUME k # 0
      PROVE  \E h \in Seq(Nat) : Pre(h, p) /\ Len(h) = k /\ Cardinality(Under(paths, h)) >= 1
  <2>1. n # ROOT /\ k <= Len(P[n])
    BY <1>2, <1>4, Consumed
  <2>2. PICK r \in DOMAIN paths : Pre(P[n], paths[r])
    BY <1>3, <2>1, HasRequest
  <2>3. k \in 0..Len(p)
    BY <1>3
  <2>4. PICK h : h = SubSeq(p, 1, k)
    BY Zenon
  <2>5. h \in Seq(Nat) /\ Len(h) = k /\ \A i \in 1..k : h[i] = p[i]
    BY <2>3, <2>4, TakeFacts
  <2>6. \A i \in 1..k : h[i] = P[n][i]
    BY <1>3, <2>5
  <2>7. Pre(h, p) /\ Pre(h, P[n])
    BY <1>3, <2>1, <2>5, <2>6 DEF Pre
  <2>8. P[n] \in Seq(Nat) /\ paths[r] \in Seq(Nat)
    BY <1>2, <1>3, PathFacts, PendingFacts
  <2>9. Pre(h, paths[r])
    BY <2>2, <2>5, <2>7, <2>8, PreTrans
  <2>10. r \in Under(paths, h)
    BY <2>9 DEF Under
  <2>11. PICK U : U = Under(paths, h)
    BY Zenon
  <2>12. Cardinality(U) >= 1
    <3>1. IsFiniteSet(U) /\ U # {}
      BY <2>10, <2>11, PendingFacts
    <3> QED
      BY <3>1, CountFacts
  <2> QED
    BY <2>5, <2>7, <2>11, <2>12
<1>5. ASSUME NEW h \in Seq(Nat), Pre(h, p), Cardinality(Under(paths, h)) >= 1 PROVE Len(h) <= k
  <2>1. PICK U, j : U = Under(paths, h) /\ j = Len(h)
    BY Zenon
  <2>2. U # {}
    <3>1. IsFiniteSet(U) /\ Cardinality(U) >= 1
      BY <1>5, <2>1, PendingFacts
    <3> QED
      BY <3>1, CountFacts
  <2>3. PICK r \in DOMAIN paths : Pre(h, paths[r])
    BY <2>1, <2>2 DEF Under
  <2>4. /\ j \in Nat /\ j <= Len(p) /\ j <= Len(paths[r])
        /\ (\A i \in 1..j : h[i] = p[i]) /\ \A i \in 1..j : h[i] = paths[r][i]
    BY <1>5, <2>1, <2>3 DEF Pre
  <2>5. \A i \in 1..j : p[i] = paths[r][i]
    BY <2>4
  <2>6. j <= k
    BY <1>2, <1>1, <2>4, <2>5, WalkReaches
  <2> QED
    BY <2>1, <2>6
<1> QED
  BY <1>3, <1>4, <1>5 DEF DeepestIs

(* The rids sample_terminator_in_subtree may return below n: some request  *)
(* ends there or below, and each of them begins with the path of n.        *)
LEMMA SampleFacts ==
    ASSUME IInv, NEW L, NEW P, Reads(L, P), NEW n \in L, n # ROOT
    PROVE  /\ Samples(tree, n) # {}
           /\ \A r \in Samples(tree, n) : r \in DOMAIN paths /\ Pre(P[n], paths[r])
<1>1. PICK N : N = tree.nodes
  BY Zenon
<1>2. /\ Links(N, L, P) /\ Arena(tree, L) /\ L \subseteq DOMAIN N
      /\ \A m \in L : P[m] \in Seq(Nat)
      /\ \A m \in L : N[m].terminators = {r \in DOMAIN paths : paths[r] = P[m]}
      /\ \A r \in DOMAIN paths : \E m \in L : P[m] = paths[r]
  BY <1>1, ReadsFacts DEF Content
<1>3. PICK open, V : /\ open = {m \in DOMAIN N : N[m].terminators = {}}
                     /\ V = Visited(tree, n, open)
  BY Zenon
<1>4. V = Below(L, P, open, n)
  BY <1>1, <1>2, <1>3, VisitedFacts
<1>5. Samples(tree, n) = UNION {N[m].terminators : m \in V}
  BY <1>1, <1>3 DEF Samples
<1>6. ASSUME NEW r \in Samples(tree, n) PROVE r \in DOMAIN paths /\ Pre(P[n], paths[r])
  <2>1. PICK m \in V : r \in N[m].terminators
    BY <1>5
  <2>2. m \in L /\ Pre(P[n], P[m])
    BY <1>4 DEF Below
  <2> QED
    BY <1>2, <2>1, <2>2
<1>7. Samples(tree, n) # {}
  <2> DEFINE Ended(m) == m \in L /\ Pre(P[n], P[m]) /\ N[m].terminators # {}
             B == {j \in Nat : \E m \in L : j = Len(P[m]) /\ Ended(m)}
  <2>1. PICK r \in DOMAIN paths : Pre(P[n], paths[r])
    BY HasRequest
  <2>2. PICK c \in L : P[c] = paths[r]
    BY <1>2
  <2>3. Ended(c)
    BY <1>2, <2>1, <2>2
  <2>4. Len(P[c]) \in B
    <3>1. Len(P[c]) \in Nat
      BY <1>2
    <3> QED
      BY <2>3, <3>1
  <2>5. PICK j \in B : \A k \in B : j <= k
    <3>1. B \in SUBSET Nat
      OBVIOUS
    <3> HIDE DEF B
    <3> QED
      BY <2>4, <3>1, LeastNat
  <2>6. PICK m \in L : j = Len(P[m]) /\ Ended(m)
    BY <2>5
  <2>7. ASSUME NEW x \in L, Between(P, n, x, m) PROVE x \in open
    <3>1. Pre(P[n], P[x]) /\ Pre(P[x], P[m]) /\ x # m
      BY <2>7 DEF Between
    <3>2. PICK a, b : a = Len(P[x]) /\ b = Len(P[m])
      BY Zenon
    <3>3. a \in Nat /\ b \in Nat /\ a <= b
      BY <1>2, <3>1, <3>2 DEF Pre
    <3>4. a # b
      <4> SUFFICES ASSUME a = b PROVE FALSE
        OBVIOUS
      <4>1. Len(P[m]) <= Len(P[x])
        BY <3>2, <3>3
      <4>2. P[x] = P[m]
        BY <1>2, <3>1, <4>1, PreBoth
      <4> QED
        BY <1>2, <3>1, <4>2, OneSlot
    <3>5. a \notin B
      <4>1. ~(b <= a)
        BY <3>3, <3>4
      <4> HIDE DEF B
      <4> QED
        BY <2>5, <2>6, <3>2, <4>1
    <3>6. ~Ended(x)
      BY <3>2, <3>3, <3>5
    <3> QED
      BY <1>2, <1>3, <3>1, <3>6
  <2>8. m \in V
    BY <1>4, <2>6, <2>7 DEF Below
  <2> QED
    BY <1>5, <2>6, <2>8
<1> QED
  BY <1>6, <1>7

(* The invariant implies that longest_match_along answers the depth of     *)
(* the longest overlap with any request, with a request that has it.       *)
LEMMA InvMatchAlong == ASSUME IInv PROVE MatchAlongSound
<1>1. PICK L, P : Reads(L, P)
  BY DEF IInv, Keeps, Reads
<1>2. PICK N : N = tree.nodes
  BY Zenon
<1>3. Links(N, L, P)
  BY <1>1, <1>2, ReadsFacts
<1>4. ASSUME NEW p \in Prompts, NEW a, a = LongestMatchAlong(tree, p)
      PROVE  /\ a.depth = Max({0} \cup {MatchEdgeLen(paths[q], p) : q \in DOMAIN paths})
             /\ \A r \in a.rids : MatchEdgeLen(paths[r], p) = a.depth
             /\ a.rids = {} <=> a.depth = 0
  <2>1. p \in Seq(Nat)
    BY PendingAssumption
  <2>2. PICK d, n, o, k : d = Descend(tree, p) /\ n = d.node /\ o = d.offset /\ k = d.consumed
    BY Zenon
  <2>3. Matched(N, L, P, p, n, o, k) /\ Ends(N, p, n, o, k)
    BY <1>1, <1>2, <2>1, <2>2, WalkEnd
  <2>4. PICK R : R = IF k = 0 THEN {} ELSE Samples(tree, n)
    BY Zenon
  <2>5. a.depth = k /\ a.rids = R
    <3>1. a = [depth |-> k, rids |-> R]
      BY <1>4, <2>2, <2>4, Zenon DEF LongestMatchAlong
    <3> QED
      BY <3>1
  <2>6. DeepestIs(p, 1, k)
    BY <1>1, <1>2, <2>1, <2>3, DescendDeepest
  <2>7. Max({0} \cup {MatchEdgeLen(paths[q], p) : q \in DOMAIN paths}) = k
    BY <2>1, <2>6, MatchedDepth
  <2>8. n \in L /\ k \in Nat /\ k <= Len(p) /\ \A i \in 1..k : p[i] = P[n][i]
    BY <2>3 DEF Matched
  <2>9. k <= Len(P[n]) /\ (n = ROOT <=> k = 0)
    BY <1>3, <2>3, Consumed
  <2>10. k # 0 => R # {} /\ \A r \in R : r \in DOMAIN paths /\ Pre(P[n], paths[r])
    BY <1>1, <2>4, <2>8, <2>9, SampleFacts
  <2>11. ASSUME NEW r \in R PROVE MatchEdgeLen(paths[r], p) = k
    <3>1. r \in DOMAIN paths /\ Pre(P[n], paths[r])
      BY <2>4, <2>10, <2>11
    <3>2. PICK b, f : b = paths[r] /\ f = MatchEdgeLen(b, p)
      BY Zenon
    <3>3. b \in Seq(Nat)
      BY <3>1, <3>2, PendingFacts
    <3>4. Overlap(p, b, f)
      BY <2>1, <3>2, <3>3, OverlapFacts
    <3>5. PICK c, e : c = Len(P[n]) /\ e = Len(b)
      BY Zenon
    <3>6. c \in Nat /\ e \in Nat /\ c <= e /\ \A i \in 1..c : P[n][i] = b[i]
      BY <1>3, <2>8, <3>1, <3>2, <3>3, <3>5, PathFacts DEF Pre
    <3>7. k <= e /\ \A i \in 1..k : i \in 1..c
      BY <2>8, <2>9, <3>5, <3>6
    <3>8. \A i \in 1..k : p[i] = b[i]
      BY <2>8, <3>6, <3>7
    <3>9. k <= f /\ f \in Nat /\ f <= Len(p) /\ f <= Len(b) /\ \A i \in 1..f : p[i] = b[i]
      BY <2>8, <3>4, <3>5, <3>7, <3>8 DEF Overlap
    <3>10. f <= k
      BY <1>1, <1>2, <2>1, <2>3, <3>1, <3>2, <3>9, WalkReaches
    <3> QED
      BY <2>8, <3>2, <3>9, <3>10
  <2> QED
    BY <2>4, <2>5, <2>7, <2>10, <2>11
<1> QED
  BY <1>4, Zenon DEF MatchAlongSound

(* Every lookup the dual walk and the LPM sort ask of the tree is exact    *)
(* in every reachable state: deepest_with_count finds the longest prefix   *)
(* shared by at least that many requests, prefix_position tells prefixes   *)
(* apart, and longest_match_along returns the longest overlap and          *)
(* requests that have it.                                                  *)
THEOREM TreeLookupsExact == Spec => []LookupsExact
<1>1. IInv => LookupsExact
  BY InvShared, InvPositions, InvMatchAlong DEF LookupsExact
<1> QED
  BY <1>1, PendingInvariant, PTL

-----------------------------------------------------------------------------
(* The dual walk over the tree and a cache.                                *)

(* k tokens of p are in the cache: as many as a cached sequence shares.    *)
HitIs(cache, p, k) ==
    /\ k \in Nat /\ k <= Len(p)
    /\ k = 0 \/ \E c \in cache : k <= Len(c) /\ \A i \in 1..k : c[i] = p[i]
    /\ \A c \in cache : \A j \in Nat :
          j <= Len(c) /\ j <= Len(p) /\ (\A i \in 1..j : c[i] = p[i]) => j <= k

(* The cache answers with the greatest overlap.                            *)
LEMMA HitFacts ==
    ASSUME NEW cache \in SUBSET Seq(Nat), NEW p \in Seq(Nat), NEW k, k = CacheMatch(cache, p)
    PROVE  HitIs(cache, p, k)
<1>1. PICK l : l = Len(p)
  BY Zenon
<1>2. l \in Nat
  BY <1>1
<1>3. ASSUME NEW c \in cache PROVE Overlap(c, p, MatchEdgeLen(c, p))
  BY <1>3, OverlapFacts
<1>4. PICK S : S = {0} \cup {MatchEdgeLen(c, p) : c \in cache}
  BY Zenon
<1>5. \A c \in cache : MatchEdgeLen(c, p) \in Nat /\ MatchEdgeLen(c, p) <= l
  BY <1>1, <1>3 DEF Overlap
<1>6. S \in SUBSET Int /\ S # {} /\ S \in SUBSET (0..l)
  BY <1>2, <1>4, <1>5
<1>7. IsFiniteSet(S)
  <2>1. IsFiniteSet(0..l)
    BY <1>2, FS_Interval
  <2> QED
    BY <1>6, <2>1, FS_Subset
<1>8. k = Max(S)
  BY <1>4 DEF CacheMatch
<1>9. k \in S /\ \A i \in S : i <= k
  BY <1>6, <1>7, <1>8, MaxMinFacts
<1>10. k \in Nat /\ k <= l
  BY <1>2, <1>6, <1>9
<1>11. k = 0 \/ \E c \in cache : k <= Len(c) /\ \A i \in 1..k : c[i] = p[i]
  <2> SUFFICES ASSUME k # 0 PROVE \E c \in cache : k <= Len(c) /\ \A i \in 1..k : c[i] = p[i]
    OBVIOUS
  <2>1. PICK c \in cache : k = MatchEdgeLen(c, p)
    BY <1>4, <1>9
  <2>2. Overlap(c, p, k)
    BY <1>3, <2>1
  <2> QED
    BY <2>2 DEF Overlap
<1>12. ASSUME NEW c \in cache, NEW j \in Nat, j <= Len(c), j <= Len(p), \A i \in 1..j : c[i] = p[i]
       PROVE  j <= k
  <2>1. PICK m : m = MatchEdgeLen(c, p)
    BY Zenon
  <2>2. Overlap(c, p, m)
    BY <1>3, <2>1
  <2>3. j <= m /\ m \in Nat
    BY <1>12, <2>2 DEF Overlap
  <2>4. m <= k
    BY <1>4, <1>9, <2>1
  <2> QED
    BY <1>10, <2>3, <2>4
<1> QED
  BY <1>1, <1>10, <1>11, <1>12 DEF HitIs

(* A sequence that goes on from p hits at least as much where all of p     *)
(* does, and exactly as much where p misses.                               *)
LEMMA HitOn ==
    ASSUME NEW cache \in SUBSET Seq(Nat), NEW p \in Seq(Nat), NEW q \in Seq(Nat), Pre(p, q),
           NEW a, NEW b, HitIs(cache, p, a), HitIs(cache, q, b)
    PROVE  (a >= Len(p) => Len(p) <= b) /\ (a < Len(p) => a = b)
<1>1. PICK l, m : l = Len(p) /\ m = Len(q)
  BY Zenon
<1>2. l \in Nat /\ m \in Nat /\ l <= m /\ \A i \in 1..l : p[i] = q[i]
  <2>1. l <= m /\ \A i \in 1..l : p[i] = q[i]
    BY <1>1, Zenon DEF Pre
  <2> QED
    BY <1>1, <2>1
<1>3. /\ a \in Nat /\ a <= l
      /\ a = 0 \/ \E c \in cache : a <= Len(c) /\ \A i \in 1..a : c[i] = p[i]
      /\ \A c \in cache : \A j \in Nat :
            j <= Len(c) /\ j <= l /\ (\A i \in 1..j : c[i] = p[i]) => j <= a
  BY <1>1 DEF HitIs
<1>4. /\ b \in Nat /\ b <= m
      /\ b = 0 \/ \E c \in cache : b <= Len(c) /\ \A i \in 1..b : c[i] = q[i]
      /\ \A c \in cache : \A j \in Nat :
            j <= Len(c) /\ j <= m /\ (\A i \in 1..j : c[i] = q[i]) => j <= b
  BY <1>1 DEF HitIs
<1>5. a <= b
  <2>1. CASE a = 0
    BY <1>4, <2>1
  <2>2. CASE a # 0
    <3>1. PICK c \in cache : a <= Len(c) /\ \A i \in 1..a : c[i] = p[i]
      BY <1>3, <2>2
    <3>2. a <= m /\ \A i \in 1..a : i \in 1..l
      BY <1>2, <1>3
    <3>3. \A i \in 1..a : c[i] = q[i]
      BY <1>2, <3>1, <3>2
    <3> QED
      BY <1>3, <1>4, <3>1, <3>2, <3>3
  <2> QED
    BY <2>1, <2>2
<1>6. ASSUME a < l PROVE b <= a
  <2>1. CASE b = 0
    BY <1>3, <2>1
  <2>2. CASE b # 0
    <3>1. PICK c \in cache : b <= Len(c) /\ \A i \in 1..b : c[i] = q[i]
      BY <1>4, <2>2
    <3>2. PICK k : k = IF b <= l THEN b ELSE l
      BY Zenon
    <3>3. k \in Nat /\ k <= b /\ k <= l
      BY <1>2, <1>4, <3>2
    <3>4. Len(c) \in Nat
      BY <3>1
    <3>5. k <= Len(c)
      BY <1>4, <3>1, <3>3, <3>4
    <3>6. \A i \in 1..k : i \in 1..b /\ i \in 1..l
      BY <1>2, <1>4, <3>3
    <3>7. \A i \in 1..k : c[i] = p[i]
      BY <1>2, <3>1, <3>6
    <3>8. k <= a
      BY <1>3, <3>3, <3>5, <3>7
    <3> QED
      BY <1>2, <1>3, <1>4, <1>6, <3>2, <3>8
  <2> QED
    BY <2>1, <2>2
<1>7. (a >= l => l <= b) /\ (a < l => a = b)
  BY <1>2, <1>3, <1>4, <1>5, <1>6
<1> QED
  BY <1>1, <1>7

(* Where the paths of two slots part there is a slot.                      *)
LEMMA MeetingSlot ==
    ASSUME NEW N, NEW L, NEW P, Links(N, L, P), IsFiniteSet(L), NEW x \in L, NEW y \in L, NEW k,
           Overlap(P[x], P[y], k)
    PROVE  \E m \in L : Len(P[m]) = k /\ Pre(P[m], P[x]) /\ Pre(P[m], P[y])
<1>1. ROOT \in L /\ P[ROOT] = <<>> /\ \A n \in L : P[n] \in Seq(Nat)
  BY DEF Links
<1>2. \A n \in L : Len(P[n]) \in Nat
  BY <1>1
<1>3. PICK A : A = {m \in L : Pre(P[m], P[x]) /\ Pre(P[m], P[y])}
  BY Zenon
<1>4. ROOT \in A
  <2>1. Pre(P[ROOT], P[x]) /\ Pre(P[ROOT], P[y])
    BY <1>1, <1>2 DEF Pre
  <2> QED
    BY <1>1, <1>3, <2>1
<1>5. PICK f : f = [m \in A |-> Len(P[m])]
  BY Zenon
<1>6. f \in [A -> Nat] /\ IsFiniteSet(A)
  <2>1. A \subseteq L
    BY <1>3
  <2> QED
    BY <1>2, <1>5, <2>1, FS_Subset
<1>7. PICK m \in A : \A n \in A : f[n] <= f[m]
  BY <1>4, <1>6, GreatestValue
<1>8. /\ k \in Nat /\ k <= Len(P[x]) /\ k <= Len(P[y]) /\ \A i \in 1..k : P[x][i] = P[y][i]
      /\ \A j \in Nat : j <= Len(P[x]) /\ j <= Len(P[y]) /\ (\A i \in 1..j : P[x][i] = P[y][i]) => j <= k
  BY DEF Overlap
<1>9. m \in L /\ Pre(P[m], P[x]) /\ Pre(P[m], P[y])
  BY <1>3, <1>7
<1>10. PICK b : b = Len(P[m])
  BY Zenon
<1>11. b \in Nat /\ b <= k
  <2>1. /\ b \in Nat /\ b <= Len(P[x]) /\ b <= Len(P[y])
        /\ \A i \in 1..b : P[m][i] = P[x][i] /\ P[m][i] = P[y][i]
    BY <1>2, <1>9, <1>10 DEF Pre
  <2>2. \A i \in 1..b : P[x][i] = P[y][i]
    BY <2>1
  <2> QED
    BY <1>8, <2>1, <2>2
<1>12. ~(b < k)
  <2> SUFFICES ASSUME b < k PROVE FALSE
    OBVIOUS
  <2>1. m # x
    BY <1>2, <1>8, <1>9, <1>10
  <2>2. PICK c \in L \ {ROOT} : N[c].parent = m /\ Pre(P[c], P[x])
    BY <1>9, <2>1, ChildOnWay
  <2>3. Len(P[m]) < Len(P[c]) /\ Pre(P[m], P[c])
    BY <2>2, UpFacts
  <2>4. b + 1 \in 1..k /\ \A i \in 1..(b + 1) : i \in 1..k
    BY <1>8, <1>11
  <2>5. b < Len(P[y])
    BY <1>2, <1>8, <1>11
  <2>6. \A i \in 1..(b + 1) : i \in 1..Len(P[c])
    BY <1>2, <1>10, <1>11, <2>2, <2>3
  <2>7. \A i \in 1..(b + 1) : P[y][i] = P[c][i]
    BY <1>8, <2>2, <2>4, <2>6 DEF Pre
  <2>8. MeetsAt(N, P, c, y)
    BY <1>10, <2>2, <2>5, <2>7 DEF MeetsAt
  <2>9. Pre(P[c], P[y])
    BY <2>2, <2>8, Branches
  <2>10. c \in A
    BY <1>3, <2>2, <2>9
  <2>11. Len(P[c]) <= Len(P[m])
    BY <1>5, <1>7, <2>10
  <2> QED
    BY <1>2, <1>9, <2>2, <2>3, <2>11
<1>13. b = k
  BY <1>8, <1>11, <1>12
<1> QED
  BY <1>9, <1>10, <1>13

(* The dual walk asks for the slots on the way to the request r down to    *)
(* the depth s: those are the ones that enough requests share.             *)
AskedTo(N, L, P, least, r, s) ==
    /\ s \in Nat /\ s <= Len(paths[r])
    /\ s = 0 \/ \E m \in L : Pre(P[m], paths[r]) /\ Len(P[m]) = s
    /\ \A c \in L \ {ROOT} : Pre(P[c], paths[r]) => (N[c].pending_count >= least <=> Len(P[c]) <= s)
    /\ s = 0 => \A c \in L \ {ROOT} : Pre(P[c], paths[r]) => P[c] = paths[r]

(* With the threshold 1 it asks all the way.                               *)
LEMMA AskedAll ==
    ASSUME IInv, NEW L, NEW P, Reads(L, P), NEW r \in DOMAIN paths
    PROVE  AskedTo(tree.nodes, L, P, 1, r, Len(paths[r]))
<1>1. PICK N, p, l : N = tree.nodes /\ p = paths[r] /\ l = Len(paths[r])
  BY Zenon
<1>2. Links(N, L, P) /\ Content(N, L, P, paths) /\ p \in Seq(Nat) /\ l \in Nat /\ l = Len(p)
  BY <1>1, ReadsFacts, PendingFacts
<1>3. PICK m \in L : P[m] = p
  BY <1>1, <1>2 DEF Content
<1>4. Pre(P[m], p) /\ Len(P[m]) = l
  BY <1>2, <1>3 DEF Pre
<1>5. ASSUME NEW c \in L \ {ROOT}, Pre(P[c], p)
      PROVE  N[c].pending_count >= 1 /\ Len(P[c]) <= l /\ l # 0
  <2>1. PICK U : U = Under(paths, P[c])
    BY Zenon
  <2>2. r \in U /\ IsFiniteSet(U)
    BY <1>1, <1>5, <2>1, PendingFacts DEF Under
  <2>3. Cardinality(U) >= 1
    BY <2>2, CountFacts
  <2>4. N[c].pending_count = Cardinality(U)
    BY <1>2, <2>1 DEF Content
  <2>5. Len(P[c]) \in Nat /\ Len(P[c]) > 0
    BY <1>2, PathFacts
  <2>6. Len(P[c]) <= l
    BY <1>2, <1>5 DEF Pre
  <2> QED
    BY <1>2, <2>3, <2>4, <2>5, <2>6
<1>6. \A c \in L \ {ROOT} : Pre(P[c], p) => (N[c].pending_count >= 1 <=> Len(P[c]) <= l)
  BY <1>5
<1>7. l = 0 => \A c \in L \ {ROOT} : Pre(P[c], p) => P[c] = p
  BY <1>5
<1>8. l <= l
  BY <1>2
<1> QED
  BY <1>1, <1>2, <1>3, <1>4, <1>6, <1>7, <1>8 DEF AskedTo

(* What lies below two children of a slot lies apart.                      *)
LEMMA KidsApart ==
    ASSUME NEW N, NEW L, NEW P, Links(N, L, P), NEW b \in L \ {ROOT}, NEW c \in L \ {ROOT}, b # c,
           N[b].parent = N[c].parent, NEW q \in Seq(Nat), Pre(P[b], q), Pre(P[c], q)
    PROVE  FALSE
<1>1. P[b] \in Seq(Nat) /\ P[c] \in Seq(Nat)
  BY PathFacts
<1>2. PICK n : n = N[b].parent
  BY Zenon
<1>3. n \in L /\ Len(P[n]) < Len(P[b]) /\ Len(P[n]) < Len(P[c]) /\ P[n] \in Seq(Nat)
  <2>1. n \in L /\ Len(P[n]) < Len(P[b]) /\ P[n] \in Seq(Nat)
    BY <1>2, UpFacts
  <2>2. Len(P[n]) < Len(P[c])
    BY <1>2, UpFacts
  <2> QED
    BY <2>1, <2>2
<1>4. ASSUME NEW x \in L \ {ROOT}, NEW y \in L, x # y, N[y].parent = n, Pre(P[x], P[y]),
             Len(P[n]) < Len(P[x]), P[x] \in Seq(Nat)
      PROVE  FALSE
  <2>1. Pre(P[x], P[n])
    BY <1>4, AboveParent
  <2>2. Len(P[n]) \in Nat /\ Len(P[x]) \in Nat /\ Len(P[x]) <= Len(P[n])
    BY <1>3, <1>4, <2>1 DEF Pre
  <2> QED
    BY <1>4, <2>2
<1>5. Pre(P[b], P[c]) \/ Pre(P[c], P[b])
  BY <1>1, PreEither
<1> QED
  BY <1>1, <1>2, <1>3, <1>4, <1>5

(* A slot that only one request passes is where this request ends.         *)
LEMMA PrivateEnds ==
    ASSUME IInv, NEW L, NEW P, Reads(L, P), NEW r \in DOMAIN paths, NEW c \in L \ {ROOT},
           Pre(P[c], paths[r]), \A q \in DOMAIN paths : Pre(P[c], paths[q]) => q = r
    PROVE  P[c] = paths[r]
<1>1. PICK N : N = tree.nodes
  BY Zenon
<1>2. Links(N, L, P) /\ Content(N, L, P, paths) /\ Compact(N, L, ROOT)
  BY <1>1, ReadsFacts DEF Reads
<1>3. Branching(N[c])
  BY <1>2 DEF Compact
<1>4. CASE N[c].terminators # {}
  <2>1. PICK q \in DOMAIN paths : paths[q] = P[c]
    BY <1>2, <1>4 DEF Content
  <2>2. P[c] \in Seq(Nat)
    BY <1>2, PathFacts
  <2>3. Pre(P[c], P[c])
    BY <2>2 DEF Pre
  <2> QED
    BY <2>1, <2>3
<1>5. CASE \E j, k \in DOMAIN N[c].children : j # k
  <2>1. PICK j, k \in DOMAIN N[c].children : j # k
    BY <1>5
  <2>2. PICK a, b : a = N[c].children[j] /\ b = N[c].children[k]
    BY Zenon
  <2>3. DownLinks(N, L, c)
    BY <1>2 DEF Links
  <2>4. /\ a \in L \ {ROOT} /\ N[a].parent = c /\ N[a].edge[1] = j
        /\ b \in L \ {ROOT} /\ N[b].parent = c /\ N[b].edge[1] = k
    BY <2>1, <2>2, <2>3 DEF DownLinks
  <2>5. a # b
    BY <2>1, <2>4
  <2>6. ASSUME NEW x \in L \ {ROOT}, N[x].parent = c PROVE Pre(P[x], paths[r])
    <3>1. PICK q \in DOMAIN paths : Pre(P[x], paths[q])
      BY <2>6, HasRequest
    <3>2. Pre(P[c], P[x]) /\ P[c] \in Seq(Nat) /\ P[x] \in Seq(Nat)
      BY <1>2, <2>6, UpFacts
    <3>3. paths[q] \in Seq(Nat)
      BY PendingFacts
    <3>4. Pre(P[c], paths[q])
      BY <3>1, <3>2, <3>3, PreTrans
    <3> QED
      BY <3>1, <3>4
  <2>7. Pre(P[a], paths[r]) /\ Pre(P[b], paths[r])
    BY <2>4, <2>6
  <2>8. paths[r] \in Seq(Nat)
    BY PendingFacts
  <2> QED
    BY <1>2, <2>4, <2>5, <2>7, <2>8, KidsApart
<1> QED
  BY <1>3, <1>4, <1>5 DEF Branching

(* How far a request shares its tokens with another one: the deepest slot  *)
(* on its way that two requests pass.                                      *)
LEMMA SharedFacts ==
    ASSUME IInv, NEW r \in DOMAIN paths, NEW s, s = SharedWithOther(r)
    PROVE  /\ DeepestIs(paths[r], 2, s)
           /\ s = 0 \/ \E q \in DOMAIN paths \ {r} : Overlap(paths[r], paths[q], s)
<1>1. paths[r] \in Seq(Nat) /\ 2 \in Nat /\ 2 > 0
  BY PendingFacts
<1>2. s = LongestSharedPrefix(r)
  BY InvShared DEF SharedPrefixExact
<1>3. s = DeepestWithCount(tree, paths[r], 2)
  BY <1>2 DEF LongestSharedPrefix
<1>4. DeepestIs(paths[r], 2, s)
  BY <1>1, <1>3, DeepestFacts
<1>5. ASSUME NEW q \in DOMAIN paths \ {r} PROVE Overlap(paths[r], paths[q], Shared(r, q))
  BY <1>1, PendingFacts, OverlapFacts DEF Shared
<1>6. PICK Q : Q = {Shared(r, q) : q \in DOMAIN paths \ {r}}
  BY Zenon
<1>7. Q \in SUBSET Nat /\ IsFiniteSet(Q)
  <2>1. PICK f : f = [q \in DOMAIN paths \ {r} |-> Shared(r, q)]
    BY Zenon
  <2>2. f \in Surjection(DOMAIN paths \ {r}, Q)
    BY <1>6, <2>1 DEF Surjection
  <2>3. DOMAIN paths \ {r} \subseteq DOMAIN paths
    OBVIOUS
  <2>4. IsFiniteSet(DOMAIN paths \ {r})
    BY <2>3, PendingFacts, FS_Subset
  <2>5. IsFiniteSet(Q)
    BY <2>2, <2>4, FS_Surjection
  <2>6. \A q \in DOMAIN paths \ {r} : Shared(r, q) \in Nat
    BY <1>5 DEF Overlap
  <2> QED
    BY <1>6, <2>5, <2>6
<1>8. {0} \cup Q \in SUBSET Int /\ {0} \cup Q # {} /\ IsFiniteSet({0} \cup Q)
  <2>1. IsFiniteSet({0})
    BY FS_Singleton
  <2>2. IsFiniteSet({0} \cup Q)
    BY <1>7, <2>1, FS_Union
  <2> QED
    BY <1>7, <2>2
<1>9. s = Max({0} \cup Q)
  BY <1>6 DEF SharedWithOther
<1>10. s \in {0} \cup Q
  BY <1>8, <1>9, MaxMinFacts
<1>11. s = 0 \/ \E q \in DOMAIN paths \ {r} : Overlap(paths[r], paths[q], s)
  BY <1>5, <1>6, <1>10
<1> QED
  BY <1>4, <1>11

(* With the threshold 2 it asks as far as the request shares its tokens.   *)
LEMMA AskedShared ==
    ASSUME IInv, NEW L, NEW P, Reads(L, P), NEW r \in DOMAIN paths
    PROVE  AskedTo(tree.nodes, L, P, 2, r, SharedWithOther(r))
<1>1. PICK N, p, s : N = tree.nodes /\ p = paths[r] /\ s = SharedWithOther(r)
  BY Zenon
<1>2. /\ Links(N, L, P) /\ Content(N, L, P, paths) /\ IsFiniteSet(L) /\ p \in Seq(Nat)
      /\ \A q \in DOMAIN paths : paths[q] \in Seq(Nat)
  BY <1>1, ReadsFacts, PendingFacts
<1>3. /\ DeepestIs(p, 2, s)
      /\ s = 0 \/ \E q \in DOMAIN paths \ {r} : Overlap(p, paths[q], s)
  BY <1>1, SharedFacts
<1>4. Len(p) \in Nat
  BY <1>2
<1>5. s \in Nat /\ s <= Len(p)
  BY <1>3, <1>4 DEF DeepestIs, Overlap
<1>6. s = 0 \/ \E m \in L : Pre(P[m], p) /\ Len(P[m]) = s
  <2> SUFFICES ASSUME s # 0 PROVE \E m \in L : Pre(P[m], p) /\ Len(P[m]) = s
    OBVIOUS
  <2>1. PICK q \in DOMAIN paths \ {r} : Overlap(p, paths[q], s)
    BY <1>3
  <2>2. PICK x, y \in L : P[x] = p /\ P[y] = paths[q]
    BY <1>1, <1>2 DEF Content
  <2>3. Overlap(P[x], P[y], s)
    BY <2>1, <2>2
  <2>4. PICK m \in L : Len(P[m]) = s /\ Pre(P[m], P[x])
    BY <1>2, <2>3, MeetingSlot
  <2> QED
    BY <2>2, <2>4
<1>7. ASSUME NEW c \in L \ {ROOT}, Pre(P[c], p)
      PROVE  N[c].pending_count >= 2 <=> Len(P[c]) <= s
  <2>1. P[c] \in Seq(Nat) /\ Len(P[c]) \in Nat /\ Len(P[c]) > 0
    BY <1>2, PathFacts
  <2>2. N[c].pending_count = Cardinality(Under(paths, P[c]))
    BY <1>2 DEF Content
  <2>3. P[c] # <<>>
    BY <2>1
  <2>4. N[c].pending_count >= 2 => Len(P[c]) <= s
    BY <1>3, <1>7, <2>1, <2>2, <2>3 DEF DeepestIs
  <2>5. ASSUME Len(P[c]) <= s PROVE N[c].pending_count >= 2
    <3>1. s # 0
      BY <1>5, <2>1, <2>5
    <3>2. PICK q \in DOMAIN paths \ {r} : Overlap(p, paths[q], s)
      BY <1>3, <3>1
    <3>3. Pre(P[c], paths[q])
      <4>1. PICK k, b, m : k = Len(P[c]) /\ b = paths[q] /\ m = Len(paths[q])
        BY Zenon
      <4>2. /\ k \in Nat /\ m \in Nat /\ k <= s /\ s <= m /\ (\A i \in 1..s : p[i] = b[i])
            /\ \A i \in 1..k : P[c][i] = p[i]
        BY <1>2, <1>7, <2>1, <2>5, <3>2, <4>1 DEF Overlap, Pre
      <4>3. k <= m /\ \A i \in 1..k : i \in 1..s
        BY <1>5, <4>2
      <4>4. \A i \in 1..k : P[c][i] = b[i]
        BY <4>2, <4>3
      <4> QED
        BY <4>1, <4>3, <4>4 DEF Pre
    <3>4. r \in Under(paths, P[c]) /\ q \in Under(paths, P[c]) /\ q # r
      BY <1>1, <1>7, <3>2, <3>3 DEF Under
    <3>5. IsFiniteSet(Under(paths, P[c]))
      BY PendingFacts
    <3> QED
      BY <2>2, <3>4, <3>5, CountFacts
  <2> QED
    BY <2>4, <2>5
<1>8. ASSUME s = 0, NEW c \in L \ {ROOT}, Pre(P[c], p) PROVE P[c] = p
  <2>1. P[c] \in Seq(Nat) /\ Len(P[c]) \in Nat /\ Len(P[c]) > 0
    BY <1>2, PathFacts
  <2>2. P[c] # <<>>
    BY <2>1
  <2>3. ~(Cardinality(Under(paths, P[c])) >= 2)
    BY <1>3, <1>8, <2>1, <2>2 DEF DeepestIs
  <2>4. r \in Under(paths, P[c])
    BY <1>1, <1>8 DEF Under
  <2>5. \A q \in Under(paths, P[c]) : q = r
    BY <2>3, <2>4, PendingFacts, CountFacts
  <2>6. \A q \in DOMAIN paths : Pre(P[c], paths[q]) => q = r
    BY <2>5 DEF Under
  <2> QED
    BY <1>1, <1>8, <2>6, PrivateEnds
<1> QED
  BY <1>1, <1>5, <1>6, <1>7, <1>8 DEF AskedTo

(* The hit of a request whose own hit is h, whose way is asked for down to *)
(* the depth s, and which is l tokens long; and what a walk that has come  *)
(* to the slot n, d tokens deep, gives it.                                 *)
Settle(h, s, l) == IF h <= (IF s = 0 THEN l ELSE s) THEN h ELSE IF s = 0 THEN l ELSE s

Gives(n, d, h, s, l) == IF n # ROOT /\ s <= d THEN d ELSE Settle(h, s, l)

(* One turn of the walk, from the slot n to its child c on the way to r.   *)
IsTurn(N, L, P, n, c, r, least, s, cache, h, k) ==
    /\ Links(N, L, P) /\ n \in L /\ c \in L \ {ROOT} /\ N[c].parent = n
    /\ paths[r] \in Seq(Nat) /\ Pre(P[c], paths[r]) /\ AskedTo(N, L, P, least, r, s)
    /\ cache \in SUBSET Seq(Nat) /\ HitIs(cache, paths[r], h) /\ HitIs(cache, P[c], k)

(* What it gives follows from what is given at the child.                  *)
LEMMA GivesTurn ==
    ASSUME NEW N, NEW L, NEW P, NEW n, NEW c, NEW r, NEW least, NEW s, NEW cache, NEW h, NEW k,
           IsTurn(N, L, P, n, c, r, least, s, cache, h, k)
    PROVE  Gives(n, Len(P[n]), h, s, Len(paths[r])) =
             IF n # ROOT /\ ~(N[c].pending_count >= least) THEN Len(P[n])
             ELSE IF k >= Len(P[c]) THEN Gives(c, Len(P[c]), h, s, Len(paths[r])) ELSE k
<1>1. /\ Links(N, L, P) /\ n \in L /\ c \in L \ {ROOT} /\ N[c].parent = n
      /\ paths[r] \in Seq(Nat) /\ Pre(P[c], paths[r]) /\ AskedTo(N, L, P, least, r, s)
      /\ cache \in SUBSET Seq(Nat) /\ HitIs(cache, paths[r], h) /\ HitIs(cache, P[c], k)
  BY Zenon DEF IsTurn
<1>2. PICK a, b, l, p : a = Len(P[n]) /\ b = Len(P[c]) /\ l = Len(paths[r]) /\ p = paths[r]
  BY Zenon
<1>3. /\ P[c] \in Seq(Nat) /\ P[n] \in Seq(Nat) /\ a \in Nat /\ b \in Nat /\ a < b
      /\ n = ROOT => a = 0
  <2>1. a < b /\ P[c] \in Seq(Nat) /\ P[n] \in Seq(Nat)
    BY <1>1, <1>2, UpFacts
  <2>2. n = ROOT => P[n] = <<>>
    BY <1>1 DEF Links
  <2> QED
    BY <1>2, <2>1, <2>2
<1>4. l \in Nat /\ b <= l
  BY <1>1, <1>2, <1>3 DEF Pre
<1>5. s \in Nat /\ s <= l /\ (N[c].pending_count >= least <=> b <= s)
  BY <1>1, <1>2 DEF AskedTo
<1>6. s = 0 => b = l
  BY <1>1, <1>2 DEF AskedTo
<1>7. s = 0 \/ s <= a \/ b <= s
  <2> SUFFICES ASSUME s # 0, ~(s <= a) PROVE b <= s
    OBVIOUS
  <2>1. PICK m \in L : Pre(P[m], p) /\ Len(P[m]) = s
    BY <1>1, <1>2 DEF AskedTo
  <2>2. P[m] \in Seq(Nat)
    BY <1>1, PathFacts
  <2>3. Pre(P[m], P[c]) \/ Pre(P[c], P[m])
    BY <1>1, <1>2, <1>3, <2>1, <2>2, PreEither
  <2>4. CASE Pre(P[c], P[m])
    BY <1>1, <1>2, <2>1, <2>4 DEF Pre
  <2>5. CASE Pre(P[m], P[c])
    <3>1. m = c \/ Pre(P[m], P[n])
      BY <1>1, <2>5, AboveParent
    <3>2. CASE m = c
      BY <1>2, <1>3, <2>1, <3>2
    <3>3. CASE Pre(P[m], P[n])
      BY <1>1, <1>2, <2>1, <3>3 DEF Pre
    <3> QED
      BY <3>1, <3>2, <3>3
  <2> QED
    BY <2>3, <2>4, <2>5
<1>8. (k >= b => b <= h) /\ (k < b => k = h) /\ k \in Nat /\ h \in Nat /\ h <= l
  <2>1. (k >= b => b <= h) /\ (k < b => k = h)
    BY <1>1, <1>2, <1>3, HitOn
  <2>2. k \in Nat /\ h \in Nat /\ h <= l
    BY <1>1, <1>2 DEF HitIs
  <2> QED
    BY <2>1, <2>2
<1>9. PICK x, y : x = Gives(n, a, h, s, l) /\ y = Gives(c, b, h, s, l)
  BY Zenon
<1>10. x = IF n # ROOT /\ s <= a THEN a ELSE Settle(h, s, l)
  BY <1>9, Zenon DEF Gives
<1>11. y = IF s <= b THEN b ELSE Settle(h, s, l)
  BY <1>1, <1>9 DEF Gives
<1>12. x = IF n # ROOT /\ ~(b <= s) THEN a ELSE IF k >= b THEN y ELSE k
  BY <1>3, <1>4, <1>5, <1>6, <1>7, <1>8, <1>10, <1>11 DEF Settle
<1> QED
  BY <1>2, <1>5, <1>9, <1>12

(* What the whole subtree of a slot is assigned.                           *)
LEMMA AssignFacts ==
    ASSUME IInv, NEW L, NEW P, Reads(L, P), NEW c \in L, NEW x
    PROVE  AssignSubtree(c, x) = {<<r, x>> : r \in Under(paths, P[c])}
<1>1. PICK N, D : N = tree.nodes /\ D = DOMAIN tree.nodes
  BY Zenon
<1>2. Links(N, L, P) /\ Content(N, L, P, paths) /\ Arena(tree, L) /\ L \subseteq D
  BY <1>1, ReadsFacts
<1>3. Visited(tree, c, D) = Below(L, P, D, c)
  BY <1>1, <1>2, VisitedFacts
<1>4. Below(L, P, D, c) = {m \in L : Pre(P[c], P[m])}
  BY <1>2 DEF Below
<1>5. PICK T : T = UNION {N[m].terminators : m \in {i \in L : Pre(P[c], P[i])}}
  BY Zenon
<1>6. T = Under(paths, P[c])
  <2>1. /\ \A m \in L : N[m].terminators = {r \in DOMAIN paths : paths[r] = P[m]}
        /\ \A r \in DOMAIN paths : \E m \in L : P[m] = paths[r]
    BY <1>2 DEF Content
  <2> QED
    BY <1>5, <2>1 DEF Under
<1>7. AssignSubtree(c, x) = {<<r, x>> : r \in T}
  BY <1>1, <1>3, <1>4, <1>5, Zenon DEF AssignSubtree
<1> QED
  BY <1>6, <1>7

(* The requests below a slot are those that end there and those below its  *)
(* children K.                                                             *)
SlotParts(L, P, n, K) ==
    /\ Under(paths, P[n]) =
         {r \in DOMAIN paths : paths[r] = P[n]} \cup UNION {Under(paths, P[c]) : c \in K}
    /\ tree.nodes[n].terminators = {r \in DOMAIN paths : paths[r] = P[n]}
    /\ \A c \in K : c \in L \ {ROOT} /\ tree.nodes[c].parent = n

(* The requests below a slot end there or go on through a child.           *)
LEMMA UnderParts ==
    ASSUME NEW L, NEW P, Reads(L, P), NEW n \in L, NEW K, K = Range(tree.nodes[n].children)
    PROVE  SlotParts(L, P, n, K)
<1>1. PICK N : N = tree.nodes
  BY Zenon
<1>2. Links(N, L, P) /\ Content(N, L, P, paths) /\ \A m \in L : P[m] \in Seq(Nat)
  BY <1>1, ReadsFacts
<1>3. \A c \in K : c \in L \ {ROOT} /\ N[c].parent = n
  BY <1>1, <1>2, KidsIn
<1>4. ASSUME NEW r \in Under(paths, P[n]), paths[r] # P[n]
      PROVE  \E c \in K : r \in Under(paths, P[c])
  <2>1. r \in DOMAIN paths /\ Pre(P[n], paths[r])
    BY DEF Under
  <2>2. PICK m \in L : P[m] = paths[r]
    BY <1>2, <2>1 DEF Content
  <2>3. PICK c \in L \ {ROOT} : N[c].parent = n /\ Pre(P[c], P[m])
    BY <1>2, <1>4, <2>1, <2>2, ChildOnWay
  <2>4. c \in K
    BY <1>1, <1>2, <2>3, KidsOf
  <2> QED
    BY <2>1, <2>2, <2>3, <2>4 DEF Under
<1>5. ASSUME NEW c \in K, NEW r \in Under(paths, P[c]) PROVE r \in Under(paths, P[n])
  <2>1. r \in DOMAIN paths /\ Pre(P[c], paths[r])
    BY DEF Under
  <2>2. Pre(P[n], P[c]) /\ P[c] \in Seq(Nat) /\ P[n] \in Seq(Nat)
    BY <1>2, <1>3, UpFacts
  <2>3. PICK m \in L : P[m] = paths[r]
    BY <1>2, <2>1 DEF Content
  <2>4. paths[r] \in Seq(Nat)
    BY <1>2, <2>3
  <2> QED
    BY <2>1, <2>2, <2>4, PreTrans DEF Under
<1>6. \A r \in DOMAIN paths : paths[r] = P[n] => r \in Under(paths, P[n])
  <2>1. Pre(P[n], P[n])
    BY <1>2 DEF Pre
  <2> QED
    BY <2>1 DEF Under
<1>7. Under(paths, P[n]) \subseteq DOMAIN paths
  BY DEF Under
<1>8. Under(paths, P[n]) =
        {r \in DOMAIN paths : paths[r] = P[n]} \cup UNION {Under(paths, P[c]) : c \in K}
  BY <1>4, <1>5, <1>6, <1>7
<1>9. N[n].terminators = {r \in DOMAIN paths : paths[r] = P[n]}
  BY <1>2 DEF Content
<1> QED
  BY <1>1, <1>3, <1>8, <1>9 DEF SlotParts

(* The recursion of the dual walk.                                         *)
HitsBelow(v, cache, least, n, c) ==
    IF SkipChild(n # ROOT, tree.nodes[c].pending_count, least)
    THEN AssignSubtree(c, Len(NodePath(n)))
    ELSE IF CacheMatch(cache, NodePath(c)) >= Len(NodePath(c)) THEN v[c]
         ELSE AssignSubtree(c, CacheMatch(cache, NodePath(c)))

HitsAt(v, cache, least, n) ==
    {<<r, Len(NodePath(n))>> : r \in tree.nodes[n].terminators}
    \cup UNION {HitsBelow(v, cache, least, n, c) : c \in Range(tree.nodes[n].children)}

IsHits(cache, least, v) == v = [n \in DOMAIN tree.nodes |-> HitsAt(v, cache, least, n)]

(* What the walk gives the requests below n; h and S have the hit of every *)
(* request, and the depth to which its way is asked for.                   *)
Given(P, h, S, n) ==
    {<<r, Gives(n, Len(P[n]), h[r], S[r], Len(paths[r]))>> : r \in Under(paths, P[n])}

Asks(L, P, cache, least, h, S) ==
    \A r \in DOMAIN paths : /\ HitIs(cache, paths[r], h[r])
                            /\ AskedTo(tree.nodes, L, P, least, r, S[r])

(* A child's part of the walk.                                             *)
LEMMA HitsBelowFacts ==
    ASSUME IInv, NEW L, NEW P, Reads(L, P), NEW cache \in SUBSET Seq(Nat), NEW least \in Nat,
           NEW h, NEW S, Asks(L, P, cache, least, h, S), NEW n \in L, NEW c \in L \ {ROOT},
           tree.nodes[c].parent = n, NEW v, v[c] = Given(P, h, S, c)
    PROVE  HitsBelow(v, cache, least, n, c) =
             {<<r, Gives(n, Len(P[n]), h[r], S[r], Len(paths[r]))>> : r \in Under(paths, P[c])}
<1>1. PICK N, a, b, k, cnt : /\ N = tree.nodes /\ a = Len(P[n]) /\ b = Len(P[c])
                             /\ k = CacheMatch(cache, P[c]) /\ cnt = tree.nodes[c].pending_count
  BY Zenon
<1>2. Links(N, L, P) /\ P[c] \in Seq(Nat) /\ Content(N, L, P, paths)
  BY <1>1, ReadsFacts
<1>3. NodePath(n) = P[n] /\ NodePath(c) = P[c]
  BY NodePathFacts
<1>4. HitIs(cache, P[c], k)
  BY <1>1, <1>2, HitFacts
<1>5. cnt \in Nat
  <2>1. cnt = Cardinality(Under(paths, P[c])) /\ IsFiniteSet(Under(paths, P[c]))
    BY <1>1, <1>2, PendingFacts DEF Content
  <2> QED
    BY <2>1, FS_CardinalityType
<1>6. SkipChild(n # ROOT, cnt, least) <=> n # ROOT /\ ~(cnt >= least)
  BY <1>5 DEF SkipChild
<1>7. PICK G, H : /\ G = [r \in Under(paths, P[c]) |-> Gives(n, a, h[r], S[r], Len(paths[r]))]
                  /\ H = [r \in Under(paths, P[c]) |-> Gives(c, b, h[r], S[r], Len(paths[r]))]
  BY Zenon
<1>8. ASSUME NEW r \in Under(paths, P[c])
      PROVE  G[r] = IF n # ROOT /\ ~(cnt >= least) THEN a ELSE IF k >= b THEN H[r] ELSE k
  <2>1. r \in DOMAIN paths /\ Pre(P[c], paths[r]) /\ paths[r] \in Seq(Nat)
    BY PendingFacts DEF Under
  <2>2. HitIs(cache, paths[r], h[r]) /\ AskedTo(N, L, P, least, r, S[r])
    BY <1>1, <2>1 DEF Asks
  <2>3. PICK hr, sr : hr = h[r] /\ sr = S[r]
    BY Zenon
  <2>4. Gives(n, Len(P[n]), hr, sr, Len(paths[r])) =
             IF n # ROOT /\ ~(N[c].pending_count >= least) THEN Len(P[n])
             ELSE IF k >= Len(P[c]) THEN Gives(c, Len(P[c]), hr, sr, Len(paths[r])) ELSE k
    <3>1. HitIs(cache, paths[r], hr) /\ AskedTo(N, L, P, least, r, sr)
      BY <2>2, <2>3
    <3>2. n \in L /\ c \in L \ {ROOT} /\ N[c].parent = n
      BY <1>1
    <3>3. IsTurn(N, L, P, n, c, r, least, sr, cache, hr, k)
      BY <1>2, <1>4, <2>1, <3>1, <3>2 DEF IsTurn
    <3> QED
      BY <3>3, GivesTurn
  <2>5. G[r] = Gives(n, a, hr, sr, Len(paths[r])) /\ H[r] = Gives(c, b, hr, sr, Len(paths[r]))
    BY <1>7, <2>3
  <2> QED
    BY <1>1, <2>4, <2>5, Zenon
<1>9. Given(P, h, S, c) = {<<r, H[r]>> : r \in Under(paths, P[c])}
  BY <1>1, <1>7 DEF Given
<1>10. \A x : AssignSubtree(c, x) = {<<r, x>> : r \in Under(paths, P[c])}
  BY AssignFacts
<1>11. PICK B : B = HitsBelow(v, cache, least, n, c)
  BY Zenon
<1>12. B = IF n # ROOT /\ ~(cnt >= least) THEN AssignSubtree(c, a)
           ELSE IF k >= b THEN v[c] ELSE AssignSubtree(c, k)
  BY <1>1, <1>3, <1>6, <1>11, Zenon DEF HitsBelow
<1>13. B = {<<r, G[r]>> : r \in Under(paths, P[c])}
  <2>1. CASE n # ROOT /\ ~(cnt >= least)
    <3>1. B = {<<r, a>> : r \in Under(paths, P[c])} /\ \A r \in Under(paths, P[c]) : G[r] = a
      BY <1>8, <1>10, <1>12, <2>1
    <3> QED
      BY <3>1
  <2>2. CASE ~(n # ROOT /\ ~(cnt >= least)) /\ k >= b
    <3>1. B = {<<r, H[r]>> : r \in Under(paths, P[c])} /\ \A r \in Under(paths, P[c]) : G[r] = H[r]
      BY <1>8, <1>9, <1>12, <2>2
    <3> QED
      BY <3>1
  <2>3. CASE ~(n # ROOT /\ ~(cnt >= least)) /\ ~(k >= b)
    <3>1. B = {<<r, k>> : r \in Under(paths, P[c])} /\ \A r \in Under(paths, P[c]) : G[r] = k
      BY <1>8, <1>10, <1>12, <2>3
    <3> QED
      BY <3>1
  <2> QED
    BY <2>1, <2>2, <2>3
<1>14. {<<r, G[r]>> : r \in Under(paths, P[c])} =
         {<<r, Gives(n, a, h[r], S[r], Len(paths[r]))>> : r \in Under(paths, P[c])}
  BY <1>7
<1> QED
  BY <1>1, <1>11, <1>13, <1>14

(* What the walk gives below a slot, from what it gives below its          *)
(* children.                                                               *)
LEMMA HitsTurn ==
    ASSUME IInv, NEW L, NEW P, Reads(L, P), NEW cache \in SUBSET Seq(Nat), NEW least \in Nat,
           NEW h, NEW S, Asks(L, P, cache, least, h, S), NEW n \in L, NEW v,
           \A c \in L \ {ROOT} : tree.nodes[c].parent = n => v[c] = Given(P, h, S, c)
    PROVE  HitsAt(v, cache, least, n) = Given(P, h, S, n)
<1>1. PICK N, K, a : N = tree.nodes /\ K = Range(tree.nodes[n].children) /\ a = Len(P[n])
  BY Zenon
<1>2. Links(N, L, P) /\ P[ROOT] = <<>>
  BY <1>1, ReadsFacts DEF Links
<1>3. /\ Under(paths, P[n]) =
           {r \in DOMAIN paths : paths[r] = P[n]} \cup UNION {Under(paths, P[c]) : c \in K}
      /\ N[n].terminators = {r \in DOMAIN paths : paths[r] = P[n]}
      /\ \A c \in K : c \in L \ {ROOT} /\ N[c].parent = n
  <2>1. SlotParts(L, P, n, K)
    BY <1>1, UnderParts
  <2> QED
    BY <1>1, <2>1 DEF SlotParts
<1>4. PICK G : G = [r \in Under(paths, P[n]) |-> Gives(n, a, h[r], S[r], Len(paths[r]))]
  BY Zenon
<1>5. PICK T : T = {r \in DOMAIN paths : paths[r] = P[n]}
  BY Zenon
<1>6. ASSUME NEW r \in T PROVE G[r] = a
  <2>1. r \in DOMAIN paths /\ r \in Under(paths, P[n]) /\ paths[r] = P[n]
    BY <1>3, <1>5
  <2>2. HitIs(cache, paths[r], h[r]) /\ AskedTo(N, L, P, least, r, S[r])
    BY <1>1, <2>1 DEF Asks
  <2>3. PICK hr, sr, l : hr = h[r] /\ sr = S[r] /\ l = Len(paths[r])
    BY Zenon
  <2>4. hr \in Nat /\ hr <= l /\ sr \in Nat /\ sr <= l /\ l = a
    BY <1>1, <2>1, <2>2, <2>3 DEF HitIs, AskedTo
  <2>5. n = ROOT => a = 0
    BY <1>1, <1>2
  <2>6. G[r] = Gives(n, a, hr, sr, l)
    BY <1>4, <2>1, <2>3
  <2>7. CASE n # ROOT
    BY <2>4, <2>6, <2>7 DEF Gives
  <2>8. CASE n = ROOT
    <3>1. a = 0 /\ hr = 0 /\ sr = 0 /\ l = 0
      BY <2>4, <2>5, <2>8
    <3> QED
      BY <2>6, <2>8, <3>1 DEF Gives, Settle
  <2> QED
    BY <2>7, <2>8
<1>7. ASSUME NEW c \in K
      PROVE  HitsBelow(v, cache, least, n, c) = {<<r, G[r]>> : r \in Under(paths, P[c])}
  <2>1. c \in L \ {ROOT} /\ tree.nodes[c].parent = n /\ v[c] = Given(P, h, S, c)
    BY <1>1, <1>3
  <2>2. HitsBelow(v, cache, least, n, c) =
             {<<r, Gives(n, Len(P[n]), h[r], S[r], Len(paths[r]))>> : r \in Under(paths, P[c])}
    BY <2>1, HitsBelowFacts
  <2>3. Under(paths, P[c]) \subseteq Under(paths, P[n])
    BY <1>3
  <2>4. \A r \in Under(paths, P[c]) : G[r] = Gives(n, Len(P[n]), h[r], S[r], Len(paths[r]))
    BY <1>1, <1>4, <2>3
  <2> QED
    BY <2>2, <2>4
<1>8. NodePath(n) = P[n]
  BY NodePathFacts
<1>9. HitsAt(v, cache, least, n) =
        {<<r, a>> : r \in T} \cup UNION {HitsBelow(v, cache, least, n, c) : c \in K}
  BY <1>1, <1>3, <1>5, <1>8 DEF HitsAt
<1>10. {<<r, a>> : r \in T} = {<<r, G[r]>> : r \in T}
  BY <1>6
<1>11. {HitsBelow(v, cache, least, n, c) : c \in K} = {{<<r, G[r]>> : r \in Under(paths, P[c])} : c \in K}
  BY <1>7
<1>12. {<<r, G[r]>> : r \in Under(paths, P[n])} =
         {<<r, G[r]>> : r \in T} \cup UNION {{<<r, G[r]>> : r \in Under(paths, P[c])} : c \in K}
  <2>1. PICK U, Q : U = Under(paths, P[n]) /\ Q = [c \in K |-> Under(paths, P[c])]
    BY Zenon
  <2>2. U = T \cup UNION {Q[c] : c \in K}
    <3>1. {Q[c] : c \in K} = {Under(paths, P[c]) : c \in K}
      BY <2>1
    <3> QED
      BY <1>3, <1>5, <2>1, <3>1
  <2>3. {<<r, G[r]>> : r \in U} = {<<r, G[r]>> : r \in T} \cup UNION {{<<r, G[r]>> : r \in Q[c]} : c \in K}
    BY <2>2
  <2>4. {{<<r, G[r]>> : r \in Q[c]} : c \in K} = {{<<r, G[r]>> : r \in Under(paths, P[c])} : c \in K}
    BY <2>1
  <2> QED
    BY <2>1, <2>3, <2>4
<1>13. Given(P, h, S, n) = {<<r, G[r]>> : r \in Under(paths, P[n])}
  BY <1>1, <1>4 DEF Given
<1> QED
  BY <1>9, <1>10, <1>11, <1>12, <1>13

(* dualwalk (pending.rs 481-536): every request gets the part of its own   *)
(* hit that the walk asks for.                                             *)
LEMMA MainHitsFacts ==
    ASSUME IInv, NEW L, NEW P, Reads(L, P), NEW cache \in SUBSET Seq(Nat), NEW least \in Nat,
           NEW h, NEW S, Asks(L, P, cache, least, h, S)
    PROVE  MainHits(cache, least) = {<<r, Settle(h[r], S[r], Len(paths[r]))>> : r \in DOMAIN paths}
<1>1. PICK N, D : N = tree.nodes /\ D = DOMAIN tree.nodes
  BY Zenon
<1>2. /\ Links(N, L, P) /\ Arena(tree, L) /\ IsFiniteSet(L) /\ L \subseteq D /\ ROOT \in L
      /\ P[ROOT] = <<>>
  BY <1>1, ReadsFacts DEF Links
<1>3. \E v : IsHits(cache, least, v)
  <2>1. PICK v : v = [m \in D |-> IF m \in L THEN Given(P, h, S, m) ELSE {}]
    BY Zenon
  <2>2. ASSUME NEW m \in D PROVE v[m] = HitsAt(v, cache, least, m)
    <3>1. CASE m \in L
      <4>1. \A c \in L \ {ROOT} : v[c] = Given(P, h, S, c)
        BY <1>2, <2>1
      <4>2. HitsAt(v, cache, least, m) = Given(P, h, S, m)
        BY <3>1, <4>1, HitsTurn
      <4> QED
        BY <1>2, <2>1, <3>1, <4>2
    <3>2. CASE m \notin L
      <4>1. tree.nodes[m] = Unused
        BY <1>1, <1>2, <3>2 DEF Arena
      <4>2. Range(tree.nodes[m].children) = {} /\ tree.nodes[m].terminators = {}
        BY <4>1 DEF Unused, NewNode, Range
      <4>3. HitsAt(v, cache, least, m) = {}
        BY <4>2 DEF HitsAt
      <4> QED
        BY <2>1, <3>2, <4>3
    <3> QED
      BY <3>1, <3>2
  <2>3. v = [m \in D |-> v[m]]
    BY <2>1
  <2>4. IsHits(cache, least, v)
    BY <1>1, <2>2, <2>3 DEF IsHits
  <2> QED
    BY <2>4
<1>4. PICK v : v = CHOOSE w : IsHits(cache, least, w)
  BY Zenon
<1>5. IsHits(cache, least, v)
  BY <1>3, <1>4, Zenon
<1>6. MainHits(cache, least) = v[ROOT]
  BY <1>4, Zenon DEF MainHits, IsHits, HitsAt, HitsBelow
<1> DEFINE G == {m \in L : v[m] = Given(P, h, S, m)}
<1>7. ASSUME NEW m \in L, \A c \in L \ {ROOT} : N[c].parent = m => c \in G
      PROVE  m \in G
  <2>1. \A c \in L \ {ROOT} : tree.nodes[c].parent = m => v[c] = Given(P, h, S, c)
    BY <1>1, <1>7
  <2> HIDE DEF G
  <2>2. HitsAt(v, cache, least, m) = Given(P, h, S, m)
    BY <2>1, HitsTurn
  <2>3. v[m] = HitsAt(v, cache, least, m)
    BY <1>1, <1>2, <1>5 DEF IsHits
  <2> QED
    BY <2>2, <2>3 DEF G
<1> HIDE DEF G
<1>8. ROOT \in G
  BY <1>2, <1>7, FromLeaves
<1>9. v[ROOT] = Given(P, h, S, ROOT)
  BY <1>8 DEF G
<1>10. Under(paths, P[ROOT]) = DOMAIN paths
  <2>1. \A r \in DOMAIN paths : Pre(<<>>, paths[r])
    BY PendingFacts DEF Pre
  <2> QED
    BY <1>2, <2>1 DEF Under
<1>11. Given(P, h, S, ROOT) = {<<r, Settle(h[r], S[r], Len(paths[r]))>> : r \in DOMAIN paths}
  BY <1>10 DEF Given, Gives
<1> QED
  BY <1>6, <1>9, <1>11

(* The invariant implies what the two thresholds promise.                  *)
LEMMA InvDualWalk == ASSUME IInv PROVE DualWalkExact
<1>1. PICK L, P : Reads(L, P)
  BY DEF IInv, Keeps, Reads
<1>2. \A r \in DOMAIN paths : paths[r] \in Seq(Nat) /\ Len(paths[r]) \in Nat
  BY PendingFacts
<1>3. ASSUME NEW cache \in Caches
      PROVE  MainHits(cache, 1) = {<<r, CacheMatch(cache, paths[r])>> : r \in DOMAIN paths}
  <2>1. cache \in SUBSET Seq(Nat)
    BY CachesAssumption
  <2>2. PICK h, S : /\ h = [r \in DOMAIN paths |-> CacheMatch(cache, paths[r])]
                    /\ S = [r \in DOMAIN paths |-> Len(paths[r])]
    BY Zenon
  <2>3. ASSUME NEW r \in DOMAIN paths
        PROVE  HitIs(cache, paths[r], h[r]) /\ AskedTo(tree.nodes, L, P, 1, r, S[r])
    BY <1>1, <1>2, <2>1, <2>2, HitFacts, AskedAll
  <2>4. Asks(L, P, cache, 1, h, S)
    BY <2>3 DEF Asks
  <2>5. MainHits(cache, 1) = {<<r, Settle(h[r], S[r], Len(paths[r]))>> : r \in DOMAIN paths}
    BY <1>1, <2>1, <2>4, MainHitsFacts
  <2>6. ASSUME NEW r \in DOMAIN paths PROVE Settle(h[r], S[r], Len(paths[r])) = CacheMatch(cache, paths[r])
    <3>1. PICK k, l : k = h[r] /\ l = Len(paths[r])
      BY Zenon
    <3>2. k \in Nat /\ k <= l /\ l \in Nat
      BY <1>2, <2>3, <3>1 DEF HitIs
    <3>3. Settle(k, l, l) = k
      BY <3>2 DEF Settle
    <3> QED
      BY <2>2, <3>1, <3>3
  <2> QED
    BY <2>5, <2>6
<1>4. ASSUME NEW cache \in Caches
      PROVE  MainHits(cache, 2) =
               {<<r, Min({CacheMatch(cache, paths[r]),
                          IF SharedWithOther(r) = 0 THEN Len(paths[r]) ELSE SharedWithOther(r)})>>
                  : r \in DOMAIN paths}
  <2>1. cache \in SUBSET Seq(Nat)
    BY CachesAssumption
  <2>2. PICK h, S : /\ h = [r \in DOMAIN paths |-> CacheMatch(cache, paths[r])]
                    /\ S = [r \in DOMAIN paths |-> SharedWithOther(r)]
    BY Zenon
  <2>3. ASSUME NEW r \in DOMAIN paths
        PROVE  HitIs(cache, paths[r], h[r]) /\ AskedTo(tree.nodes, L, P, 2, r, S[r])
    BY <1>1, <1>2, <2>1, <2>2, HitFacts, AskedShared
  <2>4. Asks(L, P, cache, 2, h, S)
    BY <2>3 DEF Asks
  <2>5. MainHits(cache, 2) = {<<r, Settle(h[r], S[r], Len(paths[r]))>> : r \in DOMAIN paths}
    BY <1>1, <2>1, <2>4, MainHitsFacts
  <2>6. ASSUME NEW r \in DOMAIN paths
        PROVE  Settle(h[r], S[r], Len(paths[r])) =
                 Min({CacheMatch(cache, paths[r]),
                      IF SharedWithOther(r) = 0 THEN Len(paths[r]) ELSE SharedWithOther(r)})
    <3>1. PICK k, s, l : k = h[r] /\ s = S[r] /\ l = Len(paths[r])
      BY Zenon
    <3>2. k \in Nat /\ s \in Nat /\ l \in Nat
      BY <1>2, <2>3, <3>1 DEF HitIs, AskedTo
    <3>3. PICK m : m = IF s = 0 THEN l ELSE s
      BY Zenon
    <3>4. m \in Nat
      BY <3>2, <3>3
    <3>5. Min({k, m}) = IF k <= m THEN k ELSE m
      BY <3>2, <3>4, MinOfTwo
    <3>6. Settle(k, s, l) = Min({k, m})
      BY <3>3, <3>5, Zenon DEF Settle
    <3> QED
      BY <2>2, <3>1, <3>3, <3>6
  <2> QED
    BY <2>5, <2>6
<1> QED
  BY <1>3, <1>4 DEF DualWalkExact, MainHitsExact, MainHitsCutTails

(* The dual walk over the pending tree and the cache gives every request   *)
(* what a query of its own would (threshold 1), or that up to its shared   *)
(* prefix (threshold 2), with one query per edge instead of one per        *)
(* request.                                                                *)
THEOREM TreeDualWalkExact == Spec => []DualWalkExact
<1>1. IInv => DualWalkExact
  BY InvDualWalk
<1> QED
  BY <1>1, PendingInvariant, PTL

-----------------------------------------------------------------------------
(* The counters at ROOT, clusters and scores.                              *)

(* A request below a child of ROOT shares tokens with another one just if  *)
(* two requests pass the child.                                            *)
LEMMA SharesBelow ==
    ASSUME IInv, NEW L, NEW P, Reads(L, P), NEW c \in L \ {ROOT}, tree.nodes[c].parent = ROOT,
           NEW r \in DOMAIN paths, Pre(P[c], paths[r])
    PROVE  SharedWithOther(r) > 0 <=> tree.nodes[c].pending_count >= 2
<1>1. PICK N, s : N = tree.nodes /\ s = SharedWithOther(r)
  BY Zenon
<1>2. Links(N, L, P) /\ P[ROOT] = <<>> /\ paths[r] \in Seq(Nat)
  BY <1>1, ReadsFacts, PendingFacts DEF Links
<1>3. AskedTo(N, L, P, 2, r, s)
  BY <1>1, AskedShared
<1>4. s \in Nat /\ (N[c].pending_count >= 2 <=> Len(P[c]) <= s)
  BY <1>3 DEF AskedTo
<1>5. P[c] \in Seq(Nat) /\ Len(P[c]) \in Nat /\ Len(P[c]) > 0
  BY <1>2, PathFacts
<1>6. ASSUME s > 0 PROVE Len(P[c]) <= s
  <2>1. PICK m \in L : Pre(P[m], paths[r]) /\ Len(P[m]) = s
    BY <1>3, <1>4, <1>6 DEF AskedTo
  <2>2. P[m] \in Seq(Nat) /\ P[m] # <<>>
    BY <1>2, <1>6, <2>1, PathFacts
  <2>3. Pre(P[m], P[c]) \/ Pre(P[c], P[m])
    BY <1>2, <1>5, <2>1, <2>2, PreEither
  <2>4. CASE Pre(P[c], P[m])
    BY <2>1, <2>4 DEF Pre
  <2>5. CASE Pre(P[m], P[c])
    <3>1. m = c \/ Pre(P[m], P[ROOT])
      BY <1>1, <1>2, <2>5, AboveParent
    <3>2. ~Pre(P[m], P[ROOT])
      <4>1. Len(P[ROOT]) = 0
        BY <1>2
      <4>2. ~(Len(P[m]) <= Len(P[ROOT]))
        BY <1>4, <1>6, <2>1, <4>1
      <4> QED
        BY <4>2, Zenon DEF Pre
    <3> QED
      BY <1>4, <2>1, <3>1, <3>2
  <2> QED
    BY <2>3, <2>4, <2>5
<1> QED
  BY <1>1, <1>4, <1>5, <1>6

(* The requests by the child of ROOT they are below of, K the children's    *)
(* first tokens and A[k] the group of k.                                   *)
Groups(K, A) ==
    /\ IsFiniteSet(K) /\ DOMAIN RootCounts(tree) = K
    /\ \A k \in K : IsFiniteSet(A[k]) /\ RootCounts(tree)[k] = Cardinality(A[k])
    /\ \A j, k \in K : j # k => A[j] \cap A[k] = {}
    /\ DOMAIN paths = tree.nodes[ROOT].terminators \cup UNION {A[k] : k \in K}
    /\ \A k \in K : A[k] \cap tree.nodes[ROOT].terminators = {}
    /\ \A r \in tree.nodes[ROOT].terminators : r \in DOMAIN paths /\ SharedWithOther(r) = 0
    /\ \A k \in K : \A r \in A[k] : SharedWithOther(r) > 0 <=> RootCounts(tree)[k] >= 2

(* The counts below ROOT are the sizes of the groups of requests with the  *)
(* same first token.                                                       *)
LEMMA RootGroups ==
    ASSUME IInv, NEW L, NEW P, Reads(L, P), NEW A, NEW K, K = DOMAIN tree.nodes[ROOT].children,
           A = [k \in K |-> Under(paths, P[tree.nodes[ROOT].children[k]])]
    PROVE  Groups(K, A)
<1>1. PICK N, ch : N = tree.nodes /\ ch = tree.nodes[ROOT].children
  BY Zenon
<1>2. /\ Links(N, L, P) /\ Content(N, L, P, paths) /\ ROOT \in L /\ P[ROOT] = <<>>
      /\ IsFiniteSet(L)
  BY <1>1, ReadsFacts DEF Links
<1>3. DownLinks(N, L, ROOT)
  BY <1>2 DEF Links
<1>4. \A k \in K : ch[k] \in L \ {ROOT} /\ N[ch[k]].parent = ROOT /\ N[ch[k]].edge[1] = k
  BY <1>1, <1>3 DEF DownLinks
<1>5. IsFiniteSet(K)
  <2>1. PICK g : g = [k \in K |-> ch[k]]
    BY Zenon
  <2>2. g \in Injection(K, L)
    BY <1>1, <1>4, <2>1 DEF Injection, IsInjective
  <2> QED
    BY <1>2, <2>2, FS_Injection
<1>6. RootCounts(tree) = [k \in K |-> N[ch[k]].pending_count]
  BY <1>1 DEF RootCounts
<1>7. ASSUME NEW k \in K PROVE IsFiniteSet(A[k]) /\ RootCounts(tree)[k] = Cardinality(A[k])
  BY <1>1, <1>2, <1>4, <1>6, PendingFacts DEF Content
<1>8. ASSUME NEW j \in K, NEW k \in K, j # k PROVE A[j] \cap A[k] = {}
  <2> SUFFICES ASSUME NEW r \in A[j], r \in A[k] PROVE FALSE
    OBVIOUS
  <2>1. r \in DOMAIN paths /\ Pre(P[ch[j]], paths[r]) /\ Pre(P[ch[k]], paths[r])
    BY <1>1 DEF Under
  <2>2. ch[j] # ch[k] /\ N[ch[j]].parent = N[ch[k]].parent
    BY <1>4, <1>8
  <2>3. paths[r] \in Seq(Nat)
    BY <2>1, PendingFacts
  <2>4. ch[j] \in L \ {ROOT} /\ ch[k] \in L \ {ROOT}
    BY <1>4
  <2> QED
    BY <1>2, <2>1, <2>2, <2>3, <2>4, KidsApart
<1>9. PICK R : R = Range(ch)
  BY Zenon
<1>10. /\ Under(paths, P[ROOT]) =
            {r \in DOMAIN paths : paths[r] = P[ROOT]} \cup UNION {Under(paths, P[c]) : c \in R}
       /\ N[ROOT].terminators = {r \in DOMAIN paths : paths[r] = P[ROOT]}
  <2>1. SlotParts(L, P, ROOT, R)
    BY <1>1, <1>2, <1>9, UnderParts
  <2> QED
    BY <1>1, <2>1 DEF SlotParts
<1>11. Under(paths, P[ROOT]) = DOMAIN paths
  <2>1. \A r \in DOMAIN paths : Pre(<<>>, paths[r])
    BY PendingFacts DEF Pre
  <2> QED
    BY <1>2, <2>1 DEF Under
<1>12. {Under(paths, P[c]) : c \in R} = {A[k] : k \in K}
  BY <1>1, <1>9 DEF Range
<1>13. DOMAIN paths = N[ROOT].terminators \cup UNION {A[k] : k \in K}
  BY <1>10, <1>11, <1>12
<1>14. ASSUME NEW k \in K, NEW r \in A[k]
       PROVE  /\ r \notin N[ROOT].terminators
              /\ SharedWithOther(r) > 0 <=> RootCounts(tree)[k] >= 2
  <2>1. PICK c : c = ch[k]
    BY Zenon
  <2>2. c \in L \ {ROOT} /\ N[c].parent = ROOT /\ r \in DOMAIN paths /\ Pre(P[c], paths[r])
    BY <1>1, <1>4, <2>1 DEF Under
  <2>3. Len(P[c]) \in Nat /\ Len(P[c]) > 0
    BY <1>2, <2>2, PathFacts
  <2>4. paths[r] # P[ROOT]
    BY <1>2, <2>2, <2>3 DEF Pre
  <2>5. SharedWithOther(r) > 0 <=> N[c].pending_count >= 2
    BY <1>1, <2>2, SharesBelow
  <2>6. RootCounts(tree)[k] = N[c].pending_count
    BY <1>6, <2>1
  <2> QED
    BY <1>10, <2>4, <2>5, <2>6
<1>15. ASSUME NEW r \in N[ROOT].terminators PROVE r \in DOMAIN paths /\ SharedWithOther(r) = 0
  <2>1. r \in DOMAIN paths /\ paths[r] = <<>>
    BY <1>2, <1>10
  <2>2. AskedTo(N, L, P, 2, r, SharedWithOther(r))
    BY <1>1, <2>1, AskedShared
  <2>3. PICK s : s = SharedWithOther(r)
    BY Zenon
  <2>4. s \in Nat /\ s <= 0
    BY <2>1, <2>2, <2>3 DEF AskedTo
  <2>5. s = 0
    BY <2>4
  <2> QED
    BY <2>1, <2>3, <2>5
<1>16. DOMAIN RootCounts(tree) = K
  BY <1>6
<1> QED
  BY <1>1, <1>5, <1>7, <1>8, <1>13, <1>14, <1>15, <1>16, Zenon DEF Groups

(* The invariant implies that the counters at ROOT (tree.rs 386-429)       *)
(* partition the requests.                                                 *)
LEMMA InvCounters == ASSUME IInv PROVE CountersPartition
<1>1. PICK L, P : Reads(L, P)
  BY DEF IInv, Keeps, Reads
<1>2. PICK K : K = DOMAIN tree.nodes[ROOT].children
  BY Zenon
<1>3. PICK A : A = [k \in K |-> Under(paths, P[tree.nodes[ROOT].children[k]])]
  BY Zenon
<1>4. PICK c, T : c = RootCounts(tree) /\ T = tree.nodes[ROOT].terminators
  BY Zenon
<1>5. /\ IsFiniteSet(K) /\ DOMAIN c = K
      /\ \A k \in K : IsFiniteSet(A[k]) /\ c[k] = Cardinality(A[k])
      /\ \A j, k \in K : j # k => A[j] \cap A[k] = {}
      /\ DOMAIN paths = T \cup UNION {A[k] : k \in K}
      /\ \A k \in K : A[k] \cap T = {}
      /\ \A r \in T : r \in DOMAIN paths /\ SharedWithOther(r) = 0
      /\ \A k \in K : \A r \in A[k] : SharedWithOther(r) > 0 <=> c[k] >= 2
  <2>1. Groups(K, A)
    BY <1>1, <1>2, <1>3, RootGroups
  <2> QED
    BY <1>4, <2>1, Zenon DEF Groups
<1>6. PICK sharing : sharing = {r \in DOMAIN paths : SharedWithOther(r) > 0}
  BY Zenon
<1>7. ASSUME NEW J \in SUBSET K
      PROVE  /\ IsFiniteSet(UNION {A[k] : k \in J})
             /\ Cardinality(UNION {A[k] : k \in J}) = SumFunctionOnSet(c, J)
  <2>1. IsFiniteSet(J)
    BY <1>5, FS_Subset
  <2>2. /\ \A k \in J : IsFiniteSet(A[k]) /\ c[k] = Cardinality(A[k])
        /\ \A j, k \in J : j # k => A[j] \cap A[k] = {}
    BY <1>5
  <2> QED
    BY <2>1, <2>2, SumSizes
<1>8. PICK H, E : H = {k \in K : c[k] >= 2} /\ E = {k \in K : c[k] < 2}
  BY Zenon
<1>9. \A k \in K : c[k] \in Nat /\ (c[k] >= 2 <=> ~(c[k] < 2))
  <2> TAKE k \in K
  <2>1. c[k] \in Nat
    BY <1>5, FS_CardinalityType
  <2> QED
    BY <2>1
<1>10. \A r \in T : ~(SharedWithOther(r) > 0)
  BY <1>5
<1>11. sharing = UNION {A[k] : k \in H}
  <2>1. ASSUME NEW r \in sharing PROVE \E k \in H : r \in A[k]
    <3>1. r \notin T
      BY <1>6, <1>10
    <3>2. PICK k \in K : r \in A[k]
      BY <1>5, <1>6, <3>1
    <3>3. c[k] >= 2
      BY <1>5, <1>6, <3>2
    <3> QED
      BY <1>8, <3>2, <3>3
  <2>2. ASSUME NEW k \in H, NEW r \in A[k] PROVE r \in sharing
    <3>1. k \in K /\ c[k] >= 2
      BY <1>8
    <3>2. SharedWithOther(r) > 0 /\ r \in DOMAIN paths
      BY <1>5, <3>1
    <3> QED
      BY <1>6, <3>2
  <2> QED
    BY <2>1, <2>2
<1>12. DOMAIN paths \ sharing = T \cup UNION {A[k] : k \in E}
  <2>1. ASSUME NEW r \in DOMAIN paths \ sharing, r \notin T PROVE \E k \in E : r \in A[k]
    <3>1. PICK k \in K : r \in A[k]
      BY <1>5, <2>1
    <3>2. ~(c[k] >= 2)
      BY <1>5, <1>6, <3>1
    <3> QED
      BY <1>8, <1>9, <3>1, <3>2
  <2>2. ASSUME NEW k \in E, NEW r \in A[k] PROVE r \in DOMAIN paths \ sharing
    <3>1. k \in K /\ c[k] < 2
      BY <1>8
    <3>2. ~(SharedWithOther(r) > 0) /\ r \in DOMAIN paths
      BY <1>5, <1>9, <3>1
    <3> QED
      BY <1>6, <3>2
  <2>3. \A r \in T : r \in DOMAIN paths \ sharing
    BY <1>5, <1>6, <1>10
  <2> QED
    BY <2>1, <2>2, <2>3
<1>13. SharedRidCount(tree) = Cardinality(sharing)
  <2>1. H \in SUBSET K /\ {k \in DOMAIN c : c[k] >= 2} = H
    BY <1>5, <1>8
  <2>2. Cardinality(UNION {A[k] : k \in H}) = SumFunctionOnSet(c, H)
    BY <1>7, <2>1
  <2>3. SharedRidCount(tree) = SumFunctionOnSet(c, H)
    BY <1>4, <2>1, Zenon DEF SharedRidCount
  <2> QED
    BY <1>11, <2>2, <2>3
<1>14. SingletonRidCount(tree) = Cardinality(DOMAIN paths \ sharing)
  <2>1. E \in SUBSET K /\ {k \in DOMAIN c : c[k] < 2} = E
    BY <1>5, <1>8
  <2>2. PICK U : U = UNION {A[k] : k \in E}
    BY Zenon
  <2>3. IsFiniteSet(U) /\ Cardinality(U) = SumFunctionOnSet(c, E)
    BY <1>7, <2>1, <2>2
  <2>4. SingletonRidCount(tree) = Cardinality(T) + SumFunctionOnSet(c, E)
    BY <1>4, <2>1, Zenon DEF SingletonRidCount
  <2>5. T \cap U = {}
    BY <1>5, <2>1, <2>2
  <2>6. IsFiniteSet(T)
    <3>1. T \subseteq DOMAIN paths
      BY <1>5
    <3> QED
      BY <3>1, PendingFacts, FS_Subset
  <2>7. Cardinality(T \cup U) = Cardinality(T) + Cardinality(U) - Cardinality(T \cap U)
    BY <2>3, <2>6, FS_Union
  <2>8. Cardinality(T \cap U) = 0
    BY <2>5, FS_EmptySet
  <2>9. Cardinality(T) \in Nat /\ Cardinality(U) \in Nat
    BY <2>3, <2>6, FS_CardinalityType
  <2>10. Cardinality(T \cup U) = Cardinality(T) + Cardinality(U)
    BY <2>7, <2>8, <2>9
  <2> QED
    BY <1>12, <2>2, <2>3, <2>4, <2>10
<1>15. HasSharing(tree) <=> sharing # {}
  <2>1. HasSharing(tree) <=> H # {}
    BY <1>4, <1>5, <1>8 DEF HasSharing
  <2>2. ASSUME NEW k \in H PROVE A[k] # {}
    <3>1. k \in K /\ c[k] >= 2 /\ IsFiniteSet(A[k]) /\ c[k] = Cardinality(A[k])
      BY <1>5, <1>8
    <3>2. A[k] = {} => Cardinality(A[k]) = 0
      BY FS_EmptySet
    <3> QED
      BY <3>1, <3>2
  <2>3. sharing # {} <=> H # {}
    BY <1>11, <2>2
  <2> QED
    BY <2>1, <2>3
<1> QED
  BY <1>6, <1>13, <1>14, <1>15 DEF CountersPartition

(* A climb of k turns from the slot n.                                     *)
IsClimb(N, L, P, n, up, k) ==
    /\ k \in Nat /\ DOMAIN up = 0..k /\ up[0] = n
    /\ \A i \in 0..k : up[i] \in L /\ Pre(P[up[i]], P[n])
    /\ \A i \in 1..k : Len(P[up[i]]) + Len(N[up[i - 1]].edge) = Len(P[up[i - 1]])
    /\ \A m \in L \ {ROOT} : Pre(P[m], P[n]) => \E i \in 0..k : up[i] = m

(* A turn gives up the length of an edge.                                  *)
LEMMA ClimbFacts ==
    ASSUME NEW t, NEW L, NEW P, Links(t.nodes, L, P), IsFiniteSet(DOMAIN t.nodes), NEW n \in L
    PROVE  IsClimb(t.nodes, L, P, n, Climb(t, n), Cardinality(DOMAIN t.nodes))
<1>1. PICK N, k, up : N = t.nodes /\ k = Cardinality(DOMAIN t.nodes) /\ up = Climb(t, n)
  OBVIOUS
<1>2. k \in Nat /\ Links(N, L, P)
  BY <1>1, FS_CardinalityType
<1>3. DOMAIN up = 0..k /\ up[0] = n /\ \A i \in 1..k : up[i] = N[up[i - 1]].parent
  BY <1>1, <1>2, ClimbTurns
<1>4. PICK A : A = {m \in L : Pre(P[m], P[n])}
  BY Zenon
<1>5. Range(up) \ {ROOT} = A \ {ROOT}
  <2>1. Range(up) \ {ROOT} = {m \in L \ {ROOT} : Pre(P[m], P[n])}
    BY <1>1, PathToRootFacts DEF PathToRoot
  <2> QED
    BY <1>4, <2>1
<1>6. ROOT \in A
  <2>1. ROOT \in L /\ P[ROOT] = <<>> /\ P[n] \in Seq(Nat)
    BY <1>2 DEF Links
  <2> QED
    BY <1>4, <2>1 DEF Pre
<1>7. \A i \in 0..k : up[i] \in A
  <2>1. \A i \in 0..k : up[i] \in Range(up)
    BY <1>3 DEF Range
  <2> QED
    BY <1>5, <1>6, <2>1
<1>8. ASSUME NEW m \in A \ {ROOT} PROVE \E i \in 0..k : up[i] = m
  BY <1>3, <1>5, <1>8 DEF Range
<1>9. ASSUME NEW i \in 1..k PROVE Len(P[up[i]]) + Len(N[up[i - 1]].edge) = Len(P[up[i - 1]])
  <2>1. PICK m : m = up[i - 1]
    BY Zenon
  <2>2. m \in L /\ up[i] = N[m].parent
    <3>1. i - 1 \in 0..k
      BY <1>2
    <3> QED
      BY <1>3, <1>4, <1>7, <2>1, <3>1
  <2>3. CASE m = ROOT
    <3>1. N[m].parent = m /\ N[m].edge = <<>> /\ P[m] = <<>>
      BY <1>2, <2>3 DEF Links
    <3>2. Len(P[m]) = 0 /\ Len(N[m].edge) = 0
      BY <3>1
    <3> QED
      BY <2>1, <2>2, <3>1, <3>2
  <2>4. CASE m # ROOT
    <3>1. UpLink(N, L, P, m)
      BY <1>2, <2>2, <2>4 DEF Links
    <3>2. Joined(P[m], P[N[m].parent], N[m].edge)
      BY <3>1 DEF UpLink
    <3> QED
      BY <2>1, <2>2, <3>2 DEF Joined
  <2> QED
    BY <2>3, <2>4
<1>10. /\ \A i \in 0..k : up[i] \in L /\ Pre(P[up[i]], P[n])
       /\ \A m \in L \ {ROOT} : Pre(P[m], P[n]) => \E i \in 0..k : up[i] = m
  BY <1>4, <1>7, <1>8
<1> QED
  BY <1>1, <1>2, <1>3, <1>9, <1>10 DEF IsClimb

(* The edges of its first f turns.                                         *)
IsPart(N, L, P, n, up, k, f, e) ==
    /\ Links(N, L, P) /\ n \in L /\ IsClimb(N, L, P, n, up, k) /\ f \in 0..k
    /\ \A i \in 0..(f - 1) : e[i] = Len(N[up[i]].edge)

PartSums(P, n, up, f, e) ==
    /\ SumFunctionOnSet(e, 0..(f - 1)) = Len(P[n]) - Len(P[up[f]])
    /\ \A i \in 0..f : Len(P[up[f]]) <= Len(P[up[i]])

(* The edges climbed in f turns add up to what the path is shorter; so the *)
(* paths never get longer.                                                 *)
LEMMA ClimbSum ==
    ASSUME NEW N, NEW L, NEW P, NEW n, NEW up, NEW k, NEW f, NEW e,
           IsPart(N, L, P, n, up, k, f, e)
    PROVE  PartSums(P, n, up, f, e)
<1> USE DEF IsPart
<1>1. PICK a, l : a = [i \in 0..k |-> Len(P[up[i]])] /\ l = Len(P[n])
  BY Zenon
<1>2. k \in Nat /\ f \in Nat /\ f <= k /\ \A i \in 0..k : up[i] \in L
  BY DEF IsClimb
<1>3. \A i \in 0..k : a[i] \in Nat
  <2>1. \A i \in 0..k : Len(P[up[i]]) \in Nat
    BY <1>2, PathFacts
  <2> QED
    BY <1>1, <2>1
<1>4. a[0] = l
  BY <1>1, <1>2 DEF IsClimb
<1>5. \A i \in 0..(f - 1) : e[i] \in Nat /\ a[i + 1] + e[i] = a[i]
  <2> TAKE i \in 0..(f - 1)
  <2>1. i \in 0..k /\ i + 1 \in 1..k /\ i + 1 \in 0..k /\ (i + 1) - 1 = i
    BY <1>2
  <2>2. PICK x : x = N[up[i]].edge
    BY Zenon
  <2>3. x \in Seq(Nat)
    <3>1. CASE up[i] = ROOT
      BY <2>2, <3>1 DEF Links
    <3>2. CASE up[i] # ROOT
      <4>1. UpLink(N, L, P, up[i])
        BY <1>2, <2>1, <3>2 DEF Links
      <4> QED
        BY <2>2, <4>1 DEF UpLink
    <3> QED
      BY <3>1, <3>2
  <2>4. e[i] = Len(x) /\ Len(x) \in Nat
    BY <2>2, <2>3
  <2>5. Len(P[up[i + 1]]) + Len(N[up[i]].edge) = Len(P[up[i]])
    <3>1. Len(P[up[i + 1]]) + Len(N[up[(i + 1) - 1]].edge) = Len(P[up[(i + 1) - 1]])
      BY <2>1, Zenon DEF IsClimb
    <3> QED
      BY <2>1, <3>1
  <2> QED
    BY <1>1, <2>1, <2>2, <2>4, <2>5
<1> DEFINE S == {j \in 0..f : /\ SumFunctionOnSet(e, 0..(j - 1)) = l - a[j]
                              /\ \A i \in 0..j : a[j] <= a[i]}
<1>6. 0 \in S
  <2>1. SumFunctionOnSet(e, {}) = 0
    BY FS_EmptySet, SumOut
  <2>2. 0..(0 - 1) = {}
    OBVIOUS
  <2>3. l \in Nat /\ 0 \in 0..k
    BY <1>2, <1>3, <1>4
  <2>4. SumFunctionOnSet(e, 0..(0 - 1)) = l - a[0]
    BY <1>4, <2>1, <2>2, <2>3
  <2>5. \A i \in 0..0 : a[0] <= a[i]
    BY <1>3, <2>3
  <2> QED
    BY <1>2, <2>4, <2>5
<1>7. ASSUME NEW j \in 1..f, j - 1 \in S PROVE j \in S
  <2>1. PICK h, T : h = j - 1 /\ T = 0..(j - 1)
    BY Zenon
  <2>2. h \in T /\ h \in 0..(f - 1) /\ h + 1 = j /\ T \ {h} = 0..(h - 1) /\ h \in 0..k /\ j \in 0..k
    BY <1>2, <2>1
  <2>3. IsFiniteSet(T) /\ \A i \in T : e[i] \in Nat
    <3>1. IsFiniteSet(T)
      BY <2>1, FS_Interval
    <3>2. \A i \in T : i \in 0..(f - 1)
      BY <1>2, <2>1
    <3> QED
      BY <1>5, <3>1, <3>2
  <2>4. SumFunctionOnSet(e, T) = e[h] + SumFunctionOnSet(e, T \ {h})
    BY <2>2, <2>3, SumOut
  <2>5. SumFunctionOnSet(e, 0..(h - 1)) = l - a[h] /\ \A i \in 0..h : a[h] <= a[i]
    BY <1>7, <2>1
  <2>6. a[j] + e[h] = a[h] /\ e[h] \in Nat /\ a[h] \in Nat /\ a[j] \in Nat /\ l \in Nat
    <3>1. a[h + 1] + e[h] = a[h] /\ e[h] \in Nat
      BY <1>5, <2>2
    <3>2. 0 \in 0..k
      BY <1>2
    <3> QED
      BY <1>3, <1>4, <2>2, <3>1, <3>2
  <2>7. SumFunctionOnSet(e, T) = l - a[j]
    <3>1. PICK u, v, x, y : u = SumFunctionOnSet(e, T) /\ v = e[h] /\ x = a[h] /\ y = a[j]
      BY Zenon
    <3>2. SumFunctionOnSet(e, T \ {h}) = l - x
      BY <2>2, <2>5, <3>1
    <3>3. u = v + (l - x)
      BY <2>4, <3>1, <3>2
    <3>4. y + v = x /\ v \in Nat /\ x \in Nat /\ y \in Nat /\ l \in Nat
      BY <2>6, <3>1
    <3>5. u = l - y
      BY <3>3, <3>4
    <3> QED
      BY <3>1, <3>5
  <2>8. ASSUME NEW i \in 0..j PROVE a[j] <= a[i]
    <3>1. i \in 0..h \/ i = j
      BY <2>1
    <3>2. i \in 0..k
      BY <1>2
    <3>3. a[i] \in Nat
      BY <1>3, <3>2
    <3>4. CASE i \in 0..h
      <4>1. a[h] <= a[i]
        BY <2>5, <3>4
      <4> QED
        BY <2>6, <3>3, <4>1
    <3>5. CASE i = j
      BY <2>6, <3>5
    <3> QED
      BY <3>1, <3>4, <3>5
  <2> QED
    BY <2>1, <2>7, <2>8
<1> HIDE DEF S
<1>8. f \in S
  <2>1. \A j \in 0..f : j \in S
    BY <1>2, <1>6, <1>7, UpFromZero
  <2> QED
    BY <1>2, <2>1
<1>9. SumFunctionOnSet(e, 0..(f - 1)) = l - a[f] /\ \A i \in 0..f : a[f] <= a[i]
  BY <1>8 DEF S
<1>10. f \in 0..k /\ \A i \in 0..f : i \in 0..k
  BY <1>2
<1>11. \A i \in 0..k : a[i] = Len(P[up[i]])
  BY <1>1
<1> QED
  BY <1>1, <1>9, <1>10, <1>11 DEF PartSums

(* The cluster of a request that shares s tokens: none, or the slot s      *)
(* tokens down on its way.                                                 *)
ClusterIs(L, P, r, s, info) ==
    /\ s = 0 => info = NoCluster
    /\ s # 0 => \E m \in L : /\ Pre(P[m], paths[r]) /\ Len(P[m]) = s
                             /\ info = <<m, s, Cardinality(Under(paths, P[m]))>>

(* cluster_info (tree.rs 309-350) finds it.                                *)
LEMMA ClusterFacts ==
    ASSUME IInv, NEW L, NEW P, Reads(L, P), NEW r \in DOMAIN paths, NEW s, s = SharedWithOther(r)
    PROVE  ClusterIs(L, P, r, s, AllClusterInfo[r])
<1>1. PICK N, p, k, info : /\ N = tree.nodes /\ p = paths[r] /\ k = Cardinality(DOMAIN tree.nodes)
                           /\ info = AllClusterInfo[r]
  BY Zenon
<1>2. /\ Links(N, L, P) /\ Content(N, L, P, paths) /\ p \in Seq(Nat) /\ IsFiniteSet(DOMAIN tree.nodes)
  BY <1>1, ReadsFacts, PendingFacts DEF Arena
<1>3. PICK e \in L : P[e] = p
  BY <1>1, <1>2 DEF Content
<1>4. PICK d, up : d = Descend(tree, p) /\ up = Climb(tree, e)
  BY Zenon
<1>5. d.node = e /\ d.consumed = Len(p) /\ AtNodeBoundary(tree, d)
  <2>1. Home(tree, d, e, P[e])
    BY <1>1, <1>2, <1>3, <1>4, DescendHome
  <2> QED
    BY <1>3, <2>1 DEF Home
<1>6. TerminatesAt(tree, r, p)
  <2>1. r \in N[e].terminators
    BY <1>1, <1>2, <1>3 DEF Content
  <2> QED
    BY <1>1, <1>4, <1>5, <2>1, Zenon DEF TerminatesAt
<1>7. IsClimb(N, L, P, e, up, k)
  BY <1>1, <1>2, <1>4, ClimbFacts
<1>8. k \in Nat /\ DOMAIN up = 0..k /\ \A i \in 0..k : up[i] \in L /\ Pre(P[up[i]], p)
  BY <1>3, <1>7 DEF IsClimb
<1>9. PICK hits, first : /\ hits = {i \in DOMAIN up : up[i] # ROOT /\ N[up[i]].pending_count >= 2}
                         /\ first = Min(hits)
  BY Zenon
<1>10. PICK above : above = [i \in 0..(first - 1) |-> Len(N[up[i]].edge)]
  BY Zenon
<1>11. info = IF hits = {} THEN NoCluster
              ELSE <<up[first], Len(p) - SumFunctionOnSet(above, 0..(first - 1)),
                     N[up[first]].pending_count>>
  <2>1. info = ClusterInfo(tree, r, p)
    BY <1>1 DEF AllClusterInfo
  <2>2. DOMAIN above = 0..(first - 1)
    BY <1>10
  <2>3. Descend(tree, p).node = e
    BY <1>4, <1>5
  <2>4. ClusterInfo(tree, r, p) =
          IF ~TerminatesAt(tree, r, p) \/ hits = {} THEN NoCluster
          ELSE <<up[first], Len(p) - SumFunctionOnSet(above, DOMAIN above),
                 N[up[first]].pending_count>>
    BY <1>1, <1>4, <1>9, <1>10, <2>3, Zenon DEF ClusterInfo
  <2> QED
    BY <1>6, <2>1, <2>2, <2>4
<1>12. AskedTo(N, L, P, 2, r, s)
  BY <1>1, AskedShared
<1>13. s \in Nat /\ \A c \in L \ {ROOT} : Pre(P[c], p) => (N[c].pending_count >= 2 <=> Len(P[c]) <= s)
  BY <1>1, <1>12 DEF AskedTo
<1>14. hits = {i \in 0..k : up[i] # ROOT /\ Len(P[up[i]]) <= s}
  <2>1. \A i \in 0..k : up[i] # ROOT => (N[up[i]].pending_count >= 2 <=> Len(P[up[i]]) <= s)
    BY <1>8, <1>13
  <2> QED
    BY <1>8, <1>9, <2>1
<1>15. \A c \in L \ {ROOT} : Len(P[c]) \in Nat /\ Len(P[c]) > 0
  BY <1>2, PathFacts
<1>16. ASSUME s = 0 PROVE info = NoCluster
  <2>1. \A i \in 0..k : up[i] # ROOT => ~(Len(P[up[i]]) <= s)
    BY <1>8, <1>15, <1>16
  <2>2. hits = {}
    BY <1>14, <2>1
  <2> QED
    BY <1>11, <2>2
<1>17. ASSUME s # 0
       PROVE  \E m \in L : /\ Pre(P[m], p) /\ Len(P[m]) = s
                           /\ info = <<m, s, Cardinality(Under(paths, P[m]))>>
  <2>1. PICK m \in L : Pre(P[m], p) /\ Len(P[m]) = s
    BY <1>1, <1>12, <1>17 DEF AskedTo
  <2>2. m # ROOT
    <3>1. P[ROOT] = <<>>
      BY <1>2 DEF Links
    <3> QED
      BY <1>17, <2>1, <3>1
  <2>3. PICK j \in 0..k : up[j] = m
    BY <1>3, <1>7, <2>1, <2>2 DEF IsClimb
  <2>4. j \in hits
    BY <1>13, <1>14, <2>1, <2>2, <2>3
  <2>5. first \in hits /\ first <= j
    <3>1. hits \in SUBSET Int /\ hits # {} /\ hits \subseteq 0..k
      BY <1>8, <1>14, <2>4
    <3>2. IsFiniteSet(hits)
      <4>1. IsFiniteSet(0..k)
        BY <1>8, FS_Interval
      <4> QED
        BY <3>1, <4>1, FS_Subset
    <3> QED
      BY <1>9, <2>4, <3>1, <3>2, MaxMinFacts
  <2>6. first \in 0..k /\ up[first] # ROOT /\ Len(P[up[first]]) <= s
    BY <1>14, <2>5
  <2>7. PICK c : c = up[first]
    BY Zenon
  <2>8. c \in L /\ Pre(P[c], p) /\ P[c] \in Seq(Nat) /\ P[m] \in Seq(Nat)
    BY <1>2, <1>8, <2>6, <2>7, PathFacts
  <2>9. SumFunctionOnSet(above, 0..(first - 1)) = Len(p) - Len(P[c])
    <3>1. SumFunctionOnSet(above, 0..(first - 1)) = Len(P[e]) - Len(P[up[first]])
      <4>1. \A i \in 0..(first - 1) : above[i] = Len(N[up[i]].edge)
        BY <1>10
      <4>2. IsPart(N, L, P, e, up, k, first, above)
        BY <1>2, <1>7, <2>6, <4>1, Zenon DEF IsPart
      <4>3. PartSums(P, e, up, first, above)
        BY <4>2, ClimbSum
      <4> QED
        BY <4>3 DEF PartSums
    <3> QED
      BY <1>3, <2>7, <3>1
  <2>10. Len(P[m]) <= Len(P[c])
    <3>1. PICK b : b = [i \in 0..(j - 1) |-> Len(N[up[i]].edge)]
      BY Zenon
    <3>2. \A i \in 0..(j - 1) : b[i] = Len(N[up[i]].edge)
      BY <3>1
    <3>3. \A i \in 0..j : Len(P[up[j]]) <= Len(P[up[i]])
      <4>1. IsPart(N, L, P, e, up, k, j, b)
        BY <1>2, <1>7, <2>3, <3>2, Zenon DEF IsPart
      <4>2. PartSums(P, e, up, j, b)
        BY <4>1, ClimbSum
      <4> QED
        BY <4>2 DEF PartSums
    <3>4. first \in 0..j
      BY <2>3, <2>5, <2>6
    <3> QED
      BY <2>3, <2>7, <3>3, <3>4
  <2>11. Pre(P[c], P[m]) \/ Pre(P[m], P[c])
    BY <1>2, <2>1, <2>8, PreEither
  <2>12. Len(P[c]) = s
    BY <1>13, <2>1, <2>6, <2>7, <2>8, <2>10
  <2>13. P[c] = P[m]
    BY <2>1, <2>8, <2>11, <2>12, PreBoth
  <2>14. c = m
    BY <1>2, <2>8, <2>13, OneSlot
  <2>15. N[c].pending_count = Cardinality(Under(paths, P[c]))
    BY <1>2, <2>6, <2>7, <2>8 DEF Content
  <2>16. Len(p) - (Len(p) - s) = s
    BY <1>2, <1>13
  <2>17. info = <<c, s, Cardinality(Under(paths, P[c]))>>
    BY <1>11, <2>4, <2>7, <2>9, <2>12, <2>15, <2>16
  <2> QED
    BY <2>8, <2>12, <2>17
<1> QED
  BY <1>1, <1>16, <1>17 DEF ClusterIs

(* The invariant implies that the clusters are the groups of requests that *)
(* share most.                                                             *)
LEMMA InvClusters == ASSUME IInv PROVE ClustersExact
<1>1. PICK L, P : Reads(L, P)
  BY DEF IInv, Keeps, Reads
<1>2. Links(tree.nodes, L, P)
  BY <1>1, ReadsFacts
<1>3. ASSUME NEW r \in DOMAIN paths, NEW k, k = SharedWithOther(r), NEW info, info = AllClusterInfo[r],
             NEW group, group = StartingWith(SubSeq(paths[r], 1, k)), k # 0
      PROVE  /\ info[2] = k /\ info[3] = Cardinality(group)
             /\ \A q \in DOMAIN paths : AllClusterInfo[q] # NoCluster =>
                   (AllClusterInfo[q][1] = info[1] <=> q \in group /\ SharedWithOther(q) = k)
  <2>1. PICK m \in L : /\ Pre(P[m], paths[r]) /\ Len(P[m]) = k
                       /\ info = <<m, k, Cardinality(Under(paths, P[m]))>>
    BY <1>1, <1>3, ClusterFacts DEF ClusterIs
  <2>2. group = Under(paths, P[m])
    <3>1. PICK p, b : p = paths[r] /\ b = P[m]
      BY Zenon
    <3>2. p \in Seq(Nat) /\ b \in Seq(Nat) /\ k \in 0..Len(p) /\ \A i \in 1..k : b[i] = p[i]
      <4>1. p \in Seq(Nat) /\ b \in Seq(Nat)
        BY <1>2, <3>1, PendingFacts, PathFacts
      <4>2. Len(b) = k /\ Len(b) <= Len(p) /\ \A i \in 1..Len(b) : b[i] = p[i]
        BY <2>1, <3>1 DEF Pre
      <4> QED
        BY <4>1, <4>2
    <3>3. PICK c : c = SubSeq(p, 1, k)
      BY Zenon
    <3>4. c \in Seq(Nat) /\ Len(c) = k /\ \A i \in 1..k : c[i] = p[i]
      BY <3>2, <3>3, TakeFacts
    <3>5. c = b
      <4>1. Len(b) = k
        BY <2>1, <3>1
      <4>2. Pre(c, b) /\ Len(b) <= Len(c)
        BY <3>2, <3>4, <4>1 DEF Pre
      <4> QED
        BY <3>2, <3>4, <4>2, PreBoth
    <3> QED
      BY <1>3, <3>1, <3>3, <3>4, <3>5, StartingFacts
  <2>3. ASSUME NEW q \in DOMAIN paths, AllClusterInfo[q] # NoCluster
        PROVE  AllClusterInfo[q][1] = info[1] <=> q \in group /\ SharedWithOther(q) = k
    <3>1. PICK l : l = SharedWithOther(q)
      BY Zenon
    <3>2. ClusterIs(L, P, q, l, AllClusterInfo[q])
      BY <1>1, <3>1, ClusterFacts
    <3>3. l # 0
      BY <2>3, <3>2 DEF ClusterIs
    <3>4. PICK n \in L : /\ Pre(P[n], paths[q]) /\ Len(P[n]) = l
                         /\ AllClusterInfo[q] = <<n, l, Cardinality(Under(paths, P[n]))>>
      BY <3>2, <3>3 DEF ClusterIs
    <3>5. AllClusterInfo[q][1] = n /\ info[1] = m
      BY <2>1, <3>4
    <3>6. n = m => q \in group /\ l = k
      BY <2>1, <2>2, <3>4 DEF Under
    <3>7. ASSUME q \in group, l = k PROVE n = m
      <4>1. Pre(P[m], paths[q]) /\ paths[q] \in Seq(Nat)
        BY <2>2, <3>7, PendingFacts DEF Under
      <4>2. P[m] \in Seq(Nat) /\ P[n] \in Seq(Nat)
        BY <1>2, PathFacts
      <4>3. Pre(P[m], P[n]) \/ Pre(P[n], P[m])
        BY <3>4, <4>1, <4>2, PreEither
      <4>4. Len(P[m]) = Len(P[n]) /\ Len(P[m]) \in Nat
        BY <2>1, <3>4, <3>7, <4>2
      <4>5. P[m] = P[n]
        BY <4>2, <4>3, <4>4, PreBoth
      <4> QED
        BY <1>2, <4>5, OneSlot
    <3> QED
      BY <3>1, <3>5, <3>6, <3>7
  <2>4. info[2] = k /\ info[3] = Cardinality(group)
    BY <2>1, <2>2
  <2> QED
    BY <2>3, <2>4
<1>4. ASSUME NEW r \in DOMAIN paths, SharedWithOther(r) = 0 PROVE AllClusterInfo[r] = NoCluster
  BY <1>1, <1>4, ClusterFacts DEF ClusterIs
<1>5. ASSUME NEW r \in DOMAIN paths
      PROVE  LET info == AllClusterInfo[r]
                 k    == SharedWithOther(r)
                 group == StartingWith(SubSeq(paths[r], 1, k))
             IN IF k = 0 THEN info = NoCluster
                ELSE /\ info[2] = k /\ info[3] = Cardinality(group)
                     /\ \A q \in DOMAIN paths : AllClusterInfo[q] # NoCluster =>
                           (AllClusterInfo[q][1] = info[1]
                              <=> q \in group /\ SharedWithOther(q) = k)
  <2>1. CASE SharedWithOther(r) = 0
    BY <1>4, <2>1, Zenon
  <2>2. CASE SharedWithOther(r) # 0
    <3>1. PICK k, info, group : /\ k = SharedWithOther(r) /\ info = AllClusterInfo[r]
                                /\ group = StartingWith(SubSeq(paths[r], 1, k))
      BY Zenon
    <3>2. /\ info[2] = k /\ info[3] = Cardinality(group)
          /\ \A q \in DOMAIN paths : AllClusterInfo[q] # NoCluster =>
                (AllClusterInfo[q][1] = info[1] <=> q \in group /\ SharedWithOther(q) = k)
      BY <1>3, <2>2, <3>1
    <3> QED
      BY <2>2, <3>1, <3>2, Zenon
  <2> QED
    BY <2>1, <2>2
<1> QED
  BY <1>5, Zenon DEF ClustersExact

(* Requests that begin with the same slot's path share at least it; where  *)
(* they part is the slot after whose path they do.                         *)
LEMMA SharedSlot ==
    ASSUME IInv, NEW L, NEW P, Reads(L, P), NEW n \in L, NEW a, a = Len(P[n]),
           NEW r \in Under(paths, P[n]), NEW q \in Under(paths, P[n])
    PROVE  /\ Shared(r, q) \in Nat /\ a <= Shared(r, q) /\ Shared(r, q) <= Len(paths[r])
           /\ \A c \in L \ {ROOT} : tree.nodes[c].parent = n /\ r \in Under(paths, P[c]) =>
                 q \in Under(paths, P[c]) \/ Shared(r, q) = a
<1>1. PICK N, x, y, k : N = tree.nodes /\ x = paths[r] /\ y = paths[q] /\ k = Shared(r, q)
  BY Zenon
<1>2. /\ Links(N, L, P) /\ Content(N, L, P, paths) /\ x \in Seq(Nat) /\ y \in Seq(Nat)
      /\ P[n] \in Seq(Nat) /\ a \in Nat /\ Pre(P[n], x) /\ Pre(P[n], y)
      /\ r \in DOMAIN paths /\ q \in DOMAIN paths
  <2>1. r \in DOMAIN paths /\ q \in DOMAIN paths /\ Pre(P[n], x) /\ Pre(P[n], y)
    BY <1>1 DEF Under
  <2> QED
    BY <1>1, <2>1, ReadsFacts, PendingFacts
<1>3. PICK lx, ly : lx = Len(x) /\ ly = Len(y)
  BY Zenon
<1>4. /\ k \in Nat /\ k <= lx /\ k <= ly /\ \A i \in 1..k : x[i] = y[i]
      /\ \A j \in Nat : j <= lx /\ j <= ly /\ (\A i \in 1..j : x[i] = y[i]) => j <= k
  <2>1. k = MatchEdgeLen(x, y)
    BY <1>1 DEF Shared
  <2>2. Overlap(x, y, k)
    BY <1>2, <2>1, OverlapFacts
  <2> QED
    BY <1>3, <2>2, Zenon DEF Overlap
<1>5. /\ a <= lx /\ a <= ly /\ \A i \in 1..a : P[n][i] = x[i] /\ P[n][i] = y[i]
  BY <1>2, <1>3, Zenon DEF Pre
<1>6. a <= k
  <2>1. \A i \in 1..a : x[i] = y[i]
    BY <1>5
  <2> QED
    BY <1>2, <1>4, <1>5, <2>1
<1>7. ASSUME NEW c \in L \ {ROOT}, N[c].parent = n, r \in Under(paths, P[c]), k # a
      PROVE  q \in Under(paths, P[c])
  <2>1. a < k
    BY <1>2, <1>4, <1>6, <1>7
  <2>2. PICK b : b = Len(P[c])
    BY Zenon
  <2>3. P[c] \in Seq(Nat) /\ b \in Nat /\ a < b
    BY <1>2, <1>7, <2>2, UpFacts
  <2>4. \A i \in 1..b : P[c][i] = x[i]
    BY <1>1, <1>7, <2>2 DEF Under, Pre
  <2>5. PICK m \in L : P[m] = y
    BY <1>1, <1>2 DEF Content
  <2>6. a < ly
    BY <1>2, <1>3, <1>4, <2>1
  <2>7. ASSUME NEW i \in 1..(a + 1) PROVE y[i] = P[c][i]
    <3>1. i \in 1..b /\ i \in 1..k
      BY <1>2, <1>4, <2>1, <2>3
    <3> QED
      BY <1>4, <2>4, <3>1
  <2>8. MeetsAt(N, P, c, m)
    BY <1>3, <1>7, <2>5, <2>6, <2>7 DEF MeetsAt
  <2>9. Pre(P[c], y)
    BY <1>2, <2>5, <2>8, Branches
  <2> QED
    BY <1>1, <1>2, <2>9 DEF Under
<1> QED
  BY <1>1, <1>3, <1>4, <1>6, <1>7

(* What the request r shares with those below n, beyond n itself.          *)
Over(r, l) == [q \in DOMAIN paths |-> Shared(r, q) - l]

Rest(P, n, r) == SumFunctionOnSet(Over(r, Len(P[n])), Under(paths, P[n]))

(* An edge is shared by the requests below its end in full, and by no      *)
(* other one.                                                              *)
LEMMA RestTurn ==
    ASSUME IInv, NEW L, NEW P, Reads(L, P), NEW c \in L \ {ROOT}, NEW n, n = tree.nodes[c].parent,
           NEW r \in Under(paths, P[c])
    PROVE  Rest(P, n, r) = Rest(P, c, r) + EdgeWeight(tree.nodes[c])
<1>1. PICK N, a, b, g : N = tree.nodes /\ a = Len(P[n]) /\ b = Len(P[c]) /\ g = Len(tree.nodes[c].edge)
  BY Zenon
<1>2. PICK U, V : U = Under(paths, P[n]) /\ V = Under(paths, P[c])
  BY Zenon
<1>3. PICK f, e : f = Over(r, a) /\ e = Over(r, b)
  BY Zenon
<1>4. /\ Links(N, L, P) /\ Content(N, L, P, paths) /\ IsFiniteSet(U) /\ IsFiniteSet(V)
      /\ \A q \in DOMAIN paths : paths[q] \in Seq(Nat)
  BY <1>1, <1>2, ReadsFacts, PendingFacts
<1>5. /\ n \in L /\ P[c] \in Seq(Nat) /\ P[n] \in Seq(Nat) /\ Pre(P[n], P[c])
      /\ a \in Nat /\ b \in Nat /\ g \in Nat /\ b = a + g
  <2>1. n \in L /\ P[c] \in Seq(Nat) /\ P[n] \in Seq(Nat) /\ Pre(P[n], P[c])
    BY <1>1, <1>4, UpFacts
  <2>2. UpLink(N, L, P, c)
    BY <1>4 DEF Links
  <2>3. N[c].edge \in Seq(Nat) /\ Joined(P[c], P[n], N[c].edge)
    BY <1>1, <2>2, Zenon DEF UpLink
  <2>4. PICK w : w = N[c].edge
    BY Zenon
  <2>5. w \in Seq(Nat) /\ g = Len(w) /\ b = a + Len(w)
    BY <1>1, <2>3, <2>4, Zenon DEF Joined
  <2>6. a \in Nat /\ b \in Nat
    BY <1>1, <2>1
  <2>7. g \in Nat
    BY <2>5
  <2> QED
    BY <2>1, <2>5, <2>6, <2>7, Zenon
<1>6. V \subseteq U
  <2> SUFFICES ASSUME NEW q \in V PROVE q \in U
    OBVIOUS
  <2>1. q \in DOMAIN paths /\ Pre(P[c], paths[q]) /\ paths[q] \in Seq(Nat)
    BY <1>2, <1>4 DEF Under
  <2>2. Pre(P[n], paths[q])
    BY <1>5, <2>1, PreTrans
  <2> QED
    BY <1>2, <2>1, <2>2 DEF Under
<1>7. r \in U /\ U \subseteq DOMAIN paths
  BY <1>2, <1>6 DEF Under
<1>8. ASSUME NEW q \in U PROVE f[q] \in Nat /\ (q \notin V => f[q] = 0)
  <2>1. PICK k : k = Shared(r, q)
    BY Zenon
  <2>2. k \in Nat /\ a <= k /\ (q \in V \/ k = a)
    <3>1. k \in Nat /\ a <= k
      BY <1>1, <1>2, <1>5, <1>7, <2>1, SharedSlot
    <3>2. q \in V \/ k = a
      BY <1>1, <1>2, <1>5, <1>7, <2>1, SharedSlot
    <3> QED
      BY <3>1, <3>2
  <2>3. f[q] = k - a
    BY <1>3, <1>7, <2>1 DEF Over
  <2> QED
    BY <1>5, <2>2, <2>3
<1>9. ASSUME NEW q \in V PROVE e[q] \in Nat /\ f[q] = e[q] + g
  <2>1. PICK k : k = Shared(r, q)
    BY Zenon
  <2>2. k \in Nat /\ b <= k
    BY <1>1, <1>2, <2>1, SharedSlot
  <2>3. f[q] = k - a /\ e[q] = k - b
    BY <1>3, <1>6, <1>7, <2>1 DEF Over
  <2> QED
    BY <1>5, <2>2, <2>3
<1>10. SumFunctionOnSet(f, U) = SumFunctionOnSet(f, V)
  BY <1>4, <1>6, <1>8, SumZeros
<1>11. SumFunctionOnSet(f, V) = SumFunctionOnSet(e, V) + Cardinality(V) * g
  <2>1. IsFiniteSet(V) /\ g \in Nat /\ \A q \in V : e[q] \in Nat /\ f[q] = e[q] + g
    BY <1>4, <1>5, <1>9
  <2> QED
    BY <2>1, SumShift, Zenon
<1>12. EdgeWeight(N[c]) = Cardinality(V) * g
  BY <1>1, <1>2, <1>4 DEF Content, EdgeWeight
<1>13. Rest(P, n, r) = SumFunctionOnSet(f, U) /\ Rest(P, c, r) = SumFunctionOnSet(e, V)
  BY <1>1, <1>2, <1>3 DEF Rest
<1> QED
  BY <1>1, <1>10, <1>11, <1>12, <1>13, Zenon

(* A request that ends at n shares nothing beyond it.                      *)
LEMMA RestEnd ==
    ASSUME IInv, NEW L, NEW P, Reads(L, P), NEW n \in L, NEW r \in DOMAIN paths, paths[r] = P[n]
    PROVE  Rest(P, n, r) = 0
<1>1. PICK a, U, f : a = Len(P[n]) /\ U = Under(paths, P[n]) /\ f = Over(r, a)
  BY Zenon
<1>2. IsFiniteSet(U) /\ P[n] \in Seq(Nat) /\ a \in Nat
  BY <1>1, ReadsFacts, PendingFacts
<1>3. r \in U /\ U \subseteq DOMAIN paths
  BY <1>1, <1>2 DEF Under, Pre
<1>4. ASSUME NEW q \in U PROVE f[q] = 0
  <2>1. PICK k : k = Shared(r, q)
    BY Zenon
  <2>2. k \in Nat /\ a <= k /\ k <= Len(paths[r])
    BY <1>1, <1>3, <2>1, SharedSlot
  <2>3. f[q] = k - a /\ k = a
    BY <1>1, <1>2, <1>3, <2>1, <2>2 DEF Over
  <2> QED
    BY <1>2, <2>3
<1>5. SumFunctionOnSet(f, U) = SumFunctionOnSet(f, {})
  <2>1. {} \in SUBSET U /\ (\A q \in U : f[q] \in Nat) /\ \A q \in U \ {} : f[q] = 0
    BY <1>4
  <2> QED
    BY <1>2, <2>1, SumZeros
<1>6. SumFunctionOnSet(f, {}) = 0
  <2>1. IsFiniteSet({}) /\ \A x \in {} : f[x] \in Nat
    BY FS_EmptySet
  <2> QED
    BY <2>1, SumOut
<1> QED
  BY <1>1, <1>5, <1>6 DEF Rest

(* The recursion of compute_req_scores.                                    *)
AddTo(found, w) == {<<f[1], f[2] + w>> : f \in found}

ScoresAt(v, n) ==
    {<<r, 0>> : r \in tree.nodes[n].terminators} \cup
    UNION {AddTo(v[c], EdgeWeight(tree.nodes[c])) : c \in Range(tree.nodes[n].children)}

IsScores(v) == v = [n \in DOMAIN tree.nodes |-> ScoresAt(v, n)]

(* Below n a request has earned what it shares beyond n.                   *)
Earned(P, n) == {<<r, Rest(P, n, r)>> : r \in Under(paths, P[n])}

(* What the requests below a slot have earned, from what those below its   *)
(* children have.                                                          *)
LEMMA ScoresTurn ==
    ASSUME IInv, NEW L, NEW P, Reads(L, P), NEW n \in L, NEW v,
           \A c \in L \ {ROOT} : tree.nodes[c].parent = n => v[c] = Earned(P, c)
    PROVE  ScoresAt(v, n) = Earned(P, n)
<1>1. PICK N, K : N = tree.nodes /\ K = Range(tree.nodes[n].children)
  BY Zenon
<1>2. /\ Under(paths, P[n]) =
           {r \in DOMAIN paths : paths[r] = P[n]} \cup UNION {Under(paths, P[c]) : c \in K}
      /\ N[n].terminators = {r \in DOMAIN paths : paths[r] = P[n]}
      /\ \A c \in K : c \in L \ {ROOT} /\ N[c].parent = n
  <2>1. SlotParts(L, P, n, K)
    BY <1>1, UnderParts
  <2> QED
    BY <1>1, <2>1 DEF SlotParts
<1>3. PICK U, T, G : /\ U = Under(paths, P[n]) /\ T = {r \in DOMAIN paths : paths[r] = P[n]}
                     /\ G = [r \in Under(paths, P[n]) |-> Rest(P, n, r)]
  BY Zenon
<1>4. T \subseteq U /\ DOMAIN G = U
  BY <1>2, <1>3
<1>5. ASSUME NEW r \in T PROVE G[r] = 0
  <2>1. r \in DOMAIN paths /\ paths[r] = P[n]
    BY <1>3
  <2>2. Rest(P, n, r) = 0
    BY <2>1, RestEnd
  <2>3. r \in Under(paths, P[n])
    BY <1>3, <1>4
  <2> QED
    BY <1>3, <2>2, <2>3
<1>6. ASSUME NEW c \in K
      PROVE  AddTo(v[c], EdgeWeight(N[c])) = {<<r, G[r]>> : r \in Under(paths, P[c])}
  <2>1. PICK w, V, H : /\ w = EdgeWeight(N[c]) /\ V = Under(paths, P[c])
                       /\ H = [r \in Under(paths, P[c]) |-> Rest(P, c, r)]
    BY Zenon
  <2>2. c \in L \ {ROOT} /\ n = N[c].parent /\ V \subseteq U
    BY <1>2, <1>3, <2>1
  <2>3. ASSUME NEW r \in V PROVE G[r] = H[r] + w
    <3>1. Rest(P, n, r) = Rest(P, c, r) + EdgeWeight(tree.nodes[c])
      BY <1>1, <2>1, <2>2, RestTurn
    <3>2. r \in Under(paths, P[n]) /\ r \in Under(paths, P[c])
      BY <1>3, <2>1, <2>2
    <3>3. G[r] = Rest(P, n, r) /\ H[r] = Rest(P, c, r)
      BY <1>3, <2>1, <3>2
    <3> QED
      BY <1>1, <2>1, <3>1, <3>3, Zenon
  <2>4. v[c] = {<<r, H[r]>> : r \in V}
    <3>1. v[c] = Earned(P, c)
      BY <1>1, <2>2
    <3> QED
      BY <2>1, <3>1 DEF Earned
  <2>5. AddTo(v[c], w) = {<<r, H[r] + w>> : r \in V}
    <3>1. AddTo(v[c], w) = {<<f[1], f[2] + w>> : f \in v[c]}
      BY Zenon DEF AddTo
    <3>2. \A r \in V : <<r, H[r]>>[1] = r /\ <<r, H[r]>>[2] = H[r]
      OBVIOUS
    <3>3. ASSUME NEW r \in V PROVE <<r, H[r] + w>> \in AddTo(v[c], w)
      <4>1. PICK f \in v[c] : f = <<r, H[r]>>
        BY <2>4
      <4>2. f[1] = r /\ f[2] = H[r]
        BY <4>1
      <4> QED
        BY <3>1, <4>2
    <3>4. ASSUME NEW z \in AddTo(v[c], w) PROVE \E r \in V : z = <<r, H[r] + w>>
      <4>1. PICK f \in v[c] : z = <<f[1], f[2] + w>>
        BY <3>1
      <4>2. PICK r \in V : f = <<r, H[r]>>
        BY <2>4
      <4>3. f[1] = r /\ f[2] = H[r]
        BY <4>2
      <4> QED
        BY <4>1, <4>3
    <3> QED
      BY <3>3, <3>4
  <2>6. {<<r, H[r] + w>> : r \in V} = {<<r, G[r]>> : r \in V}
    BY <2>3
  <2> QED
    BY <2>1, <2>5, <2>6
<1>7. ScoresAt(v, n) = {<<r, 0>> : r \in T} \cup UNION {AddTo(v[c], EdgeWeight(N[c])) : c \in K}
  BY <1>1, <1>2, <1>3 DEF ScoresAt
<1>8. {<<r, 0>> : r \in T} = {<<r, G[r]>> : r \in T}
  BY <1>5
<1>9. {AddTo(v[c], EdgeWeight(N[c])) : c \in K} = {{<<r, G[r]>> : r \in Under(paths, P[c])} : c \in K}
  BY <1>6
<1>10. {<<r, G[r]>> : r \in U} =
         {<<r, G[r]>> : r \in T} \cup UNION {{<<r, G[r]>> : r \in Under(paths, P[c])} : c \in K}
  <2>1. PICK Q : Q = [c \in K |-> Under(paths, P[c])]
    BY Zenon
  <2>2. U = T \cup UNION {Q[c] : c \in K}
    <3>1. {Q[c] : c \in K} = {Under(paths, P[c]) : c \in K}
      BY <2>1
    <3> QED
      BY <1>2, <1>3, <3>1
  <2>3. {<<r, G[r]>> : r \in U} = {<<r, G[r]>> : r \in T} \cup UNION {{<<r, G[r]>> : r \in Q[c]} : c \in K}
    BY <2>2
  <2>4. {{<<r, G[r]>> : r \in Q[c]} : c \in K} = {{<<r, G[r]>> : r \in Under(paths, P[c])} : c \in K}
    BY <2>1
  <2> QED
    BY <2>3, <2>4
<1>11. Earned(P, n) = {<<r, G[r]>> : r \in U}
  BY <1>3 DEF Earned
<1> QED
  BY <1>7, <1>8, <1>9, <1>10, <1>11

(* compute_req_scores (tree.rs 431-457) gives every request what it has    *)
(* earned below ROOT.                                                      *)
LEMMA ReqScoresFacts ==
    ASSUME IInv, NEW L, NEW P, Reads(L, P)
    PROVE  ReqScores = Earned(P, ROOT)
<1>1. PICK N, D : N = tree.nodes /\ D = DOMAIN tree.nodes
  BY Zenon
<1>2. Links(N, L, P) /\ Arena(tree, L) /\ IsFiniteSet(L) /\ L \subseteq D /\ ROOT \in L
  BY <1>1, ReadsFacts
<1>3. \E v : IsScores(v)
  <2>1. PICK v : v = [m \in D |-> IF m \in L THEN Earned(P, m) ELSE {}]
    BY Zenon
  <2>2. ASSUME NEW m \in D PROVE v[m] = ScoresAt(v, m)
    <3>1. CASE m \in L
      <4>1. \A c \in L \ {ROOT} : v[c] = Earned(P, c)
        BY <1>2, <2>1
      <4>2. ScoresAt(v, m) = Earned(P, m)
        BY <3>1, <4>1, ScoresTurn
      <4> QED
        BY <1>2, <2>1, <3>1, <4>2
    <3>2. CASE m \notin L
      <4>1. tree.nodes[m] = Unused
        BY <1>1, <1>2, <3>2 DEF Arena
      <4>2. Range(tree.nodes[m].children) = {} /\ tree.nodes[m].terminators = {}
        BY <4>1 DEF Unused, NewNode, Range
      <4>3. ScoresAt(v, m) = {}
        BY <4>2 DEF ScoresAt
      <4> QED
        BY <2>1, <3>2, <4>3
    <3> QED
      BY <3>1, <3>2
  <2>3. v = [m \in D |-> v[m]]
    BY <2>1
  <2>4. IsScores(v)
    BY <1>1, <2>2, <2>3 DEF IsScores
  <2> QED
    BY <2>4
<1>4. PICK v : v = CHOOSE w : IsScores(w)
  BY Zenon
<1>5. IsScores(v)
  BY <1>3, <1>4, Zenon
<1>6. ReqScores = v[ROOT]
  BY <1>4, Zenon DEF ReqScores, IsScores, ScoresAt, AddTo
<1> DEFINE G == {m \in L : v[m] = Earned(P, m)}
<1>7. ASSUME NEW m \in L, \A c \in L \ {ROOT} : N[c].parent = m => c \in G
      PROVE  m \in G
  <2>1. \A c \in L \ {ROOT} : tree.nodes[c].parent = m => v[c] = Earned(P, c)
    BY <1>1, <1>7
  <2> HIDE DEF G
  <2>2. ScoresAt(v, m) = Earned(P, m)
    BY <2>1, ScoresTurn
  <2>3. v[m] = ScoresAt(v, m)
    BY <1>1, <1>2, <1>5 DEF IsScores
  <2> QED
    BY <2>2, <2>3 DEF G
<1> HIDE DEF G
<1>8. ROOT \in G
  BY <1>2, <1>7, FromLeaves
<1>9. v[ROOT] = Earned(P, ROOT)
  BY <1>8 DEF G
<1> QED
  BY <1>6, <1>9

(* The invariant implies that a score is the total overlap.                *)
LEMMA InvScores == ASSUME IInv PROVE ScoresExact
<1>1. PICK L, P : Reads(L, P)
  BY DEF IInv, Keeps, Reads
<1>2. ROOT \in L /\ P[ROOT] = <<>> /\ IsFiniteSet(DOMAIN paths)
  BY <1>1, ReadsFacts, PendingFacts DEF Links
<1>3. PICK D : D = DOMAIN paths
  BY Zenon
<1>4. Under(paths, P[ROOT]) = D /\ Len(P[ROOT]) = 0
  <2>1. \A r \in DOMAIN paths : Pre(<<>>, paths[r])
    BY PendingFacts DEF Pre
  <2> QED
    BY <1>2, <1>3, <2>1 DEF Under
<1>5. ASSUME NEW r \in D
      PROVE  Rest(P, ROOT, r) = SumFunctionOnSet([q \in D |-> Shared(r, q)], D)
  <2>1. PICK f, e : f = [q \in D |-> Shared(r, q)] /\ e = Over(r, 0)
    BY Zenon
  <2>2. ASSUME NEW q \in D PROVE e[q] = f[q]
    <3>1. PICK k : k = Shared(r, q)
      BY Zenon
    <3>2. k \in Nat
      BY <1>1, <1>2, <1>4, <3>1, SharedSlot
    <3>3. e[q] = k - 0 /\ f[q] = k
      BY <1>3, <2>1, <3>1 DEF Over
    <3> QED
      BY <3>2, <3>3
  <2>3. SumFunctionOnSet(e, D) = SumFunctionOnSet(f, D)
    BY <1>2, <1>3, <2>2, SumSame
  <2>4. Rest(P, ROOT, r) = SumFunctionOnSet(e, D)
    BY <1>4, <2>1 DEF Rest
  <2> QED
    BY <2>1, <2>3, <2>4
<1>6. Earned(P, ROOT) = {<<r, SumFunctionOnSet([q \in D |-> Shared(r, q)], D)>> : r \in D}
  <2>1. PICK g : g = [r \in D |-> SumFunctionOnSet([q \in D |-> Shared(r, q)], D)]
    BY Zenon
  <2>2. \A r \in D : Rest(P, ROOT, r) = g[r]
    BY <1>5, <2>1
  <2>3. Earned(P, ROOT) = {<<r, g[r]>> : r \in D}
    BY <1>4, <2>2 DEF Earned
  <2> QED
    BY <2>1, <2>3
<1>7. ReqScores = Earned(P, ROOT)
  BY <1>1, ReqScoresFacts
<1> QED
  BY <1>3, <1>6, <1>7 DEF ScoresExact

(* Clusters, counters and scores are what the sharing of the pending       *)
(* prompts says: the cluster-LPM order ranks by them.                      *)
THEOREM TreeRankingExact == Spec => []RankingExact
<1>1. IInv => RankingExact
  BY InvClusters, InvCounters, InvScores DEF RankingExact
<1> QED
  BY <1>1, PendingInvariant, PTL
=============================================================================
