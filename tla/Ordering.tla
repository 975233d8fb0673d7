------------------------------- MODULE Ordering -------------------------------
(***************************************************************************)
(* Python's list.sort / sorted and dict-of-lists grouping, which every     *)
(* reorder of peek's offline part is built from.                           *)
(***************************************************************************)
EXTENDS Naturals, Integers, Sequences, FiniteSets, FiniteSetsExt, SequencesExt, TLC

(* The members of a finite set in the order of a relation, a set of pairs  *)
(* <<i, j>> of which i comes first.                                        *)
InOrder(I, R) ==
    [k \in 1..Cardinality(I) |-> CHOOSE i \in I : Cardinality({j \in I : <<j, i>> \in R}) = k - 1]

Ascending(I) == InOrder(I, {p \in I \X I : p[1] < p[2]})

(* The elements of s at the indices `is`, and at those of the set I.       *)
At(s, is) == [k \in DOMAIN is |-> s[is[k]]]
Subsequence(s, I) == At(s, Ascending(I))

(* s without the elements of S.                                            *)
Without(s, S) == Subsequence(s, {i \in DOMAIN s : s[i] \notin S})

(* s itself, which TLC then evaluates only once.                           *)
Evaluated(s) == SubSeq(s, 1, Len(s))

(* External: list.sort.  Stable: equal elements keep their order.          *)
StableSort(s, Before(_, _)) ==
    LET goesFirst(i, j) == \/ Before(s[i], s[j])
                           \/ ~Before(s[j], s[i]) /\ i < j
    IN At(s, InOrder(DOMAIN s, {p \in (DOMAIN s) \X (DOMAIN s) : goesFirst(p[1], p[2])}))

(* External: groups[Key(x)].append(x) over s: the groups in the order in   *)
(* which their keys were first met (dict order), members in order.         *)
GroupBy(s, Key(_)) ==
    LET first == Ascending({i \in DOMAIN s : \A j \in 1..(i - 1) : Key(s[j]) # Key(s[i])})
    IN [g \in DOMAIN first |->
          Subsequence(s, {i \in DOMAIN s : Key(s[i]) = Key(s[first[g]])})]

(* Where the elements of several lists are: list, and place in it.         *)
Places(lists) == UNION {{i} \X DOMAIN lists[i] : i \in DOMAIN lists}

(* The sequences that hold the elements of s, each as often, in any order. *)
Reorderings(s) ==
    {[i \in DOMAIN s |-> s[p[i]]] : p \in {q \in [DOMAIN s -> DOMAIN s] : IsInjective(q)}}
=============================================================================
