------------------------------ MODULE PendingMap ------------------------------
(***************************************************************************)
(* What the pending-request index promises: a finite map from request ids  *)
(* to token sequences.  Single insertions and removals raise on misuse,    *)
(* discard and remove_many skip what is absent, insert_many is             *)
(* all-or-nothing.  PendingTree is shown to implement this specification.  *)
(***************************************************************************)
EXTENDS Naturals, Sequences, FiniteSets

CONSTANTS
    Rid,        \* request ids
    Prompts,    \* token sequences a request may carry
    Batches     \* sequences of [rid, tokens] items passed to insert_many

VARIABLES
    pending,    \* the map, a function whose domain is the set of pending rids
    ret         \* answer of the last call: [err, n]

vars == <<pending, ret>>

Ok(n)    == [err |-> "none", n |-> n]
Raise(e) == [err |-> e, n |-> 0]

(* The map without the rids in R.                                          *)
Without(R) == [r \in DOMAIN pending \ R |-> pending[r]]

Init ==
    /\ pending = [r \in {} |-> <<>>]
    /\ ret = Ok(0)

Insert(rid, tokens) ==
    IF rid \in DOMAIN pending
    THEN ret' = Raise("ValueError") /\ UNCHANGED pending
    ELSE /\ ret' = Ok(1)
         /\ pending' = [r \in DOMAIN pending \cup {rid} |->
                           IF r = rid THEN tokens ELSE pending[r]]

Remove(rid) ==
    /\ pending' = Without({rid})
    /\ ret' = IF rid \in DOMAIN pending THEN Ok(1) ELSE Raise("KeyError")

Discard(rid) ==
    /\ pending' = Without({rid})
    /\ ret' = Ok(Cardinality({rid} \cap DOMAIN pending))

InsertMany(items) ==
    LET rids == {items[i].rid : i \in 1..Len(items)}
    IN IF rids \cap DOMAIN pending # {} \/ Cardinality(rids) < Len(items)
       THEN ret' = Raise("ValueError") /\ UNCHANGED pending
       ELSE /\ ret' = Ok(Len(items))
            /\ pending' = [r \in DOMAIN pending \cup rids |->
                  IF r \in rids
                  THEN items[CHOOSE i \in 1..Len(items) : items[i].rid = r].tokens
                  ELSE pending[r]]

RemoveMany(rids) ==
    /\ pending' = Without(rids)
    /\ ret' = Ok(Cardinality(rids \cap DOMAIN pending))

Next ==
    \/ \E rid \in Rid, tokens \in Prompts : Insert(rid, tokens)
    \/ \E rid \in Rid : Remove(rid)
    \/ \E rid \in Rid : Discard(rid)
    \/ \E items \in Batches : InsertMany(items)
    \/ \E rids \in SUBSET Rid : RemoveMany(rids)

Spec == Init /\ [][Next]_vars
=============================================================================
