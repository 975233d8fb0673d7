----------------------------- MODULE MCDispatcher -----------------------------
(* Dispatcher for TLC: two prompts that are equal as far as the trie looks,  *)
(* one of their prefixes, and one that shares nothing with them.            *)
EXTENDS Dispatcher

CONSTANTS r1, r2, r3, r4

MCPrompt == r1 :> <<1, 1, 2>> @@ r2 :> <<1, 1, 1>> @@ r3 :> <<1>> @@ r4 :> <<2>>
=============================================================================
