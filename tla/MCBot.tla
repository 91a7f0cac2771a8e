------------------------------- MODULE MCBot -------------------------------
(* One device of each protocol and a chat of two messages. *)
EXTENDS Bot, TLC
CONSTANTS w1, v1
Symmetric == Permutations(Messages)
=============================================================================
