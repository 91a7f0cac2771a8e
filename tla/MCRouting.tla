----------------------------- MODULE MCRouting -----------------------------
(* A domain of the catalogue and one of the user's own. *)
EXTENDS Routing, TLC
CONSTANTS listed, own, c1
Category == [d \in {listed} |-> c1]
=============================================================================
