---------------------------- MODULE MCDelivery ----------------------------
(* One device of either protocol; a domain of the catalogue and one of the *)
(* user's own.                                                             *)
EXTENDS Delivery, TLC
CONSTANTS listed, own, c1
Category == [d \in {listed} |-> c1]
Symmetric == Permutations(Jobs) \cup Permutations(Fetches) \cup Permutations(LinkOps)

(* The bounds are spent in one of three ways: on the settings and the      *)
(* regenerations of a device that has no profile yet, on fetches of either *)
(* protocol, or on the link.                                               *)
Untouched  == edits = 0 /\ failures = 0 /\ \A d \in Catalogue : rules[d] = "none"
OnSettings == /\ protocol = "vless" /\ ops = 0 /\ fetches = 0 /\ changes = 0
              /\ edits + failures <= 3
OnFetches  == Untouched /\ ops <= 1 /\ (protocol = "vless" => gens = 0)
OnLink     == Untouched /\ Running = {} /\ gens <= 1 /\ changes = 0 /\ fetches <= 1
Focus      == OnSettings \/ OnFetches \/ OnLink
=============================================================================
