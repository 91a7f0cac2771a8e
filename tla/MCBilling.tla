----------------------------- MODULE MCBilling -----------------------------
(* Two payments, of one user or of two.  Swapping the payments (together   *)
(* with their owners) and the request slots changes nothing.               *)
EXTENDS Billing, TLC
CONSTANTS p1, p2, alice, bob
SameOwner  == [p \in Payments |-> alice]
OtherOwner == [p \in Payments |-> IF p = p1 THEN alice ELSE bob]
Swap == p1 :> p2 @@ p2 :> p1 @@ alice :> bob @@ bob :> alice
Symmetric == Permutations(Requests) \cup {Swap} \cup {Swap @@ r : r \in Permutations(Requests)}
=============================================================================
