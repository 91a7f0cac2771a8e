------------------------------ MODULE MCAdmin ------------------------------
(* Two tabs; a fresh installation, or one with a superadmin and an active  *)
(* user with an open ticket.  The script may add the second account.       *)
EXTENDS Admin, TLC
Fresh == [admins |-> [a \in Admins |-> "none"], user |-> "none", ticket |-> "none"]
FreshOnly == {Fresh}
InUse == {[admins |-> [a \in Admins |-> IF a = b THEN "superadmin" ELSE "none"],
           user |-> "active", ticket |-> "open"] : b \in Admins}
Installations == {Fresh} \cup InUse
Symmetric == Permutations(Admins) \cup Permutations(Tabs) \cup Permutations(Requests)

(* The sign-ins and the writes are not both used up. *)
Focus == Len(owner) + writes <= 3
=============================================================================
