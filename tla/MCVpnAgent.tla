----------------------------- MODULE MCVpnAgent -----------------------------
(* Keys, addresses and requests are interchangeable. *)
EXTENDS VpnAgent, TLC
Symmetric == Permutations(Keys) \cup Permutations(Ips) \cup Permutations(Calls)
=============================================================================
