------------------------------ MODULE MCDevices ------------------------------
(* Two WireGuard devices and a VLESS one, on a network of a few addresses. *)
EXTENDS Devices, TLC
CONSTANTS w1, w2, v1
Symmetric == Permutations({w1, w2}) \cup Permutations(Keys) \cup Permutations(Requests)
=============================================================================
