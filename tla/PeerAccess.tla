----------------------------- MODULE PeerAccess -----------------------------
(***************************************************************************)
(* What the backend may rely on from a WireGuard node.  A peer whose last  *)
(* request was answered is on the interface, or off it, and stays there    *)
(* until somebody asks for the opposite; in between, whatever crashes and  *)
(* reboots leave, it may be either.  Some answers are not safe against a   *)
(* reboot: those peers may come back as they were before.  The ones that   *)
(* should be on are on again before the node serves; the ones that should  *)
(* be off are not taken off again.  VpnAgent implements it.                *)
(***************************************************************************)
CONSTANT Keys

VARIABLES
    access,     \* access[k]: "on" or "off" once it was answered, "open" before
    reachable,  \* the peers on the interface
    unsaved,    \* peers whose answer a reboot may undo
    serving     \* the node takes requests

vars == <<access, reachable, unsaved, serving>>

Init == /\ access = [k \in Keys |-> "open"] /\ reachable = {}
        /\ unsaved = {} /\ serving = FALSE

(* A request for the opposite arrives. *)
Ask(k) == /\ serving /\ access[k] # "open"
          /\ access' = [access EXCEPT ![k] = "open"]
          /\ UNCHANGED <<reachable, unsaved, serving>>

(* The request is answered: it has been carried out. *)
Acknowledge(k, end) == /\ serving
                       /\ access[k] \in {"open", end} /\ (end = "on") = (k \in reachable)
                       /\ access' = [access EXCEPT ![k] = end]
                       /\ unsaved' \in {unsaved \cup {k}, unsaved \ {k}}
                       /\ UNCHANGED <<reachable, serving>>

(* Handlers and the startup pass move peers nobody was answered about, and *)
(* the others only to where they should be.                                *)
Move == /\ reachable' \in SUBSET Keys
        /\ \A k \in Keys : /\ access[k] = "on"  /\ k \in reachable => k \in reachable'
                           /\ access[k] = "off" /\ k \notin reachable => k \notin reachable'
        /\ UNCHANGED <<access, unsaved, serving>>

(* The agent or the node stops. *)
Stop == /\ serving' = FALSE /\ reachable' \in SUBSET Keys
        /\ \A k \in Keys \ unsaved :
              access[k] # "open" => (k \in reachable') = (k \in reachable)
        /\ UNCHANGED <<access, unsaved>>

Serve == /\ ~serving /\ serving' = TRUE
         /\ \A k \in Keys : access[k] = "on" => k \in reachable
         /\ UNCHANGED <<access, reachable, unsaved>>

Next == \/ \E k \in Keys : Ask(k) \/ Acknowledge(k, "on") \/ Acknowledge(k, "off")
        \/ Move \/ Stop \/ Serve

Spec == Init /\ [][Next]_vars
=============================================================================
