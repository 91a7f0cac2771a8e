------------------------------ MODULE VpnAgent ------------------------------
(***************************************************************************)
(* The vpn-agent service of one WireGuard node: the durable peer table     *)
(* (PeerStore), the live interface wg0, the saved wg0.conf, and the        *)
(* handlers of PeerReconciler that write the three one after the other     *)
(* with an await between any two.  Handlers of different requests          *)
(* interleave; the agent may crash and the node may reboot between any two *)
(* steps; lifespan() re-applies the enabled peers before serving.          *)
(*                                                                         *)
(* `wg-quick save` reads wg0 and later puts what it has read in the place  *)
(* of wg0.conf.  Nothing serialises the saves of two handlers, so an older *)
(* reading can replace a newer one.                                        *)
(***************************************************************************)
EXTENDS Naturals, FiniteSets

CONSTANTS
    Keys,       \* public keys generate_keypair may return
    Ips,        \* tunnel addresses
    Calls,      \* requests the backend makes (one-shot)
    NoKey, NoIp, NotPeer,
    MaxFaults   \* bound: crashes, reboots and failed commands

ASSUME KeyAssumption    == NoKey \notin Keys
ASSUME IpAssumption     == NoIp \notin Ips /\ NotPeer \notin Ips /\ NoIp # NotPeer
ASSUME FaultsAssumption == MaxFaults \in Nat

VARIABLES
    row,      \* peers.enabled of each key: "absent", "enabled" or "disabled"
    ip,       \* peers.assigned_ip of each key (NoIp before the key is minted)
    live,     \* wg0: the allowed-ips of each peer, or NotPeer
    saved,    \* wg0.conf: what wg0 is loaded from at boot
    snap,     \* what each running `wg-quick save` has read of wg0
    agent,    \* "down", "listing", "applying" or "up"
    boot,     \* the records reconcile_on_startup still has to apply
    call,     \* the requests and where their handlers are
    known,    \* keys the backend has been given
    faults,   \* faults so far
    settled,  \* history: peers whose last uncontested request put them on the node
    revoked,  \* history: peers whose last uncontested request took them off
    stale     \* history: those answered while an older reading was yet to be saved

vars == <<row, ip, live, saved, snap, agent, boot, call, known, faults, settled, revoked, stale>>

Addresses == Ips \cup {NoIp, NotPeer}
Rows      == {"absent", "enabled", "disabled"}
Renames   == {"create_rename", "delete_rename", "disable_rename", "enable_rename"}
Steps     == {"create_upsert", "create_set", "create_save",
              "delete_row", "delete_remove", "delete_save",
              "disable_get", "disable_row", "disable_remove", "disable_save",
              "enable_get", "enable_reget", "enable_row", "enable_set", "enable_save"} \cup Renames
Ends      == {"idle", "ok", "not_found", "error", "lost"}
Busy(c)   == call[c].pc \in Steps
Saving(c) == call[c].pc \in Renames

NoCall == [op |-> "none", key |-> NoKey, pc |-> "idle", solo |-> TRUE]
NoSnap == [k \in Keys |-> NotPeer]
Enabled == {k \in Keys : row[k] = "enabled"}

-----------------------------------------------------------------------------
(* `wg set` and `wg-quick save` (external).  An address routes to one      *)
(* peer: giving it to a peer takes it from the one that had it.            *)

AddOrUpdatePeer(k, a) ==
    [p \in Keys |-> IF p = k THEN a ELSE IF live[p] = a THEN NoIp ELSE live[p]]

RemovePeer(k) == [live EXCEPT ![k] = NotPeer]

-----------------------------------------------------------------------------
(* Requests.                                                               *)

FirstStep(op) == CASE op = "create"  -> "create_upsert"
                   [] op = "delete"  -> "delete_row"
                   [] op = "disable" -> "disable_get"
                   [] op = "enable"  -> "enable_get"

Start(c, op, k) ==
    /\ agent = "up" /\ call[c].pc = "idle"
    /\ call' = [x \in Calls |->
                  IF x = c
                  THEN [op |-> op, key |-> k, pc |-> FirstStep(op),
                        solo |-> \A y \in Calls : Busy(y) => call[y].key # k]
                  ELSE [call[x] EXCEPT !.solo = call[x].solo /\ call[x].key # k]]
    /\ UNCHANGED <<row, live, saved, snap, agent, boot, known, faults, stale>>

(* create_peer: a fresh keypair for the address the backend allocated. *)
CreatePeer(c, k, a) ==
    /\ ip[k] = NoIp
    /\ Start(c, "create", k)
    /\ ip' = [ip EXCEPT ![k] = a]
    /\ UNCHANGED <<settled, revoked>>

DeletePeer(c, k) ==
    /\ k \in known /\ Start(c, "delete", k)
    /\ settled' = settled \ {k} /\ UNCHANGED <<ip, revoked>>

DisablePeer(c, k) ==
    /\ k \in known /\ Start(c, "disable", k)
    /\ settled' = settled \ {k} /\ UNCHANGED <<ip, revoked>>

EnablePeer(c, k) ==
    /\ k \in known /\ Start(c, "enable", k)
    /\ revoked' = revoked \ {k} /\ UNCHANGED <<ip, settled>>

-----------------------------------------------------------------------------
(* The handlers: PeerStore first, then `wg set`, then `wg-quick save`.     *)

At(c, step) == agent = "up" /\ call[c].pc = step
Goto(c, step) == call' = [call EXCEPT ![c].pc = step]

ReadRow(c, step, found, missing) ==
    /\ At(c, step)
    /\ Goto(c, IF row[call[c].key] # "absent" THEN found ELSE missing)
    /\ UNCHANGED <<row, ip, live, saved, snap, agent, boot, known, faults, settled, revoked, stale>>

WriteRow(c, step, next, newRow) ==
    /\ At(c, step)
    /\ row' = newRow
    /\ Goto(c, next)
    /\ UNCHANGED <<ip, live, saved, snap, agent, boot, known, faults, settled, revoked, stale>>

WgSet(c, step, next, newLive) ==
    /\ At(c, step)
    /\ live' = newLive
    /\ Goto(c, next)
    /\ UNCHANGED <<row, ip, saved, snap, agent, boot, known, faults, settled, revoked, stale>>

(* set_enabled is an UPDATE: it changes nothing when the row is gone. *)
SetEnabled(k, value) ==
    IF row[k] = "absent" THEN row ELSE [row EXCEPT ![k] = value]

(* `wg-quick save` starts: it reads the interface. *)
Save(c, step, next) ==
    /\ At(c, step)
    /\ snap' = [snap EXCEPT ![c] = live]
    /\ Goto(c, next)
    /\ UNCHANGED <<row, ip, live, saved, agent, boot, known, faults, settled, revoked, stale>>

Overtaken(c) ==
    \E d \in Calls \ {c} :
        Saving(d) /\ (snap[d][call[c].key] = NotPeer) # (snap[c][call[c].key] = NotPeer)

(* It renames the file it has written to wg0.conf, and the request is      *)
(* answered.                                                               *)
Rename(c, step) ==
    LET k == call[c].key IN
    /\ At(c, step)
    /\ saved' = snap[c] /\ snap' = [snap EXCEPT ![c] = NoSnap]
    /\ Goto(c, "ok")
    /\ known' = known \cup {k}
    /\ settled' = IF call[c].solo /\ call[c].op \in {"create", "enable"}
                  THEN settled \cup {k} ELSE settled
    /\ revoked' = IF call[c].solo /\ call[c].op \in {"delete", "disable"}
                  THEN revoked \cup {k} ELSE revoked
    /\ stale' = IF ~call[c].solo THEN stale
                ELSE IF Overtaken(c) THEN stale \cup {k} ELSE stale \ {k}
    /\ UNCHANGED <<row, ip, live, agent, boot, faults>>

AddPeerUpsert(c) ==
    WriteRow(c, "create_upsert", "create_set", [row EXCEPT ![call[c].key] = "enabled"])
AddPeerSet(c) ==
    WgSet(c, "create_set", "create_save", AddOrUpdatePeer(call[c].key, ip[call[c].key]))
AddPeerSave(c) == Save(c, "create_save", "create_rename")
AddPeerRename(c) == Rename(c, "create_rename")

RemovePeerRow(c) ==
    WriteRow(c, "delete_row", "delete_remove", [row EXCEPT ![call[c].key] = "absent"])
RemovePeerLive(c) == WgSet(c, "delete_remove", "delete_save", RemovePeer(call[c].key))
RemovePeerSave(c) == Save(c, "delete_save", "delete_rename")
RemovePeerRename(c) == Rename(c, "delete_rename")

DisablePeerGet(c) == ReadRow(c, "disable_get", "disable_row", "not_found")
DisablePeerRow(c) ==
    WriteRow(c, "disable_row", "disable_remove", SetEnabled(call[c].key, "disabled"))
DisablePeerLive(c) == WgSet(c, "disable_remove", "disable_save", RemovePeer(call[c].key))

(* Mutant: disabling forgets `wg-quick save`. *)
DisablePeerNotSaved(c) ==
    /\ At(c, "disable_save")
    /\ Goto(c, "ok")
    /\ revoked' = IF call[c].solo THEN revoked \cup {call[c].key} ELSE revoked
    /\ UNCHANGED <<row, ip, live, saved, snap, agent, boot, known, faults, settled, stale>>

DisablePeerSave(c) == Save(c, "disable_save", "disable_rename")
DisablePeerRename(c) == Rename(c, "disable_rename")

EnablePeerGet(c) == ReadRow(c, "enable_get", "enable_reget", "not_found")
EnablePeerReget(c) == ReadRow(c, "enable_reget", "enable_row", "ok")

(* Mutant: enabling reaches the interface but not the table. *)
EnablePeerRowKept(c) == WriteRow(c, "enable_row", "enable_set", row)

EnablePeerRow(c) ==
    WriteRow(c, "enable_row", "enable_set", SetEnabled(call[c].key, "enabled"))
EnablePeerSet(c) ==
    WgSet(c, "enable_set", "enable_save", AddOrUpdatePeer(call[c].key, ip[call[c].key]))
EnablePeerSave(c) == Save(c, "enable_save", "enable_rename")
EnablePeerRename(c) == Rename(c, "enable_rename")

(* Mutant: a failed command parks the request where no handler resumes it. *)
CommandFailsParked(c) ==
    /\ agent = "up" /\ faults < MaxFaults
    /\ call[c].pc \in {"create_set", "delete_remove", "disable_remove", "enable_set"}
    /\ faults' = faults + 1
    /\ Goto(c, "retry")
    /\ UNCHANGED <<row, ip, live, saved, snap, agent, boot, known, settled, revoked, stale>>

(* WireGuardCommandError is not caught: 500, and nothing is undone. *)
CommandFails(c) ==
    /\ agent = "up" /\ faults < MaxFaults
    /\ call[c].pc \in {"create_set", "create_save", "delete_remove", "delete_save",
                       "disable_remove", "disable_save", "enable_set", "enable_save"} \cup Renames
    /\ faults' = faults + 1 /\ snap' = [snap EXCEPT ![c] = NoSnap]
    /\ Goto(c, "error")
    /\ UNCHANGED <<row, ip, live, saved, agent, boot, known, settled, revoked, stale>>

-----------------------------------------------------------------------------
(* reconcile_on_startup, before the first request is served.               *)

(* Mutant: the query of the startup pass has no WHERE. *)
ListEnabledOrNot ==
    /\ agent = "listing"
    /\ agent' = "applying" /\ boot' = {k \in Keys : row[k] # "absent"}
    /\ UNCHANGED <<row, ip, live, saved, snap, call, known, faults, settled, revoked, stale>>

ListEnabled ==
    /\ agent = "listing"
    /\ agent' = "applying" /\ boot' = Enabled
    /\ UNCHANGED <<row, ip, live, saved, snap, call, known, faults, settled, revoked, stale>>

(* Mutant: the loop skips the peers wg0.conf already brought back, even    *)
(* those that lost their address.                                          *)
ReapplyUnlessPresent(k) ==
    /\ agent = "applying" /\ k \in boot
    /\ live' = IF live[k] = NotPeer THEN AddOrUpdatePeer(k, ip[k]) ELSE live
    /\ boot' = boot \ {k}
    /\ UNCHANGED <<row, ip, saved, snap, agent, call, known, faults, settled, revoked, stale>>

Reapply(k) ==
    /\ agent = "applying" /\ k \in boot
    /\ live' = AddOrUpdatePeer(k, ip[k])
    /\ boot' = boot \ {k}
    /\ UNCHANGED <<row, ip, saved, snap, agent, call, known, faults, settled, revoked, stale>>

ReapplyFails ==
    /\ agent = "applying" /\ boot # {} /\ faults < MaxFaults
    /\ agent' = "down" /\ boot' = {} /\ faults' = faults + 1
    /\ UNCHANGED <<row, ip, live, saved, snap, call, known, settled, revoked, stale>>

Serve ==
    /\ agent = "applying" /\ boot = {}
    /\ agent' = "up"
    /\ UNCHANGED <<row, ip, live, saved, snap, boot, call, known, faults, settled, revoked, stale>>

-----------------------------------------------------------------------------
(* Failures.  The table survives both; the interface survives the agent;   *)
(* after a reboot wg0 is what wg0.conf says (SaveConfig = true also saves  *)
(* it when the shutdown is clean).  A running `wg-quick save` is killed    *)
(* with the agent: systemd stops the whole control group.                  *)

Lose == /\ call' = [c \in Calls |-> IF Busy(c) THEN [call[c] EXCEPT !.pc = "lost"] ELSE call[c]]
        /\ snap' = [c \in Calls |-> NoSnap]

AgentCrash ==
    /\ agent # "down" /\ faults < MaxFaults
    /\ agent' = "down" /\ boot' = {} /\ Lose /\ faults' = faults + 1
    /\ UNCHANGED <<row, ip, live, saved, known, settled, revoked, stale>>

Reboot(conf) ==
    /\ faults < MaxFaults
    /\ agent' = "down" /\ boot' = {} /\ Lose /\ faults' = faults + 1
    /\ saved' = conf /\ live' = conf
    /\ UNCHANGED <<row, ip, known, settled, revoked, stale>>

AgentStart ==
    /\ agent = "down" /\ agent' = "listing"
    /\ UNCHANGED <<row, ip, live, saved, snap, boot, call, known, faults, settled, revoked, stale>>

-----------------------------------------------------------------------------
Init ==
    /\ row = [k \in Keys |-> "absent"] /\ ip = [k \in Keys |-> NoIp]
    /\ live = [k \in Keys |-> NotPeer] /\ saved = [k \in Keys |-> NotPeer]
    /\ agent = "listing" /\ boot = {} /\ faults = 0
    /\ call = [c \in Calls |-> NoCall] /\ snap = [c \in Calls |-> NoSnap]
    /\ known = {} /\ settled = {} /\ revoked = {} /\ stale = {}

Request ==
    \/ \E c \in Calls, k \in Keys, a \in Ips : CreatePeer(c, k, a)
    \/ \E c \in Calls, k \in Keys : DeletePeer(c, k)
    \/ \E c \in Calls, k \in Keys : DisablePeer(c, k)
    \/ \E c \in Calls, k \in Keys : EnablePeer(c, k)

Handle(c) ==
    \/ AddPeerUpsert(c) \/ AddPeerSet(c) \/ AddPeerSave(c) \/ AddPeerRename(c)
    \/ RemovePeerRow(c) \/ RemovePeerLive(c) \/ RemovePeerSave(c) \/ RemovePeerRename(c)
    \/ DisablePeerGet(c) \/ DisablePeerRow(c) \/ DisablePeerLive(c) \/ DisablePeerSave(c)
    \/ DisablePeerRename(c)
    \/ EnablePeerGet(c) \/ EnablePeerReget(c) \/ EnablePeerRow(c) \/ EnablePeerSet(c)
    \/ EnablePeerSave(c) \/ EnablePeerRename(c)
    \/ CommandFails(c)

Startup == ListEnabled \/ (\E k \in Keys : Reapply(k)) \/ ReapplyFails \/ Serve

Next ==
    \/ Request
    \/ \E c \in Calls : Handle(c)
    \/ Startup
    \/ AgentCrash \/ Reboot(saved) \/ Reboot(live) \/ AgentStart

Spec == Init /\ [][Next]_vars

-----------------------------------------------------------------------------
(* Properties. *)

(* The table, the interface, the saved file and the handlers keep their    *)
(* types.                                                                  *)
TypeOK ==
    /\ row \in [Keys -> Rows] /\ ip \in [Keys -> Ips \cup {NoIp}]
    /\ live \in [Keys -> Addresses] /\ saved \in [Keys -> Addresses]
    /\ snap \in [Calls -> [Keys -> Addresses]]
    /\ agent \in {"down", "listing", "applying", "up"}
    /\ boot \in SUBSET Keys
    /\ call \in [Calls -> [op : {"none", "create", "delete", "disable", "enable"},
                           key : Keys \cup {NoKey}, pc : Steps \cup Ends, solo : BOOLEAN]]
    /\ known \in SUBSET Keys /\ faults \in 0 .. MaxFaults
    /\ settled \in SUBSET Keys /\ revoked \in SUBSET Keys /\ stale \in SUBSET Keys

(* A disable or delete that was answered 204, with no other request for    *)
(* the same peer meanwhile, keeps the peer out of what a startup pass      *)
(* applies, off the interface and out of wg0.conf, whatever other peers'   *)
(* requests, crashes, reboots and passes follow, until an enable is        *)
(* requested; the last two unless an older reading of the interface, which *)
(* still had the peer, was then yet to be saved.                           *)
RevokedPeerStaysOff ==
    \A k \in revoked : /\ row[k] # "enabled"
                       /\ k \notin stale => live[k] = NotPeer /\ saved[k] = NotPeer

Uncontested(k) == \A p \in Keys \ {k} : ip[p] # ip[k]

(* A create or enable that was answered keeps its peer enabled in the      *)
(* table; and, while the backend has handed its address to no other key,   *)
(* the peer is routed to that address whenever the agent serves, even when *)
(* a later save puts an older wg0.conf in place and the node reboots.      *)
(* Without such a save wg0 and wg0.conf have it all along.                 *)
SettledPeerStaysOn ==
    \A k \in settled :
        /\ row[k] = "enabled"
        /\ Uncontested(k) => /\ agent = "up" => live[k] = ip[k]
                             /\ k \notin stale => live[k] = ip[k] /\ saved[k] = ip[k]

(* What docs/wireguard.md says of a revocation ("Peer removed from `wg0`   *)
(* and forgotten entirely") and save_config of itself ("so it survives a   *)
(* reboot"): a peer whose removal was answered is not routed.              *)
RemovalSurvivesReboot == \A k \in revoked : live[k] \notin Ips

(* No address is routed to two peers (WireGuard moves it), so when the     *)
(* agent starts serving every enabled peer is on the interface, and every  *)
(* one whose address is its own among the enabled peers has it back, even  *)
(* if another key had taken the address before.                            *)
StartupReapplies ==
    (agent = "applying" /\ boot = {}) =>
        \A k \in Enabled : /\ live[k] # NotPeer
                           /\ (\A p \in Enabled \ {k} : ip[p] # ip[k]) => live[k] = ip[k]

(* The node implements PeerAccess: a table, an interface and a saved file  *)
(* written one after the other, and a startup pass, amount to one set of   *)
(* peers in which those with an answered request stay as answered.         *)
Access == INSTANCE PeerAccess WITH
    access    <- [k \in Keys |-> IF k \in revoked THEN "off"
                                 ELSE IF k \in settled THEN "on" ELSE "open"],
    reachable <- {k \in Keys : live[k] # NotPeer},
    unsaved   <- stale,
    serving   <- (agent = "up")

ImplementsPeerAccess == Access!Spec
=============================================================================
