------------------------------ MODULE Devices ------------------------------
(***************************************************************************)
(* DeviceService: the devices of one user, their WireGuard peers and VLESS *)
(* credentials, and what the nodes carry.  A request calls an agent in the *)
(* middle of its database transaction; what it has told the agent stays    *)
(* when the transaction is rolled back.  The expiry sweep disables every   *)
(* active device of the user in one transaction.                           *)
(*                                                                         *)
(* One WireGuard and one VLESS server.  A key stands for a WireGuard public *)
(* key or a VLESS uuid, and its row for one of vpn_peers or                *)
(* vless_credentials.  An agent call is one step here; VpnAgent and        *)
(* XrayAgent model what happens inside it.                                 *)
(***************************************************************************)
EXTENDS Naturals, FiniteSets

CONSTANTS
    Devices, NoDevice,
    Vless,          \* the devices of protocol VLESS
    Keys, NoKey,
    Ips,            \* host addresses of the server's network (0 is none)
    Requests,       \* request slots: transactions open at once
    DeviceLimit,    \* plan.max_devices
    MaxIpAttempts,  \* _MAX_IP_ALLOCATION_ATTEMPTS
    MaxStarts,      \* bound: requests, sweeps and renewals
    MaxFaults       \* bound: agent calls that fail

ASSUME DeviceAssumption == Vless \subseteq Devices /\ NoDevice \notin Devices
ASSUME KeyAssumption    == NoKey \notin Keys
ASSUME NumberAssumption == /\ Ips \subseteq Nat \ {0} /\ DeviceLimit \in Nat
                           /\ MaxIpAttempts \in Nat \ {0}
                           /\ MaxStarts \in Nat /\ MaxFaults \in Nat

VARIABLES
    sub,        \* whether the user's subscription is "active" or "expired"
    dev,        \* devices.status
    cred,       \* committed vpn_peers and vless_credentials: status and address
    load,       \* vpn_servers.current_load of each protocol's server
    owner,      \* the device each key was minted for
    peer,       \* the nodes: each key "absent", "off" (kept by vpn-agent) or "on"
    route,      \* wg0: the key each address is routed to
    tx,         \* the open requests
    sweep,      \* the expiry sweep
    starts, faults,
    disturbed,  \* history: devices whose requests overlapped, failed half-way,
                \*          or were reissued while not active
    contested,  \* history: addresses two requests have both used
    relaxed,    \* history: a device was re-enabled, or two provisions overlapped
    lapsed      \* history: a sweep ran alone and nothing was asked for since

rows    == <<sub, dev, cred, load>>
net     == <<peer, route>>
history == <<disturbed, contested, relaxed, lapsed>>
vars    == <<rows, owner, net, tx, sweep, starts, faults, history>>

Protocols   == {"wireguard", "vless"}
Protocol(d) == IF d \in Vless THEN "vless" ELSE "wireguard"
DevStatus   == {"none", "active", "disabled", "revoked"}
Ops         == {"provision", "reissue", "disable", "enable", "revoke"}
CallSteps   == {"create", "cleanup", "delete_old", "agent"}
Steps       == CallSteps \cup {"allocate", "insert", "commit"}

NoTx == [pc |-> "none", op |-> "none", dev |-> NoDevice, seen |-> "none", old |-> NoKey,
         new |-> NoKey, ip |-> 0, attempt |-> 1, load |-> 0]
NoSweep == [pc |-> "idle", todo |-> {}, done |-> {}, keys |-> {}, alone |-> TRUE]

Open(t)       == tx[t].pc # "none"
On(d)         == {t \in Requests : tx[t].dev = d}
KeysOf(d, s)  == {k \in Keys : owner[k] = d /\ cred[k].status = s}
Active        == {d \in Devices : dev[d] = "active"}
TakenIps      == {cred[k].ip : k \in {x \in Keys : cred[x].status # "none"}}
Fresh         == {k \in Keys : owner[k] = NoDevice}

-----------------------------------------------------------------------------
(* The agents.  Giving an address to a key takes it from the one that had  *)
(* it; a removed key loses its address.                                    *)

Put(k, ip)   == /\ peer' = [peer EXCEPT ![k] = "on"]
                /\ route' = IF ip = 0 THEN route ELSE [route EXCEPT ![ip] = k]
Take(k, how) == /\ peer' = [peer EXCEPT ![k] = how]
                /\ route' = [i \in Ips |-> IF route[i] = k THEN NoKey ELSE route[i]]

(* vpn-agent keeps a disabled peer; xray-agent has no such state. *)
Paused(d) == IF d \in Vless THEN "absent" ELSE "off"

(* The call a request is about to make. *)
Apply(t) ==
    LET r == tx[t] IN
    CASE r.pc = "create"     -> Put(r.new, r.ip)
      [] r.pc = "cleanup"    -> Take(r.new, "absent")
      [] r.pc = "delete_old" -> Take(r.old, "absent")
      [] r.pc = "agent"      -> CASE r.op = "enable"  -> Put(r.old, cred[r.old].ip)
                                  [] r.op = "disable" -> Take(r.old, Paused(r.dev))
                                  [] r.op = "revoke"  -> Take(r.old, "absent")

(* POST /peers/disable and /peers/enable answer 404 for an unknown peer. *)
Accepted(t) == ~ (/\ tx[t].pc = "agent" /\ tx[t].op \in {"enable", "disable"}
                  /\ tx[t].dev \notin Vless /\ peer[tx[t].old] = "absent")

-----------------------------------------------------------------------------
(* Requests begin.                                                         *)

Begin(t, d, record) ==
    /\ ~Open(t) /\ starts < MaxStarts
    /\ starts' = starts + 1
    /\ tx' = [tx EXCEPT ![t] = record]
    /\ disturbed' = IF \/ On(d) # {} \/ d \in sweep.todo \cup sweep.done
                       \/ record.op = "reissue" /\ dev[d] # "active"
                    THEN disturbed \cup {d} ELSE disturbed
    /\ relaxed' = \/ relaxed \/ record.op = "enable"
                  \/ record.op = "provision" /\ \E x \in Requests : tx[x].op = "provision"
    /\ sweep' = [sweep EXCEPT !.alone = FALSE]
    /\ lapsed' = FALSE
    /\ UNCHANGED <<rows, net, faults, contested>>

(* Mutant: the limit is compared with <=. *)
WithinDeviceLimitOffByOne == sub = "active" /\ Cardinality(Active) <= DeviceLimit

WithinDeviceLimit == sub = "active" /\ Cardinality(Active) < DeviceLimit

(* provision: the limit, the server, the device row. *)
Provision(t, d) ==
    /\ dev[d] = "none" /\ On(d) = {} /\ d \notin Vless
    /\ \A k \in Keys : owner[k] # d
    /\ WithinDeviceLimit
    /\ Begin(t, d, [NoTx EXCEPT !.pc = "allocate", !.op = "provision", !.dev = d,
                                !.load = load["wireguard"] + 1])
    /\ UNCHANGED owner

ProvisionVless(t, d, k) ==
    /\ dev[d] = "none" /\ On(d) = {} /\ d \in Vless /\ k \in Fresh
    /\ \A x \in Keys : owner[x] # d
    /\ WithinDeviceLimit
    /\ Begin(t, d, [NoTx EXCEPT !.pc = "create", !.op = "provision", !.dev = d, !.new = k,
                                !.load = load["vless"] + 1])
    /\ owner' = [owner EXCEPT ![k] = d]

(* The credential a request acts on: the active one (any of them, where    *)
(* overlapping reissues left two and the code takes the newest), or for    *)
(* enabling a VLESS device the disabled one.                               *)
Subject(d, op) ==
    LET ks == KeysOf(d, IF op = "enable" /\ d \in Vless THEN "disabled" ELSE "active")
    IN  IF ks = {} THEN {NoKey} ELSE ks

(* Mutant: current_load without max(0, ...). *)
LoweredBelowZero(n) == n - 1

Lowered(n) == IF n = 0 THEN 0 ELSE n - 1

(* disable, enable, revoke and reissue find the device by id, whatever its *)
(* status; without a credential there is no call to make.                  *)
Change(t, d, op) ==
    /\ dev[d] # "none" /\ (op = "reissue" => d \notin Vless)
    /\ \E k \in Subject(d, op) :
         Begin(t, d, [NoTx EXCEPT !.op = op, !.dev = d, !.seen = dev[d], !.old = k,
                        !.pc = IF k = NoKey THEN IF op = "reissue" THEN "allocate" ELSE "commit"
                               ELSE IF op = "reissue" THEN "delete_old" ELSE "agent",
                        !.load = IF op = "revoke" /\ k # NoKey
                                 THEN Lowered(load[Protocol(d)]) ELSE 0])
    /\ UNCHANGED owner

-----------------------------------------------------------------------------
(* Requests go on.                                                         *)

Goto(t, step) == tx' = [tx EXCEPT ![t].pc = step]

Call(t, step, next) ==
    /\ tx[t].pc = step /\ Accepted(t)
    /\ Apply(t)
    /\ Goto(t, next)
    /\ UNCHANGED <<rows, owner, sweep, starts, faults, history>>

(* Another request has the same address, or a row has taken it since. *)
Contest(t) ==
    LET ip == tx[t].ip IN
    contested' = IF /\ tx[t].pc = "create" /\ ip # 0
                    /\ ip \in TakenIps \/ \E x \in Requests \ {t} : tx[x].ip = ip
                 THEN contested \cup {ip} ELSE contested

(* Rollback: rows are as before, the nodes are not. *)
Fail(t) ==
    /\ tx' = [tx EXCEPT ![t] = NoTx]
    /\ disturbed' = disturbed \cup {tx[t].dev}
    /\ Contest(t)
    /\ UNCHANGED <<rows, owner, sweep, starts, relaxed, lapsed>>

DeleteOldPeer(t) == Call(t, "delete_old", "allocate")

(* allocate_ip: the lowest address no row has, revoked ones included. *)
AllocateIp(t, k) ==
    /\ tx[t].pc = "allocate" /\ k \in Fresh
    /\ \E ip \in Ips \ TakenIps :
          /\ \A free \in Ips \ TakenIps : ip <= free
          /\ tx' = [tx EXCEPT ![t].pc = "create", ![t].ip = ip, ![t].new = k]
    /\ owner' = [owner EXCEPT ![k] = tx[t].dev]
    /\ UNCHANGED <<rows, net, sweep, starts, faults, history>>

PoolExhausted(t) ==
    /\ tx[t].pc = "allocate" /\ Ips \subseteq TakenIps
    /\ Fail(t) /\ UNCHANGED <<net, faults>>

(* create_peer, or create_user for a VLESS device. *)
CreatePeer(t) ==
    /\ tx[t].pc = "create"
    /\ Apply(t)
    /\ Goto(t, IF tx[t].dev \in Vless THEN "commit" ELSE "insert")
    /\ Contest(t)
    /\ UNCHANGED <<rows, owner, sweep, starts, faults, disturbed, relaxed, lapsed>>

(* The unique constraint: the insert waits for an uncommitted row with the *)
(* same address and fails if that row, or an earlier one, is committed.    *)
InsertPeer(t) ==
    /\ tx[t].pc = "insert"
    /\ \A x \in Requests \ {t} : ~ (tx[x].pc = "commit" /\ tx[x].ip = tx[t].ip)
    /\ Goto(t, IF tx[t].ip \in TakenIps THEN "cleanup" ELSE "commit")
    /\ UNCHANGED <<rows, owner, net, sweep, starts, faults, history>>

(* Mutant: the loser's peer is left on the agent. *)
CleanupSkipped(t) ==
    /\ tx[t].pc = "cleanup" /\ tx[t].attempt < MaxIpAttempts
    /\ tx' = [tx EXCEPT ![t].pc = "allocate", ![t].attempt = tx[t].attempt + 1,
                        ![t].new = NoKey, ![t].ip = 0]
    /\ UNCHANGED <<rows, owner, net, sweep, starts, faults, history>>

(* The loser deletes its peer and tries again, a bounded number of times. *)
Cleanup(t) ==
    /\ tx[t].pc = "cleanup"
    /\ Apply(t)
    /\ \/ /\ tx[t].attempt < MaxIpAttempts
          /\ tx' = [tx EXCEPT ![t].pc = "allocate", ![t].attempt = tx[t].attempt + 1,
                              ![t].new = NoKey, ![t].ip = 0]
          /\ UNCHANGED <<rows, owner, sweep, starts, faults, history>>
       \/ tx[t].attempt = MaxIpAttempts /\ Fail(t) /\ UNCHANGED faults

ChangePeer(t) == Call(t, "agent", "commit")

AgentFails(t) ==
    /\ tx[t].pc \in CallSteps
    /\ \/ ~Accepted(t) /\ UNCHANGED <<net, faults>>
       \/ /\ faults < MaxFaults /\ faults' = faults + 1
          /\ UNCHANGED net \/ Apply(t)
    /\ Fail(t)

(* regenerate_profile or the commit itself fails. *)
CommitFails(t) ==
    /\ tx[t].pc = "commit" /\ faults < MaxFaults
    /\ faults' = faults + 1 /\ UNCHANGED net
    /\ Fail(t)

-----------------------------------------------------------------------------
(* Commit: the attributes that changed.                                    *)

SetStatus(r, s) == IF r.seen = s THEN dev ELSE [dev EXCEPT ![r.dev] = s]
Mark(k, s)      == IF k = NoKey THEN cred ELSE [cred EXCEPT ![k].status = s]
WithNew(c, r)   == [c EXCEPT ![r.new] = [status |-> "active", ip |-> r.ip]]

CommitProvision(r) ==
    /\ dev' = [dev EXCEPT ![r.dev] = "active"]
    /\ cred' = WithNew(cred, r)
    /\ load' = [load EXCEPT ![Protocol(r.dev)] = r.load]

(* Mutant: the replaced peer stays active in its row. *)
CommitReissueKeepsOld(r) ==
    /\ cred' = WithNew(cred, r)
    /\ UNCHANGED <<dev, load>>

CommitReissue(r) ==
    /\ cred' = WithNew(Mark(r.old, "revoked"), r)
    /\ UNCHANGED <<dev, load>>

CommitDisable(r) ==
    /\ dev' = SetStatus(r, "disabled")
    /\ cred' = IF r.dev \in Vless THEN Mark(r.old, "disabled") ELSE cred
    /\ UNCHANGED load

CommitEnable(r) ==
    /\ dev' = SetStatus(r, "active")
    /\ cred' = IF r.dev \in Vless THEN Mark(r.old, "active") ELSE cred
    /\ UNCHANGED load

CommitRevoke(r) ==
    /\ dev' = SetStatus(r, "revoked")
    /\ cred' = Mark(r.old, "revoked")
    /\ load' = IF r.old = NoKey THEN load
               ELSE [load EXCEPT ![Protocol(r.dev)] = r.load]

Commit(t) ==
    LET r == tx[t] IN
    /\ r.pc = "commit"
    /\ \/ r.op = "provision" /\ CommitProvision(r)
       \/ r.op = "reissue" /\ CommitReissue(r)
       \/ r.op = "disable" /\ CommitDisable(r)
       \/ r.op = "enable" /\ CommitEnable(r)
       \/ r.op = "revoke" /\ CommitRevoke(r)
    /\ tx' = [tx EXCEPT ![t] = NoTx]
    /\ UNCHANGED <<sub, owner, net, sweep, starts, faults, history>>

-----------------------------------------------------------------------------
(* The expiry sweep, and the renewal that lets the user in again.          *)

SweepStart ==
    /\ sweep.pc = "idle" /\ sub = "active" /\ starts < MaxStarts
    /\ starts' = starts + 1
    /\ sweep' = [pc |-> "disable", todo |-> Active, done |-> {}, keys |-> {},
                 alone |-> \A t \in Requests : ~Open(t)]
    /\ disturbed' = disturbed \cup {d \in Active : On(d) # {}}
    /\ UNCHANGED <<rows, owner, net, tx, faults, contested, relaxed, lapsed>>

(* Mutant: the sweep passes VLESS devices by. *)
SweepDisableWireguardOnly(d) ==
    /\ sweep.pc = "disable" /\ d \in sweep.todo
    /\ LET ks == IF d \in Vless THEN {} ELSE KeysOf(d, "active") IN
       /\ \/ ks = {} /\ UNCHANGED net
          \/ \E k \in ks : Take(k, "off")
       /\ sweep' = [sweep EXCEPT !.todo = sweep.todo \ {d}, !.done = sweep.done \cup {d}]
    /\ UNCHANGED <<rows, owner, tx, starts, faults, history>>

SweepDisable(d) ==
    /\ sweep.pc = "disable" /\ d \in sweep.todo
    /\ \E k \in Subject(d, "disable") :
         /\ \/ k = NoKey /\ UNCHANGED net
            \/ k # NoKey /\ (d \in Vless \/ peer[k] # "absent") /\ Take(k, Paused(d))
         /\ sweep' = [sweep EXCEPT !.todo = sweep.todo \ {d}, !.done = sweep.done \cup {d},
                                   !.keys = sweep.keys \cup ({k} \cap Keys)]
    /\ UNCHANGED <<rows, owner, tx, starts, faults, history>>

SweepCommit ==
    /\ sweep.pc = "disable" /\ sweep.todo = {}
    /\ sub' = "expired"
    /\ dev' = [d \in Devices |-> IF d \in sweep.done THEN "disabled" ELSE dev[d]]
    /\ cred' = [k \in Keys |-> IF k \in sweep.keys /\ owner[k] \in Vless
                               THEN [cred[k] EXCEPT !.status = "disabled"] ELSE cred[k]]
    /\ lapsed' = sweep.alone
    /\ sweep' = NoSweep
    /\ UNCHANGED <<load, owner, net, tx, starts, faults, disturbed, contested, relaxed>>

(* One agent that does not answer, or no longer knows the peer, of this    *)
(* user or of a later one, undoes the rows of all and the calls of none.   *)
SweepFails ==
    /\ sweep.pc = "disable"
    /\ \/ /\ \E d \in sweep.todo \ Vless : \E k \in KeysOf(d, "active") : peer[k] = "absent"
          /\ UNCHANGED faults
       \/ faults < MaxFaults /\ faults' = faults + 1
    /\ disturbed' = disturbed \cup sweep.done
    /\ sweep' = NoSweep
    /\ UNCHANGED <<rows, owner, net, tx, starts, contested, relaxed, lapsed>>

Renew ==
    /\ sub = "expired" /\ sweep.pc = "idle" /\ starts < MaxStarts
    /\ starts' = starts + 1 /\ sub' = "active" /\ lapsed' = FALSE
    /\ UNCHANGED <<dev, cred, load, owner, net, tx, sweep, faults, disturbed, contested, relaxed>>

-----------------------------------------------------------------------------
Init ==
    /\ sub = "active" /\ dev = [d \in Devices |-> "none"]
    /\ cred = [k \in Keys |-> [status |-> "none", ip |-> 0]]
    /\ load = [p \in Protocols |-> 0] /\ owner = [k \in Keys |-> NoDevice]
    /\ peer = [k \in Keys |-> "absent"] /\ route = [i \in Ips |-> NoKey]
    /\ tx = [t \in Requests |-> NoTx] /\ sweep = NoSweep
    /\ starts = 0 /\ faults = 0
    /\ disturbed = {} /\ contested = {} /\ relaxed = FALSE /\ lapsed = FALSE

Request ==
    \/ \E t \in Requests, d \in Devices : Provision(t, d)
    \/ \E t \in Requests, d \in Devices, k \in Keys : ProvisionVless(t, d, k)
    \/ \E t \in Requests, d \in Devices, op \in Ops \ {"provision"} : Change(t, d, op)

Step(t) ==
    \/ DeleteOldPeer(t) \/ (\E k \in Keys : AllocateIp(t, k)) \/ PoolExhausted(t)
    \/ CreatePeer(t) \/ InsertPeer(t) \/ Cleanup(t) \/ ChangePeer(t)
    \/ AgentFails(t) \/ CommitFails(t) \/ Commit(t)

Sweep == SweepStart \/ (\E d \in Devices : SweepDisable(d)) \/ SweepCommit \/ SweepFails

Next == Request \/ (\E t \in Requests : Step(t)) \/ Sweep \/ Renew

Spec == Init /\ [][Next]_vars

-----------------------------------------------------------------------------
(* Properties. *)

(* Rows, nodes, requests and the sweep keep their types. *)
TypeOK ==
    /\ sub \in {"active", "expired"} /\ dev \in [Devices -> DevStatus]
    /\ cred \in [Keys -> [status : DevStatus, ip : Ips \cup {0}]]
    /\ load \in [Protocols -> 0 .. MaxStarts]
    /\ owner \in [Keys -> Devices \cup {NoDevice}]
    /\ peer \in [Keys -> {"absent", "off", "on"}] /\ route \in [Ips -> Keys \cup {NoKey}]
    /\ tx \in [Requests -> [pc : Steps \cup {"none"}, op : Ops \cup {"none"},
                            dev : Devices \cup {NoDevice}, seen : DevStatus,
                            old : Keys \cup {NoKey}, new : Keys \cup {NoKey},
                            ip : Ips \cup {0}, attempt : 1 .. MaxIpAttempts,
                            load : 0 .. MaxStarts]]
    /\ sweep \in [pc : {"idle", "disable"}, todo : SUBSET Devices, done : SUBSET Devices,
                  keys : SUBSET Keys, alone : BOOLEAN]
    /\ starts \in 0 .. MaxStarts /\ faults \in 0 .. MaxFaults
    /\ disturbed \in SUBSET Devices /\ contested \in SUBSET Ips
    /\ relaxed \in BOOLEAN /\ lapsed \in BOOLEAN

(* As long as no call fails, every peer on a node belongs to a row or to a *)
(* request in progress, however many requests raced for one address: the   *)
(* loser of _create_peer_with_retry cleans up.                             *)
NoOrphanWithoutFailure ==
    faults = 0 => \A k \in Keys : peer[k] # "absent" =>
                      \/ cred[k].status # "none"
                      \/ \E t \in Requests : tx[t].new = k

Settled(d) == d \notin disturbed /\ On(d) = {} /\ d \notin sweep.todo \cup sweep.done

Expected(k) ==
    IF dev[owner[k]] = "revoked" \/ cred[k].status # "active" THEN "absent"
    ELSE IF dev[owner[k]] = "active" THEN "on" ELSE Paused(owner[k])

(* Rows and nodes agree on every device whose requests neither overlapped  *)
(* nor failed, through any sequence of provisioning, disabling, enabling,  *)
(* reissuing, revoking, expiry and renewal: a revoked device is on no node *)
(* even if it was disabled when it was revoked, and a WireGuard device     *)
(* that is on is routed to its address unless a race was run for it.       *)
RowsMatchNodes ==
    \A k \in Keys : (owner[k] # NoDevice /\ Settled(owner[k])) =>
        /\ peer[k] = Expected(k)
        /\ peer[k] = "on" /\ cred[k].ip \notin contested \cup {0} => route[cred[k].ip] = k

(* Requests one after the other keep within the device limit until a       *)
(* disabled device is enabled again, across expiry and renewal.            *)
LimitUnlessReenabled == ~relaxed => Cardinality(Active) <= DeviceLimit

(* After a sweep that ran alone no device of the user is on any node until *)
(* the user asks for something, whatever the devices went through before;  *)
(* devices whose requests overlapped or failed are excepted.               *)
ExpiredUserIsOff ==
    lapsed => \A k \in Keys : owner[k] \notin disturbed => peer[k] # "on"

=============================================================================
