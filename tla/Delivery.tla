------------------------------ MODULE Delivery ------------------------------
(***************************************************************************)
(* The subscription link of one device and GET /sub/{token}.  The link is  *)
(* rotated and revoked by the user; a fetch checks the link, the device    *)
(* and the subscription in that order, counts the access, and renders the  *)
(* device's peer with its current routing profile (module Routing), or its *)
(* VLESS credential.  Each check is a statement of a READ COMMITTED        *)
(* transaction, so everything can change in between.                       *)
(*                                                                         *)
(* get_db commits after the response was sent: a token is handed out       *)
(* before the row that makes it valid is there, and a fetch is delivered   *)
(* before its access is counted.                                           *)
(***************************************************************************)
EXTENDS Routing

CONSTANTS
    Protocols,   \* the protocols a device may have here
    Fetches,     \* fetches open at once
    LinkOps,     \* requests on the link open at once
    MaxFetches, MaxLinkOps,   \* bounds: fetches, link requests
    MaxChanges                \* bound: changes of the device or the subscription, and
                              \* accesses that fail to commit

ASSUME DeliveryAssumption == /\ MaxGens \in Nat \ {0}
                             /\ Protocols \subseteq {"wireguard", "vless"}
                             /\ MaxFetches \in Nat /\ MaxLinkOps \in Nat /\ MaxChanges \in Nat

VARIABLES
    protocol,   \* devices.protocol
    device,     \* devices.status
    cred,       \* the status of its peer or credential
    sub,        \* subscriptions.status is "active"
    over,       \* its expires_at has passed
    linkRow,    \* subscription_links: token (its hash), status and access_count
    linkTx,     \* the open link requests
    fetch,      \* the open fetches
    ops, fetches, changes,
    handed,     \* history: the token handed out last; 0 once the link was revoked
    tangled,    \* history: link requests overlapped, or one did not commit
    fetched,    \* history: fetches that delivered
    crowded     \* history: fetches overlapped, or one did not commit

entity   == <<protocol, device, cred, sub, over>>
linkVars == <<linkRow, linkTx, ops, handed, tangled>>
fetchVars == <<fetch, fetches, fetched, crowded>>
deliveryVars == <<routingVars, entity, linkVars, fetchVars, changes>>

Statuses   == {"active", "disabled", "revoked"}
Conditions == {"link", "device", "subscription"}
NoLinkTx == [pc |-> "none", op |-> "none", seen |-> "none", token |-> 0]
NoFetch  == [pc |-> "none", token |-> 0, count |-> 0, dead |-> {}, got |-> {}]

OpenLinkTx  == {o \in LinkOps : linkTx[o].pc # "none"}
OpenFetches == {f \in Fetches : fetch[f].pc # "none"}

-----------------------------------------------------------------------------
(* The device and the subscription, as Devices and Billing change them.    *)
(* What becomes true again during a fetch may be found true by it.         *)

Change == /\ changes < MaxChanges /\ changes' = changes + 1
          /\ UNCHANGED <<routingVars, protocol, linkVars, fetches, fetched, crowded>>

Revive(c) == fetch' = [f \in Fetches |-> [fetch[f] EXCEPT !.dead = @ \ {c}]]

(* disable, enable and revoke ask for no status.  A WireGuard peer's row   *)
(* is active until it is revoked; a VLESS credential follows the device,   *)
(* but one that is disabled is not revoked with it.                        *)
Paused  == IF cred = "active" /\ protocol = "vless" THEN "disabled" ELSE cred
Disable == /\ device # "disabled" /\ device' = "disabled" /\ cred' = Paused
           /\ Change /\ UNCHANGED <<sub, over, fetch>>
Enable  == /\ device # "active" /\ device' = "active"
           /\ cred' = IF cred = "disabled" THEN "active" ELSE cred
           /\ Revive("device") /\ Change /\ UNCHANGED <<sub, over>>
Revoke  == /\ device # "revoked" /\ device' = "revoked"
           /\ cred' = IF cred = "active" THEN "revoked" ELSE cred
           /\ Change /\ UNCHANGED <<sub, over, fetch>>

TimePasses == /\ ~over /\ over' = TRUE
              /\ Change /\ UNCHANGED <<device, cred, sub, fetch>>
(* The expiry sweep: all devices of the user are disabled with it. *)
Expire     == /\ sub /\ over /\ sub' = FALSE
              /\ device' = IF device = "active" THEN "disabled" ELSE device
              /\ cred' = IF device = "active" THEN Paused ELSE cred
              /\ Change /\ UNCHANGED <<over, fetch>>
Renew      == /\ over /\ sub' = TRUE /\ over' = FALSE
              /\ Revive("subscription") /\ Change /\ UNCHANGED <<device, cred>>

-----------------------------------------------------------------------------
(* Requests on the link.                                                   *)

StartLinkOp(o, op) ==
    /\ linkTx[o].pc = "none" /\ ops < MaxLinkOps
    /\ op = "revoke" => linkRow.status # "none"
    /\ ops' = ops + 1
    /\ linkTx' = [linkTx EXCEPT ![o] = [pc |-> "answer", op |-> op, seen |-> linkRow.status,
                                        token |-> ops']]
    /\ tangled' = (tangled \/ OpenLinkTx # {})
    /\ UNCHANGED <<routingVars, entity, linkRow, handed, fetchVars, changes>>

(* The response of a rotation carries the token. *)
AnswerLinkOp(o) ==
    /\ linkTx[o].pc = "answer"
    /\ linkTx' = [linkTx EXCEPT ![o].pc = "commit"]
    /\ handed' = IF linkTx[o].op = "rotate" THEN linkTx[o].token ELSE 0
    /\ UNCHANGED <<routingVars, entity, linkRow, ops, tangled, fetchVars, changes>>

(* Mutant: rotating leaves the status of a revoked link. *)
RotatedStillRevoked(row, x) == [row EXCEPT !.token = x.token,
                                           !.status = IF x.seen = "none" THEN "active" ELSE @]

(* Mutant: what is stored is the hash of another token. *)
RotatedOtherToken(row, x) == [row EXCEPT !.token = x.token + 1, !.status = "active"]

(* Mutant: the link is replaced by a new row. *)
RotatedAnew(row, x) == [token |-> x.token, status |-> "active", count |-> 0]

(* create_or_rotate: the token always changes; the status is written only  *)
(* when it differs from the one this transaction read.                     *)
Rotated(row, x) == [row EXCEPT !.token = x.token,
                               !.status = IF x.seen = "active" THEN @ ELSE "active"]

(* The insert or update, and the commit.  device_id is unique: of two      *)
(* first links one is refused.                                             *)
CommitLinkOp(o) ==
    LET x == linkTx[o] IN
    /\ x.pc = "commit"
    /\ linkRow' = CASE x.op = "revoke" -> [linkRow EXCEPT !.status = IF x.seen = "revoked" THEN @
                                                                    ELSE "revoked"]
                    [] x.op = "rotate" /\ x.seen = "none" /\ linkRow.status # "none" -> linkRow
                    [] OTHER -> Rotated(linkRow, x)
    /\ linkTx' = [linkTx EXCEPT ![o] = NoLinkTx]
    (* A fetch with the token of this very row may find it now. *)
    /\ fetch' = [f \in Fetches |-> IF fetch[f].token = linkRow'.token /\ linkRow'.status = "active"
                                   THEN [fetch[f] EXCEPT !.dead = @ \ {"link"}] ELSE fetch[f]]
    /\ UNCHANGED <<routingVars, entity, ops, handed, tangled, fetches, fetched, crowded, changes>>

LoseLinkOp(o) ==
    /\ linkTx[o].pc = "commit"
    /\ linkTx' = [linkTx EXCEPT ![o] = NoLinkTx]
    /\ tangled' = TRUE
    /\ UNCHANGED <<routingVars, entity, linkRow, ops, handed, fetchVars, changes>>

-----------------------------------------------------------------------------
(* GET /sub/{token}.  Every failure is the same 404.                       *)

UnchangedByFetch == UNCHANGED <<routingVars, entity, linkTx, ops, handed, tangled, changes>>

StartFetch(f, token) ==
    /\ fetch[f].pc = "none" /\ fetches < MaxFetches
    /\ fetches' = fetches + 1
    /\ crowded' = (crowded \/ OpenFetches # {})
    /\ fetch' = [fetch EXCEPT ![f] = [NoFetch EXCEPT !.pc = "link", !.token = token, !.dead =
             {c \in Conditions : \/ c = "link" /\ ~(linkRow.status = "active"
                                                    /\ linkRow.token = token)
                                 \/ c = "device" /\ device # "active"
                                 \/ c = "subscription" /\ (~sub \/ over)}]]
    /\ UnchangedByFetch /\ UNCHANGED <<linkRow, fetched>>

Go(f, pc)   == fetch' = [fetch EXCEPT ![f].pc = pc]
NotFound(f) == fetch' = [fetch EXCEPT ![f] = NoFetch]

(* resolve_token; the row read here is the one record_access adds to.      *)
ResolveToken(f) ==
    /\ fetch[f].pc = "link"
    /\ IF linkRow.token = fetch[f].token /\ linkRow.status = "active"
       THEN fetch' = [fetch EXCEPT ![f].pc = "device", ![f].count = linkRow.count]
       ELSE NotFound(f)
    /\ UnchangedByFetch /\ UNCHANGED <<linkRow, fetches, fetched, crowded>>

(* Mutant: any device that was not revoked is served. *)
ServedUnlessRevoked == device # "revoked"

Served == device = "active"

CheckDevice(f) ==
    /\ fetch[f].pc = "device"
    /\ IF Served THEN Go(f, "subscription") ELSE NotFound(f)
    /\ UnchangedByFetch /\ UNCHANGED <<linkRow, fetches, fetched, crowded>>

CheckSubscription(f) ==
    /\ fetch[f].pc = "subscription"
    /\ IF sub /\ ~over THEN Go(f, "peer") ELSE NotFound(f)
    /\ UnchangedByFetch /\ UNCHANGED <<linkRow, fetches, fetched, crowded>>

(* The active peer, or the active credentials of a VLESS device, which has *)
(* no use for a profile.                                                   *)
ReadPeer(f) ==
    /\ fetch[f].pc = "peer"
    /\ IF cred = "active" THEN Go(f, IF protocol = "vless" THEN "answer" ELSE "profile")
                          ELSE NotFound(f)
    /\ UnchangedByFetch /\ UNCHANGED <<linkRow, fetches, fetched, crowded>>

(* No profile means all traffic; two current ones are an error.            *)
ReadProfile(f) ==
    /\ fetch[f].pc = "profile"
    /\ IF Cardinality(Current) > 1 THEN Go(f, "error")
       ELSE fetch' = [fetch EXCEPT ![f].pc = "answer", ![f].got = {r.id : r \in Current}]
    /\ UnchangedByFetch /\ UNCHANGED <<linkRow, fetches, fetched, crowded>>

(* The response is sent first; then access_count is written as it was read *)
(* plus one, or the commit fails and the fetch is not counted.             *)
Deliver(f) ==
    /\ fetch[f].pc = "answer"
    /\ fetched' = fetched + 1
    /\ Go(f, "done")
    /\ UnchangedByFetch /\ UNCHANGED <<linkRow, fetches, crowded>>

CommitAccess(f) ==
    /\ fetch[f].pc = "done"
    /\ linkRow' = [linkRow EXCEPT !.count = fetch[f].count + 1]
    /\ NotFound(f)
    /\ UnchangedByFetch /\ UNCHANGED <<fetches, fetched, crowded>>

LoseAccess(f) ==
    /\ fetch[f].pc = "done" /\ changes < MaxChanges
    /\ changes' = changes + 1 /\ crowded' = TRUE
    /\ NotFound(f)
    /\ UNCHANGED <<routingVars, entity, linkVars, fetches, fetched>>

FailFetch(f) ==
    /\ fetch[f].pc = "error"
    /\ NotFound(f)
    /\ UnchangedByFetch /\ UNCHANGED <<linkRow, fetches, fetched, crowded>>

-----------------------------------------------------------------------------
FirstProfile == [id |-> 1, version |-> 1, current |-> TRUE, full |-> TRUE, routes |-> {}]

(* A device as provision leaves it (only a WireGuard device gets a profile *)
(* then), with its link, or since then without one or with it revoked.     *)
DeliveryInit ==
    /\ UntouchedSettings
    /\ protocol \in Protocols /\ saved = (protocol = "wireguard")
    /\ rows = IF saved THEN {FirstProfile} ELSE {}
    /\ gens = Cardinality(rows)
    /\ device = "active" /\ cred = "active" /\ sub = TRUE /\ over = FALSE
    /\ \E status \in {"none", "active", "revoked"} :
          /\ ops = IF status = "none" THEN 0 ELSE 1
          /\ linkRow = [token |-> ops, status |-> status, count |-> 0]
          /\ handed = IF status = "active" THEN 1 ELSE 0
    /\ linkTx = [o \in LinkOps |-> NoLinkTx] /\ tangled = FALSE
    /\ fetch = [f \in Fetches |-> NoFetch] /\ fetches = 0 /\ fetched = 0 /\ crowded = FALSE
    /\ changes = 0

Changes == Disable \/ Enable \/ Revoke \/ TimePasses \/ Expire \/ Renew

LinkOp(o) == \/ \E op \in {"rotate", "revoke"} : StartLinkOp(o, op)
             \/ AnswerLinkOp(o) \/ CommitLinkOp(o) \/ LoseLinkOp(o)

Fetch(f) == \/ \E token \in 1 .. ops : StartFetch(f, token)
            \/ ResolveToken(f) \/ CheckDevice(f) \/ CheckSubscription(f) \/ ReadPeer(f)
            \/ ReadProfile(f) \/ Deliver(f) \/ CommitAccess(f) \/ LoseAccess(f) \/ FailFetch(f)

DeliveryNext ==
    \/ RoutingNext /\ UNCHANGED <<entity, linkVars, fetchVars, changes>>
    \/ Changes
    \/ \E o \in LinkOps : LinkOp(o)
    \/ \E f \in Fetches : Fetch(f)

DeliverySpec == DeliveryInit /\ [][DeliveryNext]_deliveryVars

-----------------------------------------------------------------------------
(* Types: the link's row and the requests and fetches on it, next to the   *)
(* tables of Routing.                                                      *)
DeliveryTypeOK ==
    /\ RoutingTypeOK
    /\ device \in Statuses /\ cred \in Statuses
    /\ linkRow \in [token : 0 .. ops, status : {"none", "active", "revoked"}, count : Nat]
    /\ \A o \in LinkOps : linkTx[o].token <= ops
    /\ \A f \in Fetches : fetch[f].dead \subseteq Conditions /\ fetch[f].count <= fetched

(* A fetch delivers only if its token was the active link's, the device    *)
(* active and the subscription running at some time since it began: what   *)
(* was rotated, revoked, disabled or over before is answered "Not found",  *)
(* in whatever order _authorize and deliver read them ("revoking takes     *)
(* effect on the very next request").                                      *)
DeadFetchDeliversNothing == \A f \in Fetches : fetch[f].pc = "done" => fetch[f].dead = {}

(* The token handed out last opens the link: rotating a revoked link makes *)
(* it active again.  Requests that overlap, or a commit that fails after   *)
(* the answer, can leave a token that opens nothing.                       *)
TokenHandedOutWorks ==
    ~tangled /\ OpenLinkTx = {} /\ handed # 0 =>
        linkRow.token = handed /\ linkRow.status = "active"

(* access_count never exceeds the deliveries, across rotations; and as     *)
(* long as no two fetches overlap and none fails to commit, each delivery  *)
(* is counted once, from its own commit on.                                *)
AccessCounted ==
    /\ linkRow.count <= fetched
    /\ ~crowded => fetched = linkRow.count + IF \E f \in Fetches : fetch[f].pc = "done" THEN 1 ELSE 0


=============================================================================
