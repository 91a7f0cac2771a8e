----------------------------- MODULE XrayAgent -----------------------------
(***************************************************************************)
(* The xray-agent service of one VLESS node and the backend client that    *)
(* drives it.                                                              *)
(*                                                                         *)
(* The agent keeps the desired users in a SQLite table (UserStore) and     *)
(* converges Xray's in-memory user list to it, through the request         *)
(* handlers of UserReconciler and through a reconciliation pass that runs  *)
(* at startup and periodically.  Nothing serialises the handlers against   *)
(* each other or against the pass: every await is a point where the others *)
(* run, so every handler is a sequence of actions, one for each store or   *)
(* gRPC call.  The client (HttpXrayAgentProvider) retries transport errors *)
(* while an earlier attempt may still be executing.                        *)
(***************************************************************************)
EXTENDS Naturals, FiniteSets

CONSTANTS
    Uuids,        \* VLESS credentials minted by the backend
    Devices,      \* device ids
    DeviceOf,     \* the device each credential is minted for
    NoUuid,       \* "no such user" on the inbound
    Calls,        \* the calls the backend makes of this agent (one-shot)
    AddExisting,  \* what AddUserOperation may do to an email already live
    RemoveAbsent, \* what RemoveUserOperation may do to an email not live
    MaxAttempts,  \* _MAX_ATTEMPTS of the client
    MaxFaults     \* bound: crashes, gRPC failures and lost responses

ASSUME DeviceOfAssumption == DeviceOf \in [Uuids -> Devices]
ASSUME NoUuidAssumption   == NoUuid \notin Uuids
ASSUME XrayAssumption     == /\ AddExisting \subseteq {"rejects", "ignores", "replaces"}
                             /\ RemoveAbsent \subseteq {"rejects", "ignores"}
ASSUME AttemptsAssumption == MaxAttempts \in Nat \ {0}
ASSUME FaultsAssumption   == MaxFaults \in Nat

VARIABLES
    store,    \* the uuids with a row (enabled is always 1) in the users table
    live,     \* Xray's inbound: the uuid live under each email
    xray,     \* the Xray process: "up" or "down"
    agent,    \* the agent process: "down", "starting" or "up"
    call,     \* the backend's view of each call
    pc,       \* where the handler of each attempt of each call is
    rec,      \* the reconciliation pass in progress
    faults,   \* faults so far
    known,    \* uuids the backend has committed (a create or rotate returned)
    solo,     \* history: calls no other call of the same device has overlapped
    settled,  \* history: users acknowledged by a solo call, no removal asked since
    revoked   \* history: removals acknowledged by a solo call, no creation since

vars == <<store, live, xray, agent, call, pc, rec, faults, known, solo, settled, revoked>>
history == <<known, solo, settled, revoked>>

-----------------------------------------------------------------------------
(* Identities.  Xray names a user by email; the agent derives the email    *)
(* from the device id, so all credentials of one device share an email.    *)

EmailForDevice(d) == <<"device", d>>
Emails == {EmailForDevice(d) : d \in Devices}
EmailOf(u) == EmailForDevice(DeviceOf[u])
EmailsOf(us) == {EmailOf(u) : u \in us}
LiveEmails == {e \in Emails : live[e] # NoUuid}

Attempts == 1 .. MaxAttempts
Handlers == Calls \X Attempts

(* One label per await of each handler, and how a handler ends. *)
GrpcSteps  == {"create_list", "create_add", "remove_live", "rotate_live", "rotate_add"}
StoreSteps == {"create_upsert", "remove_get", "remove_delete", "rotate_get",
               "rotate_delete", "rotate_upsert"}
Replies    == {"ok", "not_found", "bad_gateway"}
Ended      == Replies \cup {"idle", "lost"}

Ops == {"create", "remove", "rotate"}
NoCall == [op |-> "none", uuid |-> NoUuid, new |-> NoUuid, attempt |-> 0, st |-> "idle"]
NoPass == [pc |-> "idle", desired |-> {}, toAdd |-> {}, toRemove |-> {}, quiet |-> TRUE]

FirstStep(op) == CASE op = "create" -> "create_upsert"
                   [] op = "remove" -> "remove_get"
                   [] op = "rotate" -> "rotate_get"

(* The credential a call puts on the node, and the one it takes off. *)
Adds(c)    == IF call[c].op = "create" THEN call[c].uuid ELSE call[c].new
Removes(c) == IF call[c].op = "create" THEN NoUuid ELSE call[c].uuid
InFlight(h) == pc[h] \notin Ended

-----------------------------------------------------------------------------
(* Xray's HandlerService (external).  What AddUserOperation does to an     *)
(* email that is already live, and RemoveUserOperation to one that is not, *)
(* is not established by the repository (docs/xray-agent.md, "Known        *)
(* limitations"): the constants say which outcomes are considered.  The    *)
(* tests' FakeXrayHandlerClient replaces and ignores.                      *)

Outcome(newLive, accepted) == [live |-> newLive, ok |-> accepted]

AddUserOperation(e, u) ==
    IF live[e] = NoUuid
    THEN {Outcome([live EXCEPT ![e] = u], TRUE)}
    ELSE {Outcome(IF how = "replaces" THEN [live EXCEPT ![e] = u] ELSE live,
                  how # "rejects") : how \in AddExisting}

RemoveUserOperation(e) ==
    IF live[e] # NoUuid
    THEN {Outcome([live EXCEPT ![e] = NoUuid], TRUE)}
    ELSE {Outcome(live, how # "rejects") : how \in RemoveAbsent}

(* A gRPC call that reports an error: Xray is down, or the call timed out  *)
(* before or after Xray applied it.                                        *)
GrpcFailure(outcomes) ==
    \/ /\ xray = "down"
       /\ UNCHANGED <<live, faults>>
    \/ /\ xray = "up" /\ faults < MaxFaults
       /\ faults' = faults + 1
       /\ live' \in {live} \cup {o.live : o \in outcomes}

(* A pass is quiet while nobody else changes the table or the inbound. *)
Interfere == rec' = IF rec.pc = "idle" THEN rec
                    ELSE [rec EXCEPT !.quiet = rec.quiet /\ store' = store /\ live' = live]

-----------------------------------------------------------------------------
(* The backend client: HttpXrayAgentProvider._request.                     *)

Busy(c) == call[c].st \in {"send", "wait"} \/ \E k \in Attempts : InFlight(<<c, k>>)
SameDevice(c, u) == call[c].uuid # NoUuid /\ DeviceOf[call[c].uuid] = DeviceOf[u]

Start(c, op, u, n) ==
    /\ call[c].st = "idle"
    /\ solo' = [x \in Calls |-> IF x = c THEN \A y \in Calls : Busy(y) => ~SameDevice(y, u)
                               ELSE solo[x] /\ ~SameDevice(x, u)]
    /\ call' = [call EXCEPT ![c] =
                  [op |-> op, uuid |-> u, new |-> n, attempt |-> 1, st |-> "send"]]
    /\ UNCHANGED <<store, live, xray, agent, pc, rec, faults, known>>

Mentioned == UNION {{call[c].uuid, call[c].new} : c \in Calls}

(* _provision_vless mints a fresh uuid for a fresh device; enable() sends  *)
(* the uuid of a disabled credential again.                                *)
StartCreate(c, u) ==
    /\ \/ \A v \in Mentioned \ {NoUuid} : DeviceOf[v] # DeviceOf[u]
       \/ u \in known
    /\ Start(c, "create", u, NoUuid)
    /\ revoked' = revoked \ {u}
    /\ UNCHANGED settled

(* disable(), revoke() and the expiry worker. *)
StartRemove(c, u) ==
    /\ u \in known
    /\ Start(c, "remove", u, NoUuid)
    /\ settled' = settled \ {u}
    /\ UNCHANGED revoked

(* A rotation names a committed credential and a fresh uuid. *)
StartRotate(c, u, n) ==
    /\ u \in known
    /\ n \notin Mentioned /\ DeviceOf[n] = DeviceOf[u]
    /\ Start(c, "rotate", u, n)
    /\ settled' = settled \ {u}
    /\ UNCHANGED revoked

Send(c) ==
    /\ call[c].st = "send" /\ agent = "up"
    /\ call' = [call EXCEPT ![c].st = "wait"]
    /\ pc' = [pc EXCEPT ![<<c, call[c].attempt>>] = FirstStep(call[c].op)]
    /\ UNCHANGED <<store, live, xray, agent, rec, faults, history>>

(* Mutant: the attempt bound is off by one. *)
TransportErrorRetriesOnceMore(c) ==
    /\ \/ call[c].st = "send" /\ agent # "up" /\ UNCHANGED faults
       \/ /\ call[c].st = "wait" /\ faults < MaxFaults
          /\ faults' = faults + 1
    /\ call' = [call EXCEPT ![c] =
                  IF call[c].attempt <= MaxAttempts
                  THEN [call[c] EXCEPT !.attempt = call[c].attempt + 1, !.st = "send"]
                  ELSE [call[c] EXCEPT !.st = "unreachable"]]
    /\ UNCHANGED <<store, live, xray, agent, pc, rec, history>>

(* Connection refused, connection reset by a crash, or a timeout: the last *)
(* leaves the handler running.                                             *)
TransportError(c) ==
    /\ \/ call[c].st = "send" /\ agent # "up" /\ UNCHANGED faults
       \/ /\ call[c].st = "wait" /\ pc[<<c, call[c].attempt>>] = "lost"
          /\ UNCHANGED faults
       \/ /\ call[c].st = "wait" /\ faults < MaxFaults
          /\ faults' = faults + 1
    /\ call' = [call EXCEPT ![c] =
                  IF call[c].attempt < MaxAttempts
                  THEN [call[c] EXCEPT !.attempt = call[c].attempt + 1, !.st = "send"]
                  ELSE [call[c] EXCEPT !.st = "unreachable"]]
    /\ UNCHANGED <<store, live, xray, agent, pc, rec, history>>

(* A 2xx ends the call; a 404 or 502 is raised and never retried. *)
Receive(c) ==
    LET reply == pc[<<c, call[c].attempt>>] IN
    /\ call[c].st = "wait" /\ reply \in Replies
    /\ call' = [call EXCEPT ![c].st = reply]
    /\ IF reply = "ok"
       THEN /\ known' = known \cup ({Adds(c)} \ {NoUuid})
            /\ settled' = settled \cup (IF solo[c] THEN {Adds(c)} \ {NoUuid} ELSE {})
            /\ revoked' = revoked \cup (IF solo[c] THEN {Removes(c)} \ {NoUuid} ELSE {})
       ELSE UNCHANGED <<known, settled, revoked>>
    /\ UNCHANGED <<store, live, xray, agent, pc, rec, faults, solo>>

-----------------------------------------------------------------------------
(* The request handlers (UserReconciler.add_user, remove_user,             *)
(* rotate_user).  At(h, step) is a handler about to make that call.        *)

At(h, step) == pc[h] = step /\ agent = "up"
Goto(h, step) == pc' = [pc EXCEPT ![h] = step]
UuidOf(h) == call[h[1]].uuid
NewOf(h)  == call[h[1]].new

StoreStep(h, step, next, newStore) ==
    /\ At(h, step)
    /\ Goto(h, next)
    /\ store' = newStore
    /\ UNCHANGED <<live, xray, agent, call, faults, history>>
    /\ Interfere

GrpcStep(h, step, next, outcomes) ==
    /\ At(h, step) /\ xray = "up"
    /\ \E o \in outcomes :
         /\ live' = o.live
         /\ Goto(h, IF o.ok THEN next ELSE "bad_gateway")
    /\ UNCHANGED <<store, xray, agent, call, faults, history>>
    /\ Interfere

(* Mutant: the upsert is not committed. *)
AddUserUpsertUncommitted(h) == StoreStep(h, "create_upsert", "create_list", store)

AddUserUpsert(h) == StoreStep(h, "create_upsert", "create_list", store \cup {UuidOf(h)})

AddUserList(h) ==
    /\ At(h, "create_list") /\ xray = "up"
    /\ Goto(h, IF EmailOf(UuidOf(h)) \in LiveEmails THEN "ok" ELSE "create_add")
    /\ UNCHANGED <<store, live, xray, agent, call, rec, faults, history>>

AddUserLive(h) ==
    GrpcStep(h, "create_add", "ok", AddUserOperation(EmailOf(UuidOf(h)), UuidOf(h)))

RemoveUserGet(h) ==
    StoreStep(h, "remove_get", IF UuidOf(h) \in store THEN "remove_live" ELSE "ok", store)

RemoveUserLive(h) ==
    GrpcStep(h, "remove_live", "remove_delete", RemoveUserOperation(EmailOf(UuidOf(h))))

RemoveUserDelete(h) == StoreStep(h, "remove_delete", "ok", store \ {UuidOf(h)})

RotateUserGet(h) ==
    StoreStep(h, "rotate_get",
              IF UuidOf(h) \in store THEN "rotate_live" ELSE "not_found", store)

RotateUserLive(h) ==
    GrpcStep(h, "rotate_live", "rotate_delete", RemoveUserOperation(EmailOf(UuidOf(h))))

(* Mutant: rotation forgets the old row. *)
RotateUserKeepsOldRow(h) == StoreStep(h, "rotate_delete", "rotate_upsert", store)

RotateUserDelete(h) ==
    StoreStep(h, "rotate_delete", "rotate_upsert", store \ {UuidOf(h)})

RotateUserUpsert(h) ==
    StoreStep(h, "rotate_upsert", "rotate_add", store \cup {NewOf(h)})

RotateUserAdd(h) ==
    GrpcStep(h, "rotate_add", "ok", AddUserOperation(EmailOf(UuidOf(h)), NewOf(h)))

(* XrayCommandError: the handler answers 502 and undoes nothing. *)
HandlerGrpcError(h) ==
    LET e == EmailOf(UuidOf(h))
        outcomes == CASE pc[h] = "create_add" -> AddUserOperation(e, UuidOf(h))
                      [] pc[h] = "rotate_add" -> AddUserOperation(e, NewOf(h))
                      [] pc[h] \in {"remove_live", "rotate_live"} -> RemoveUserOperation(e)
                      [] OTHER -> {}
    IN  /\ pc[h] \in GrpcSteps /\ agent = "up"
        /\ GrpcFailure(outcomes)
        /\ Goto(h, "bad_gateway")
        /\ UNCHANGED <<store, xray, agent, call, history>>
        /\ Interfere

-----------------------------------------------------------------------------
(* UserReconciler.reconcile, run by lifespan() before the agent serves and *)
(* by _periodic_reconciliation_loop after that.                            *)

(* desired_by_email keeps one record of the table for each email. *)
DesiredByEmail == {D \in SUBSET store : /\ EmailsOf(D) = EmailsOf(store)
                                        /\ \A u, v \in D : EmailOf(u) = EmailOf(v) => u = v}

(* Mutant: the periodic loop is never started. *)
ReconcileAtStartupOnly ==
    /\ agent = "starting" /\ rec.pc = "idle"
    /\ \E D \in DesiredByEmail : rec' = [NoPass EXCEPT !.pc = "list", !.desired = D]
    /\ UNCHANGED <<store, live, xray, agent, call, pc, faults, history>>

ReconcileListEnabled ==
    /\ agent \in {"starting", "up"} /\ rec.pc = "idle"
    /\ \E D \in DesiredByEmail : rec' = [NoPass EXCEPT !.pc = "list", !.desired = D]
    /\ UNCHANGED <<store, live, xray, agent, call, pc, faults, history>>

(* Mutant: reconciliation in one direction only, as vpn-agent does it. *)
ReconcileNeverRemoves ==
    /\ rec.pc = "list" /\ xray = "up"
    /\ rec' = [rec EXCEPT !.pc = "apply",
                          !.toAdd = {u \in rec.desired : EmailOf(u) \notin LiveEmails}]
    /\ UNCHANGED <<store, live, xray, agent, call, pc, faults, history>>

ReconcileListLive ==
    /\ rec.pc = "list" /\ xray = "up"
    /\ rec' = [rec EXCEPT !.pc = "apply",
                          !.toAdd = {u \in rec.desired : EmailOf(u) \notin LiveEmails},
                          !.toRemove = LiveEmails \ EmailsOf(rec.desired)]
    /\ UNCHANGED <<store, live, xray, agent, call, pc, faults, history>>

(* A rejected call ends the pass: the loop logs it and waits for the next  *)
(* interval, lifespan() lets it kill the starting process.                 *)
EndPass(ok) ==
    /\ rec' = NoPass
    /\ agent' = IF ok THEN "up" ELSE IF agent = "starting" THEN "down" ELSE agent

ReconcileAdd(u) ==
    /\ rec.pc = "apply" /\ u \in rec.toAdd /\ xray = "up"
    /\ \E o \in AddUserOperation(EmailOf(u), u) :
         /\ live' = o.live
         /\ IF o.ok THEN /\ rec' = [rec EXCEPT !.toAdd = rec.toAdd \ {u}]
                         /\ UNCHANGED agent
                    ELSE EndPass(FALSE)
    /\ UNCHANGED <<store, xray, call, pc, faults, history>>

ReconcileRemove(e) ==
    /\ rec.pc = "apply" /\ rec.toAdd = {} /\ e \in rec.toRemove /\ xray = "up"
    /\ \E o \in RemoveUserOperation(e) :
         /\ live' = o.live
         /\ IF o.ok THEN /\ rec' = [rec EXCEPT !.toRemove = rec.toRemove \ {e}]
                         /\ UNCHANGED agent
                    ELSE EndPass(FALSE)
    /\ UNCHANGED <<store, xray, call, pc, faults, history>>

ReconcileDone ==
    /\ rec.pc = "apply" /\ rec.toAdd = {} /\ rec.toRemove = {}
    /\ EndPass(TRUE)
    /\ UNCHANGED <<store, live, xray, call, pc, faults, history>>

ReconcileGrpcError ==
    /\ rec.pc \in {"list", "apply"}
    /\ \/ rec.pc = "list" /\ GrpcFailure({})
       \/ \E u \in rec.toAdd : GrpcFailure(AddUserOperation(EmailOf(u), u))
       \/ /\ rec.toAdd = {}
          /\ \E e \in rec.toRemove : GrpcFailure(RemoveUserOperation(e))
    /\ EndPass(FALSE)
    /\ UNCHANGED <<store, xray, call, pc, history>>

-----------------------------------------------------------------------------
(* Process failures.  The table survives both; Xray's user list survives   *)
(* only the agent's.                                                       *)

XrayCrash ==
    /\ xray = "up" /\ faults < MaxFaults
    /\ xray' = "down" /\ faults' = faults + 1
    /\ live' = [e \in Emails |-> NoUuid]
    /\ UNCHANGED <<store, agent, call, pc, history>>
    /\ Interfere

XrayRestart ==
    /\ xray = "down" /\ xray' = "up"
    /\ UNCHANGED <<store, live, agent, call, pc, rec, faults, history>>

AgentCrash ==
    /\ agent # "down" /\ faults < MaxFaults
    /\ agent' = "down" /\ faults' = faults + 1
    /\ pc' = [h \in Handlers |-> IF InFlight(h) THEN "lost" ELSE pc[h]]
    /\ rec' = NoPass
    /\ UNCHANGED <<store, live, xray, call, history>>

AgentRestart ==
    /\ agent = "down" /\ agent' = "starting"
    /\ UNCHANGED <<store, live, xray, call, pc, rec, faults, history>>

-----------------------------------------------------------------------------
Init ==
    /\ store = {} /\ live = [e \in Emails |-> NoUuid]
    /\ xray = "up" /\ agent = "starting"
    /\ call = [c \in Calls |-> NoCall]
    /\ pc = [h \in Handlers |-> "idle"]
    /\ rec = NoPass /\ faults = 0
    /\ known = {} /\ settled = {} /\ revoked = {}
    /\ solo = [c \in Calls |-> TRUE]

HandlerNext(h) ==
    \/ AddUserUpsert(h) \/ AddUserList(h) \/ AddUserLive(h)
    \/ RemoveUserGet(h) \/ RemoveUserLive(h) \/ RemoveUserDelete(h)
    \/ RotateUserGet(h) \/ RotateUserLive(h) \/ RotateUserDelete(h)
    \/ RotateUserUpsert(h) \/ RotateUserAdd(h)
    \/ HandlerGrpcError(h)

Reconcile ==
    \/ ReconcileListEnabled \/ ReconcileListLive
    \/ \E u \in Uuids : ReconcileAdd(u)
    \/ \E e \in Emails : ReconcileRemove(e)
    \/ ReconcileDone \/ ReconcileGrpcError

StartCall ==
    \/ \E c \in Calls, u \in Uuids : StartCreate(c, u)
    \/ \E c \in Calls, u \in Uuids : StartRemove(c, u)
    \/ \E c \in Calls, u, n \in Uuids : StartRotate(c, u, n)

ClientNext(c) == Send(c) \/ TransportError(c) \/ Receive(c)

Next ==
    \/ StartCall
    \/ \E c \in Calls : ClientNext(c)
    \/ \E h \in Handlers : HandlerNext(h)
    \/ Reconcile
    \/ XrayCrash \/ XrayRestart \/ AgentCrash \/ AgentRestart

(* Every coroutine is eventually resumed; systemd restarts both processes; *)
(* the periodic loop always takes another pass.  Starting a call and a     *)
(* fault are never owed.                                                   *)
Fairness ==
    /\ \A c \in Calls : WF_vars(ClientNext(c))
    /\ \A h \in Handlers : WF_vars(HandlerNext(h))
    /\ WF_vars(Reconcile)
    /\ WF_vars(XrayRestart) /\ WF_vars(AgentRestart)

Spec == Init /\ [][Next]_vars
FairSpec == Spec /\ Fairness

-----------------------------------------------------------------------------
(* Properties. *)

CallStates == {"idle", "send", "wait", "unreachable"} \cup Replies

CallRecords ==
    [op : Ops \cup {"none"}, uuid : Uuids \cup {NoUuid}, new : Uuids \cup {NoUuid},
     attempt : 0 .. MaxAttempts, st : CallStates]

PassRecords ==
    [pc : {"idle", "list", "apply"}, desired : SUBSET Uuids, toAdd : SUBSET Uuids,
     toRemove : SUBSET Emails, quiet : BOOLEAN]

(* The variables keep their types: in particular a handler only ever acts  *)
(* for a call that names the credential it needs.                          *)
TypeOK ==
    /\ store \in SUBSET Uuids
    /\ live \in [Emails -> Uuids \cup {NoUuid}]
    /\ xray \in {"up", "down"}
    /\ agent \in {"down", "starting", "up"}
    /\ call \in [Calls -> CallRecords]
    /\ pc \in [Handlers -> GrpcSteps \cup StoreSteps \cup Ended]
    /\ rec \in PassRecords
    /\ faults \in 0 .. MaxFaults
    /\ known \in SUBSET Uuids /\ settled \in SUBSET Uuids /\ revoked \in SUBSET Uuids
    /\ solo \in [Calls -> BOOLEAN]

(* reconcile() is right whenever it runs undisturbed: a pass during which  *)
(* no handler and no crash touched the table or the inbound ends with      *)
(* exactly the desired emails live, whatever state it found (a restarted,  *)
(* empty Xray; users left over from a lost removal).                       *)
QuietPassConverges ==
    (rec.pc = "apply" /\ rec.toAdd = {} /\ rec.toRemove = {} /\ rec.quiet)
        => LiveEmails = EmailsOf(store)

(* A user whose creation (or rotation) the backend saw succeed keeps its   *)
(* row, through agent crashes, Xray restarts, retried and half-failed      *)
(* calls for other credentials, until a removal of it is asked for.        *)
SettledUserIsStored == settled \subseteq store

(* A removal the backend saw succeed is final: no crash, retry or pass     *)
(* brings the row back unless a call that adds the credential is made.     *)
RevokedUserIsNotStored == revoked \cap store = {}

(* Once calls and faults stop, the inbound carries exactly the desired     *)
(* emails: the periodic loop repairs every race and crash, in both         *)
(* directions, at the granularity it compares (emails).                    *)
EmailsConverge == <>[](LiveEmails = EmailsOf(store))

(* The promise of reconciler.py's docstring and docs/xray-agent.md that a  *)
(* live user no longer desired is removed, so that a revoked credential    *)
(* stops working: at the granularity of credentials.                       *)
RevokedCredentialStops == \A u \in Uuids : (u \in revoked) ~> \/ u \notin revoked
                                                             \/ live[EmailOf(u)] # u
=============================================================================
