-------------------------- MODULE XrayAgentProofs --------------------------
(***************************************************************************)
(* Proofs about XrayAgent for every set of devices, credentials and calls, *)
(* every number of attempts and faults, and every behaviour of Xray the    *)
(* constants allow.                                                        *)
(***************************************************************************)
EXTENDS XrayAgent, TLAPS

RotateSteps == {"rotate_get", "rotate_live", "rotate_delete", "rotate_upsert", "rotate_add"}

(* A started call names what it acts on, and a handler only runs for a     *)
(* started call; so the credential under a running handler never changes.  *)
CallInv ==
    /\ \A c \in Calls : call[c].st # "idle" =>
         /\ call[c].op \in Ops /\ call[c].uuid \in Uuids /\ call[c].attempt \in Attempts
         /\ call[c].op = "rotate" => call[c].new \in Uuids
    /\ \A h \in Handlers : pc[h] # "idle" => call[h[1]].st # "idle"
    /\ \A h \in Handlers : pc[h] \in RotateSteps => call[h[1]].op = "rotate"

TypeInv == TypeOK /\ CallInv

(* What a pass still has to do, as long as nobody interferes: the inbound  *)
(* carries the desired emails it does not have to add, and those it has to *)
(* remove.                                                                 *)
PassInv ==
    /\ rec.toAdd \subseteq rec.desired
    /\ \A u, v \in rec.desired : EmailOf(u) = EmailOf(v) => u = v
    /\ rec.pc # "idle" /\ rec.quiet => EmailsOf(rec.desired) = EmailsOf(store)
    /\ rec.pc = "apply" /\ rec.quiet =>
         /\ LiveEmails = (EmailsOf(rec.desired) \ EmailsOf(rec.toAdd)) \cup rec.toRemove
         /\ rec.toRemove \cap EmailsOf(rec.desired) = {}

(* Identities. *)
LEMMA EmailTypes ==
    /\ \A u \in Uuids : EmailOf(u) \in Emails
    /\ \A us \in SUBSET Uuids : EmailsOf(us) \subseteq Emails
  BY DeviceOfAssumption DEF EmailOf, EmailsOf, Emails

(* Xray's operations return a well-typed inbound. *)
LEMMA OperationTypes ==
    ASSUME TypeOK, NEW e \in Emails
    PROVE  /\ \A u \in Uuids \cup {NoUuid} : \A o \in AddUserOperation(e, u) :
                o.live \in [Emails -> Uuids \cup {NoUuid}]
           /\ \A o \in RemoveUserOperation(e) : o.live \in [Emails -> Uuids \cup {NoUuid}]
  BY DEF TypeOK, AddUserOperation, RemoveUserOperation, Outcome

LEMMA InterfereType ==
    ASSUME rec \in PassRecords, Interfere
    PROVE  rec' \in PassRecords
  BY DEF PassRecords, Interfere

-----------------------------------------------------------------------------
(* The credentials of a call are fixed once it is started. *)
SameCalls ==
    \A d \in Calls : /\ call'[d].op = call[d].op /\ call'[d].uuid = call[d].uuid
                     /\ call'[d].new = call[d].new
                     /\ (call'[d].st = "idle") <=> (call[d].st = "idle")
                     /\ call[d].attempt \in Attempts => call'[d].attempt \in Attempts

LEMMA CallInvFrame ==
    ASSUME CallInv, SameCalls,
           \A h \in Handlers : pc'[h] # "idle" => call[h[1]].st # "idle",
           \A h \in Handlers : pc'[h] \in RotateSteps => call[h[1]].op = "rotate"
    PROVE  CallInv'
PROOF
<1>1. \A h \in Handlers : h[1] \in Calls
  BY DEF Handlers
<1> QED BY <1>1 DEF CallInv, SameCalls

LEMMA InitTypeInv == Init => TypeInv
  BY AttemptsAssumption, FaultsAssumption
     DEF Init, TypeInv, TypeOK, CallInv, NoCall, NoPass, CallRecords, PassRecords,
         CallStates, Ended, Replies, Emails, RotateSteps

LEMMA StartTypeInv ==
    ASSUME TypeInv, StartCall
    PROVE  TypeInv'
PROOF
<1> USE DEF TypeInv
<1>1. PICK c \in Calls, op \in Ops, u \in Uuids, n \in Uuids \cup {NoUuid} :
        /\ Start(c, op, u, n)
        /\ op = "rotate" => n \in Uuids
        /\ settled' \in SUBSET Uuids /\ revoked' \in SUBSET Uuids
  BY DEF TypeOK, StartCall, StartCreate, StartRemove, StartRotate, Ops
<1> DEFINE r == [op |-> op, uuid |-> u, new |-> n, attempt |-> 1, st |-> "send"]
<1>2. 1 \in 0 .. MaxAttempts /\ 1 \in Attempts
  BY AttemptsAssumption DEF Attempts
<1>3. r \in CallRecords
  BY <1>2 DEF CallRecords, CallStates
<1>4. /\ call' = [call EXCEPT ![c] = r] /\ call[c].st = "idle" /\ pc' = pc
      /\ UNCHANGED <<store, live, xray, agent, rec, faults, known>>
      /\ solo' \in [Calls -> BOOLEAN]
  BY <1>1 DEF Start, TypeOK, SameDevice
<1>5. TypeOK'
  BY <1>1, <1>3, <1>4 DEF TypeOK
<1>6. \A d \in Calls : call'[d] = IF d = c THEN r ELSE call[d]
  BY <1>4 DEF TypeOK
<1>7. \A h \in Handlers : h[1] \in Calls
  BY DEF Handlers
<1>8. \A h \in Handlers : pc'[h] # "idle" => h[1] # c
  BY <1>4 DEF CallInv
<1>9. \A h \in Handlers : pc'[h] \in RotateSteps => pc'[h] # "idle"
  BY DEF RotateSteps
<1>10. CallInv'
  BY <1>1, <1>2, <1>4, <1>6, <1>7, <1>8, <1>9 DEF CallInv
<1> QED BY <1>5, <1>10

LEMMA ClientTypeInv ==
    ASSUME TypeInv, NEW c \in Calls, ClientNext(c)
    PROVE  TypeInv'
PROOF
<1> USE AttemptsAssumption, FaultsAssumption DEF TypeInv
<1>0. call[c] \in CallRecords /\ call[c].attempt \in 0 .. MaxAttempts
  BY DEF TypeOK, CallRecords
<1>1. CASE Send(c)
  <2> DEFINE h == <<c, call[c].attempt>>
             f == FirstStep(call[c].op)
  <2>1. call[c].st # "idle" /\ call[c].op \in Ops /\ h \in Handlers /\ h[1] = c
    BY <1>1 DEF Send, CallInv, Handlers
  <2>2. /\ f \in GrpcSteps \cup StoreSteps \cup Ended
        /\ f \in RotateSteps => call[c].op = "rotate"
    BY <2>1 DEF FirstStep, Ops, StoreSteps, RotateSteps
  <2>3. [call[c] EXCEPT !.st = "wait"] \in CallRecords
    BY <1>0 DEF CallRecords, CallStates
  <2>4. TypeOK'
    BY <1>1, <2>1, <2>2, <2>3 DEF TypeOK, Send, history
  <2>5. SameCalls
    BY <1>1 DEF Send, TypeOK, CallRecords, SameCalls
  <2>6. \A g \in Handlers : pc'[g] = IF g = h THEN f ELSE pc[g]
    BY <1>1, <2>1 DEF Send, TypeOK
  <2> HIDE DEF h, f
  <2> QED BY <2>1, <2>2, <2>4, <2>5, <2>6, CallInvFrame DEF CallInv
<1>2. CASE TransportError(c)
  <2> DEFINE r == IF call[c].attempt < MaxAttempts
                  THEN [call[c] EXCEPT !.attempt = call[c].attempt + 1, !.st = "send"]
                  ELSE [call[c] EXCEPT !.st = "unreachable"]
  <2>1. faults' \in 0 .. MaxFaults
    BY <1>2 DEF TransportError, TypeOK
  <2>2. r \in CallRecords
    <3>1. CASE call[c].attempt < MaxAttempts
      <4>1. call[c].attempt + 1 \in 0 .. MaxAttempts
        BY <1>0, <3>1
      <4> QED BY <1>0, <3>1, <4>1 DEF CallRecords, CallStates
    <3>2. CASE ~(call[c].attempt < MaxAttempts)
      BY <1>0, <3>2 DEF CallRecords, CallStates
    <3> QED BY <3>1, <3>2
  <2>3. call' = [call EXCEPT ![c] = r] /\ pc' = pc
    BY <1>2 DEF TransportError
  <2>4. TypeOK'
    BY <1>2, <2>1, <2>2, <2>3 DEF TransportError, TypeOK, history
  <2>5. call[c].attempt \in Attempts => r.attempt \in Attempts
    BY <1>0 DEF Attempts, CallRecords
  <2>6. r.op = call[c].op /\ r.uuid = call[c].uuid /\ r.new = call[c].new /\ r.st # "idle"
    BY <1>0 DEF CallRecords
  <2>7. call[c].st # "idle"
    BY <1>2 DEF TransportError
  <2>8. \A d \in Calls : call'[d] = IF d = c THEN r ELSE call[d]
    BY <2>3 DEF TypeOK
  <2> HIDE DEF r
  <2>9. SameCalls
    BY <2>5, <2>6, <2>7, <2>8 DEF SameCalls
  <2> QED BY <2>3, <2>4, <2>9, CallInvFrame DEF CallInv
<1>3. CASE Receive(c)
  <2>1. call[c].st # "idle" /\ Adds(c) \in Uuids \cup {NoUuid} /\ Removes(c) \in Uuids \cup {NoUuid}
    BY <1>0, <1>3 DEF Receive, CallRecords, Adds, Removes
  <2>2. /\ known' \in SUBSET Uuids /\ settled' \in SUBSET Uuids /\ revoked' \in SUBSET Uuids
    BY <1>3, <2>1 DEF Receive, TypeOK
  <2>3. TypeOK'
    BY <1>0, <1>3, <2>2 DEF Receive, TypeOK, CallRecords, CallStates
  <2>4. SameCalls
    BY <1>3, <2>1 DEF Receive, TypeOK, CallRecords, Replies, SameCalls
  <2>5. pc' = pc
    BY <1>3 DEF Receive
  <2> QED BY <2>3, <2>4, <2>5, CallInvFrame DEF CallInv
<1> QED BY <1>1, <1>2, <1>3 DEF ClientNext

Labels == GrpcSteps \cup StoreSteps \cup Ended

(* The label a step of a handler moves to. *)
LEMMA HandlerMove ==
    ASSUME TypeInv, NEW h \in Handlers, pc[h] # "idle", NEW l \in Labels, Goto(h, l),
           l \in RotateSteps => pc[h] \in RotateSteps, call' = call
    PROVE  pc' \in [Handlers -> Labels] /\ CallInv'
PROOF
<1>1. pc' \in [Handlers -> Labels] /\ \A g \in Handlers : pc'[g] = IF g = h THEN l ELSE pc[g]
  BY DEF TypeInv, TypeOK, Goto, Labels
<1>2. SameCalls
  BY DEF SameCalls
<1> QED BY <1>1, <1>2, CallInvFrame DEF TypeInv, CallInv

LEMMA HandlerTypeInv ==
    ASSUME TypeInv, NEW h \in Handlers, HandlerNext(h)
    PROVE  TypeInv'
PROOF
<1> USE DEF TypeInv
<1>1. rec \in PassRecords
  BY DEF TypeOK
<1>2. pc[h] \notin Ended => UuidOf(h) \in Uuids /\ EmailOf(UuidOf(h)) \in Emails
  <2>1. h[1] \in Calls
    BY DEF Handlers
  <2>2. pc[h] \notin Ended => call[h[1]].uuid \in Uuids
    BY <2>1 DEF CallInv, Ended
  <2> QED BY <2>2, EmailTypes DEF UuidOf
<1>3. NewOf(h) \in Uuids \cup {NoUuid}
  BY DEF TypeOK, CallRecords, NewOf, Handlers
<1>4. pc[h] \in RotateSteps => NewOf(h) \in Uuids
  BY DEF CallInv, NewOf, Handlers, RotateSteps
<1>5. ASSUME NEW step, NEW next \in Labels, NEW newStore \in SUBSET Uuids, step # "idle",
             StoreStep(h, step, next, newStore),
             next \in RotateSteps => step \in RotateSteps
      PROVE  TypeInv'
  <2>1. rec' \in PassRecords
    BY <1>1, <1>5, InterfereType DEF StoreStep
  <2>2. pc' \in [Handlers -> Labels] /\ CallInv'
    BY <1>5, HandlerMove DEF StoreStep, At
  <2> QED BY <1>5, <2>1, <2>2 DEF StoreStep, TypeOK, history, Labels
<1>6. ASSUME NEW step, NEW next \in Labels, NEW outcomes, step # "idle",
             GrpcStep(h, step, next, outcomes),
             \A o \in outcomes : o.live \in [Emails -> Uuids \cup {NoUuid}],
             next \in RotateSteps => step \in RotateSteps
      PROVE  TypeInv'
  <2>1. rec' \in PassRecords
    BY <1>1, <1>6, InterfereType DEF GrpcStep
  <2>2. PICK o \in outcomes : /\ live' = o.live
                              /\ Goto(h, IF o.ok THEN next ELSE "bad_gateway")
    BY <1>6 DEF GrpcStep
  <2>3. pc' \in [Handlers -> Labels] /\ CallInv'
    <3> DEFINE l == IF o.ok THEN next ELSE "bad_gateway"
    <3>1. l \in Labels /\ (l \in RotateSteps => pc[h] \in RotateSteps) /\ pc[h] # "idle"
      BY <1>6 DEF Labels, Ended, Replies, RotateSteps, GrpcStep, At
    <3> QED BY <1>6, <2>2, <3>1, HandlerMove DEF GrpcStep
  <2> QED BY <1>6, <2>1, <2>2, <2>3 DEF GrpcStep, TypeOK, history, Labels
<1> USE DEF Labels, GrpcSteps, StoreSteps, Ended, Replies, RotateSteps
<1>7. CASE AddUserUpsert(h)
  <2>1. store \cup {UuidOf(h)} \in SUBSET Uuids
    BY <1>2, <1>7 DEF AddUserUpsert, StoreStep, At, TypeOK
  <2> QED BY <1>5, <1>7, <2>1 DEF AddUserUpsert
<1>8. CASE AddUserList(h)
  <2>1. pc' \in [Handlers -> Labels] /\ CallInv'
    BY <1>8, HandlerMove DEF AddUserList, At
  <2> QED BY <1>8, <2>1 DEF AddUserList, TypeOK, history
<1>9. CASE AddUserLive(h)
  <2>1. EmailOf(UuidOf(h)) \in Emails /\ UuidOf(h) \in Uuids
    BY <1>2, <1>9 DEF AddUserLive, GrpcStep, At
  <2> QED BY <1>6, <1>9, <2>1, OperationTypes DEF AddUserLive
<1>10. CASE RemoveUserGet(h)
  <2> DEFINE next == IF UuidOf(h) \in store THEN "remove_live" ELSE "ok"
  <2>1. next \in Labels /\ store \in SUBSET Uuids
    BY DEF TypeOK
  <2>2. StoreStep(h, "remove_get", next, store)
    BY <1>10 DEF RemoveUserGet
  <2>3. next \in RotateSteps => "remove_get" \in RotateSteps
    OBVIOUS
  <2> HIDE DEF next
  <2> QED BY <1>5, <2>1, <2>2, <2>3
<1>11. CASE RemoveUserLive(h)
  <2>1. EmailOf(UuidOf(h)) \in Emails
    BY <1>2, <1>11 DEF RemoveUserLive, GrpcStep, At
  <2> QED BY <1>6, <1>11, <2>1, OperationTypes DEF RemoveUserLive
<1>12. CASE RemoveUserDelete(h)
  <2>1. store \ {UuidOf(h)} \in SUBSET Uuids
    BY DEF TypeOK
  <2> QED BY <1>5, <1>12, <2>1 DEF RemoveUserDelete
<1>13. CASE RotateUserGet(h)
  <2> DEFINE next == IF UuidOf(h) \in store THEN "rotate_live" ELSE "not_found"
  <2>1. next \in Labels /\ store \in SUBSET Uuids
    BY DEF TypeOK
  <2>2. StoreStep(h, "rotate_get", next, store)
    BY <1>13 DEF RotateUserGet
  <2>3. next \in RotateSteps => "rotate_get" \in RotateSteps
    OBVIOUS
  <2> HIDE DEF next
  <2> QED BY <1>5, <2>1, <2>2, <2>3
<1>14. CASE RotateUserLive(h)
  <2>1. EmailOf(UuidOf(h)) \in Emails
    BY <1>2, <1>14 DEF RotateUserLive, GrpcStep, At
  <2> QED BY <1>6, <1>14, <2>1, OperationTypes DEF RotateUserLive
<1>15. CASE RotateUserDelete(h)
  <2>1. store \ {UuidOf(h)} \in SUBSET Uuids
    BY DEF TypeOK
  <2> QED BY <1>5, <1>15, <2>1 DEF RotateUserDelete
<1>16. CASE RotateUserUpsert(h)
  <2>1. store \cup {NewOf(h)} \in SUBSET Uuids
    BY <1>4, <1>16 DEF RotateUserUpsert, StoreStep, At, TypeOK
  <2> QED BY <1>5, <1>16, <2>1 DEF RotateUserUpsert
<1>17. CASE RotateUserAdd(h)
  <2>1. EmailOf(UuidOf(h)) \in Emails
    BY <1>2, <1>17 DEF RotateUserAdd, GrpcStep, At
  <2> QED BY <1>3, <1>6, <1>17, <2>1, OperationTypes DEF RotateUserAdd
<1>18. CASE HandlerGrpcError(h)
  <2> DEFINE e == EmailOf(UuidOf(h))
             outcomes == CASE pc[h] = "create_add" -> AddUserOperation(e, UuidOf(h))
                           [] pc[h] = "rotate_add" -> AddUserOperation(e, NewOf(h))
                           [] pc[h] \in {"remove_live", "rotate_live"} -> RemoveUserOperation(e)
                           [] OTHER -> {}
  <2>1. pc[h] \in GrpcSteps /\ GrpcFailure(outcomes) /\ Goto(h, "bad_gateway") /\ Interfere
    BY <1>18 DEF HandlerGrpcError
  <2>2. e \in Emails /\ UuidOf(h) \in Uuids
    BY <1>2, <2>1
  <2>3. \A o \in outcomes : o.live \in [Emails -> Uuids \cup {NoUuid}]
    BY <1>3, <2>1, <2>2, OperationTypes
  <2> HIDE DEF outcomes
  <2>4. live' \in [Emails -> Uuids \cup {NoUuid}] /\ faults' \in 0 .. MaxFaults
    BY <2>1, <2>3, FaultsAssumption DEF GrpcFailure, TypeOK
  <2>5. rec' \in PassRecords
    BY <1>1, <2>1, InterfereType
  <2>6. pc' \in [Handlers -> Labels] /\ CallInv'
    BY <1>18, <2>1, HandlerMove DEF HandlerGrpcError
  <2> QED BY <1>18, <2>4, <2>5, <2>6 DEF HandlerGrpcError, TypeOK, history
<1> QED BY <1>7, <1>8, <1>9, <1>10, <1>11, <1>12, <1>13, <1>14, <1>15, <1>16, <1>17, <1>18
        DEF HandlerNext

LEMMA ReconcileTypeInv ==
    ASSUME TypeInv, Reconcile
    PROVE  TypeInv'
PROOF
<1> USE DEF TypeInv
<1>0. NoPass \in PassRecords
  BY DEF NoPass, PassRecords
<1>1. ASSUME NEW ok \in BOOLEAN, EndPass(ok)
      PROVE  rec' \in PassRecords /\ agent' \in {"down", "starting", "up"}
  BY <1>0, <1>1 DEF EndPass, TypeOK
<1>2. rec \in PassRecords
  BY DEF TypeOK
<1>3. call' = call /\ pc' = pc => CallInv'
  BY DEF CallInv
<1>4. CASE ReconcileListEnabled
  <2>1. \A D \in SUBSET store : [NoPass EXCEPT !.pc = "list", !.desired = D] \in PassRecords
    BY DEF NoPass, PassRecords, TypeOK
  <2>2. rec' \in PassRecords
    BY <1>4, <2>1 DEF ReconcileListEnabled, DesiredByEmail
  <2> QED BY <1>3, <1>4, <2>2 DEF ReconcileListEnabled, TypeOK, history
<1>5. CASE ReconcileListLive
  <2>1. rec' \in PassRecords
    BY <1>2, <1>5 DEF ReconcileListLive, PassRecords, LiveEmails
  <2> QED BY <1>3, <1>5, <2>1 DEF ReconcileListLive, TypeOK, history
<1>6. ASSUME NEW u \in Uuids, ReconcileAdd(u) PROVE TypeInv'
  <2>1. [rec EXCEPT !.toAdd = rec.toAdd \ {u}] \in PassRecords
    BY <1>2 DEF PassRecords
  <2>2. live' \in [Emails -> Uuids \cup {NoUuid}]
    BY <1>6, EmailTypes, OperationTypes DEF ReconcileAdd
  <2>3. rec' \in PassRecords /\ agent' \in {"down", "starting", "up"}
    BY <1>1, <1>6, <2>1 DEF ReconcileAdd, TypeOK
  <2> QED BY <1>3, <1>6, <2>2, <2>3 DEF ReconcileAdd, TypeOK, history
<1>7. ASSUME NEW e \in Emails, ReconcileRemove(e) PROVE TypeInv'
  <2>1. [rec EXCEPT !.toRemove = rec.toRemove \ {e}] \in PassRecords
    BY <1>2 DEF PassRecords
  <2>2. live' \in [Emails -> Uuids \cup {NoUuid}]
    BY <1>7, OperationTypes DEF ReconcileRemove
  <2>3. rec' \in PassRecords /\ agent' \in {"down", "starting", "up"}
    BY <1>1, <1>7, <2>1 DEF ReconcileRemove, TypeOK
  <2> QED BY <1>3, <1>7, <2>2, <2>3 DEF ReconcileRemove, TypeOK, history
<1>8. CASE ReconcileDone
  BY <1>1, <1>3, <1>8 DEF ReconcileDone, TypeOK, history
<1>9. CASE ReconcileGrpcError
  <2>1. ASSUME NEW os, GrpcFailure(os), \A o \in os : o.live \in [Emails -> Uuids \cup {NoUuid}]
        PROVE  live' \in [Emails -> Uuids \cup {NoUuid}] /\ faults' \in 0 .. MaxFaults
    BY <2>1, FaultsAssumption DEF GrpcFailure, TypeOK
  <2>2. rec.toAdd \subseteq Uuids /\ rec.toRemove \subseteq Emails
    BY <1>2 DEF PassRecords
  <2>3. live' \in [Emails -> Uuids \cup {NoUuid}] /\ faults' \in 0 .. MaxFaults
    <3>1. CASE GrpcFailure({})
      BY <2>1, <3>1
    <3>2. ASSUME NEW u \in rec.toAdd, GrpcFailure(AddUserOperation(EmailOf(u), u))
          PROVE  live' \in [Emails -> Uuids \cup {NoUuid}] /\ faults' \in 0 .. MaxFaults
      BY <2>1, <2>2, <3>2, EmailTypes, OperationTypes
    <3>3. ASSUME NEW e \in rec.toRemove, GrpcFailure(RemoveUserOperation(e))
          PROVE  live' \in [Emails -> Uuids \cup {NoUuid}] /\ faults' \in 0 .. MaxFaults
      BY <2>1, <2>2, <3>3, OperationTypes
    <3> QED BY <1>9, <3>1, <3>2, <3>3 DEF ReconcileGrpcError
  <2>4. rec' \in PassRecords /\ agent' \in {"down", "starting", "up"}
    BY <1>1, <1>9 DEF ReconcileGrpcError
  <2> QED BY <1>3, <1>9, <2>3, <2>4 DEF ReconcileGrpcError, TypeOK, history
<1> QED BY <1>4, <1>5, <1>6, <1>7, <1>8, <1>9 DEF Reconcile

LEMMA FailureTypeInv ==
    ASSUME TypeInv, XrayCrash \/ XrayRestart \/ AgentCrash \/ AgentRestart
    PROVE  TypeInv'
PROOF
<1> USE FaultsAssumption DEF TypeInv, history
<1>1. rec \in PassRecords
  BY DEF TypeOK
<1>2. call' = call /\ pc' = pc => CallInv'
  BY DEF CallInv
<1>3. CASE XrayCrash
  <2>1. rec' \in PassRecords
    BY <1>1, <1>3, InterfereType DEF XrayCrash
  <2> QED BY <1>2, <1>3, <2>1 DEF XrayCrash, TypeOK
<1>4. CASE XrayRestart
  BY <1>2, <1>4 DEF XrayRestart, TypeOK
<1>5. CASE AgentCrash
  <2>1. NoPass \in PassRecords
    BY DEF NoPass, PassRecords
  <2>2. \A h \in Handlers : pc'[h] = IF InFlight(h) THEN "lost" ELSE pc[h]
    BY <1>5 DEF AgentCrash
  <2>3. TypeOK'
    BY <1>5, <2>1 DEF AgentCrash, TypeOK, Ended
  <2>4. SameCalls
    BY <1>5 DEF AgentCrash, SameCalls
  <2>5. \A h \in Handlers : pc'[h] # "idle" => pc[h] # "idle"
    BY <2>2 DEF InFlight, Ended
  <2>6. \A h \in Handlers : pc'[h] \in RotateSteps => pc[h] \in RotateSteps
    BY <2>2 DEF RotateSteps
  <2> QED BY <2>3, <2>4, <2>5, <2>6, CallInvFrame DEF CallInv
<1>6. CASE AgentRestart
  BY <1>2, <1>6 DEF AgentRestart, TypeOK
<1> QED BY <1>3, <1>4, <1>5, <1>6

(* The type invariant is inductive together with CallInv. *)
LEMMA NextTypeInv == TypeInv /\ [Next]_vars => TypeInv'
PROOF
<1> SUFFICES ASSUME TypeInv, [Next]_vars PROVE TypeInv'
  OBVIOUS
<1>1. CASE StartCall
  BY <1>1, StartTypeInv
<1>2. ASSUME NEW c \in Calls, ClientNext(c) PROVE TypeInv'
  BY <1>2, ClientTypeInv
<1>3. ASSUME NEW h \in Handlers, HandlerNext(h) PROVE TypeInv'
  BY <1>3, HandlerTypeInv
<1>4. CASE Reconcile
  BY <1>4, ReconcileTypeInv
<1>5. CASE XrayCrash \/ XrayRestart \/ AgentCrash \/ AgentRestart
  BY <1>5, FailureTypeInv
<1>6. CASE UNCHANGED vars
  BY <1>6 DEF vars, TypeInv, TypeOK, CallInv, LiveEmails
<1> QED BY <1>1, <1>2, <1>3, <1>4, <1>5, <1>6 DEF Next

(* Every reachable state of the agent and its client is well typed; in     *)
(* particular a handler always acts on the credential its call named.      *)
THEOREM TypeCorrect == Spec => []TypeOK
PROOF
<1>1. Init => TypeInv
  BY InitTypeInv
<1>2. TypeInv /\ [Next]_vars => TypeInv'
  BY NextTypeInv
<1>3. TypeInv => TypeOK
  BY DEF TypeInv
<1> QED BY <1>1, <1>2, <1>3, PTL DEF Spec

-----------------------------------------------------------------------------
(* A quiet pass converges. *)

LEMMA PassFrame ==
    ASSUME PassInv, UNCHANGED <<store, live, rec>>
    PROVE  PassInv'
  BY DEF PassInv, LiveEmails

LEMMA PassInterfere ==
    ASSUME rec \in PassRecords, PassInv, Interfere
    PROVE  PassInv'
PROOF
<1>1. CASE rec.pc = "idle"
  BY <1>1 DEF PassInv, Interfere
<1>2. CASE rec.pc # "idle"
  <2>1. /\ rec'.pc = rec.pc /\ rec'.desired = rec.desired /\ rec'.toAdd = rec.toAdd
        /\ rec'.toRemove = rec.toRemove
        /\ rec'.quiet = (rec.quiet /\ store' = store /\ live' = live)
    BY <1>2 DEF Interfere, PassRecords
  <2>2. CASE rec'.quiet
    <3>1. rec.quiet /\ store' = store /\ live' = live
      BY <2>1, <2>2
    <3> QED BY <2>1, <3>1 DEF PassInv, LiveEmails
  <2>3. CASE ~rec'.quiet
    BY <2>1, <2>3 DEF PassInv
  <2> QED BY <2>2, <2>3
<1> QED BY <1>1, <1>2

LEMMA PassEnds ==
    ASSUME NEW ok \in BOOLEAN, EndPass(ok)
    PROVE  PassInv'
  BY DEF EndPass, NoPass, PassInv

LEMMA PassReconcile ==
    ASSUME TypeOK, PassInv, Reconcile
    PROVE  PassInv'
PROOF
<1>1. rec \in PassRecords /\ live \in [Emails -> Uuids \cup {NoUuid}] /\ store \subseteq Uuids
  BY DEF TypeOK
<1>2. CASE ReconcileListEnabled
  <2>1. PICK D \in DesiredByEmail : rec' = [NoPass EXCEPT !.pc = "list", !.desired = D]
    BY <1>2 DEF ReconcileListEnabled
  <2>2. /\ rec'.pc = "list" /\ rec'.desired = D /\ rec'.toAdd = {}
    BY <2>1 DEF NoPass
  <2>3. store' = store
    BY <1>2 DEF ReconcileListEnabled
  <2> QED BY <2>2, <2>3 DEF PassInv, DesiredByEmail
<1>3. CASE ReconcileListLive
  <2>1. /\ rec.pc = "list" /\ rec'.pc = "apply" /\ rec'.desired = rec.desired
        /\ rec'.toAdd = {u \in rec.desired : EmailOf(u) \notin LiveEmails}
        /\ rec'.toRemove = LiveEmails \ EmailsOf(rec.desired)
        /\ rec'.quiet = rec.quiet
        /\ store' = store /\ LiveEmails' = LiveEmails
    BY <1>1, <1>3 DEF ReconcileListLive, PassRecords, LiveEmails
  <2>2. LiveEmails = (EmailsOf(rec'.desired) \ EmailsOf(rec'.toAdd)) \cup rec'.toRemove
    BY <2>1 DEF EmailsOf
  <2> QED BY <2>1, <2>2 DEF PassInv
<1>4. ASSUME NEW u \in Uuids, ReconcileAdd(u) PROVE PassInv'
  <2>1. PICK o \in AddUserOperation(EmailOf(u), u) :
          /\ live' = o.live
          /\ IF o.ok THEN rec' = [rec EXCEPT !.toAdd = rec.toAdd \ {u}] ELSE EndPass(FALSE)
    BY <1>4 DEF ReconcileAdd
  <2>2. CASE ~o.ok
    BY <2>1, <2>2, PassEnds
  <2>3. CASE o.ok
    <3>1. /\ rec'.pc = rec.pc /\ rec'.desired = rec.desired /\ rec'.toAdd = rec.toAdd \ {u}
          /\ rec'.toRemove = rec.toRemove /\ rec'.quiet = rec.quiet
      BY <1>1, <2>1, <2>3 DEF PassRecords
    <3>2. rec.pc = "apply" /\ u \in rec.toAdd /\ store' = store
      BY <1>4 DEF ReconcileAdd
    <3>3. CASE ~rec.quiet
      BY <3>1, <3>3 DEF PassInv
    <3>4. CASE rec.quiet
      <4>1. EmailOf(u) \in Emails /\ EmailOf(u) \notin LiveEmails
        BY <3>2, <3>4, EmailTypes DEF PassInv, EmailsOf
      <4>2. live' = [live EXCEPT ![EmailOf(u)] = u]
        BY <2>1, <4>1 DEF AddUserOperation, Outcome, LiveEmails
      <4>3. LiveEmails' = LiveEmails \cup {EmailOf(u)}
        BY <1>1, <4>1, <4>2, NoUuidAssumption DEF LiveEmails
      <4>4. EmailsOf(rec'.toAdd) = EmailsOf(rec.toAdd) \ {EmailOf(u)}
        BY <3>1, <3>2 DEF EmailsOf, PassInv
      <4>5. EmailOf(u) \in EmailsOf(rec.desired)
        BY <3>2 DEF EmailsOf, PassInv
      <4>6. LiveEmails' = (EmailsOf(rec.desired) \ EmailsOf(rec'.toAdd)) \cup rec.toRemove
        BY <3>2, <3>4, <4>3, <4>4, <4>5 DEF PassInv
      <4> QED BY <3>1, <3>2, <3>4, <4>6 DEF PassInv
    <3> QED BY <3>3, <3>4
  <2> QED BY <2>2, <2>3
<1>5. ASSUME NEW e \in Emails, ReconcileRemove(e) PROVE PassInv'
  <2>1. PICK o \in RemoveUserOperation(e) :
          /\ live' = o.live
          /\ IF o.ok THEN rec' = [rec EXCEPT !.toRemove = rec.toRemove \ {e}] ELSE EndPass(FALSE)
    BY <1>5 DEF ReconcileRemove
  <2>2. CASE ~o.ok
    BY <2>1, <2>2, PassEnds
  <2>3. CASE o.ok
    <3>1. /\ rec'.pc = rec.pc /\ rec'.desired = rec.desired /\ rec'.toAdd = rec.toAdd
          /\ rec'.toRemove = rec.toRemove \ {e} /\ rec'.quiet = rec.quiet
      BY <1>1, <2>1, <2>3 DEF PassRecords
    <3>2. rec.pc = "apply" /\ e \in rec.toRemove /\ store' = store
      BY <1>5 DEF ReconcileRemove
    <3>3. CASE ~rec.quiet
      BY <3>1, <3>3 DEF PassInv
    <3>4. CASE rec.quiet
      <4>1. e \in LiveEmails /\ e \notin EmailsOf(rec.desired)
        BY <3>2, <3>4 DEF PassInv
      <4>2. live' = [live EXCEPT ![e] = NoUuid]
        BY <2>1, <4>1 DEF RemoveUserOperation, Outcome, LiveEmails
      <4>3. LiveEmails' = LiveEmails \ {e}
        BY <1>1, <4>2 DEF LiveEmails
      <4> QED BY <3>1, <3>2, <3>4, <4>1, <4>3 DEF PassInv
    <3> QED BY <3>3, <3>4
  <2> QED BY <2>2, <2>3
<1>6. CASE ReconcileDone
  BY <1>6, PassEnds DEF ReconcileDone
<1>7. CASE ReconcileGrpcError
  BY <1>7, PassEnds DEF ReconcileGrpcError
<1> QED BY <1>2, <1>3, <1>4, <1>5, <1>6, <1>7 DEF Reconcile

LEMMA NextPassInv == TypeOK /\ PassInv /\ [Next]_vars => PassInv'
PROOF
<1> SUFFICES ASSUME TypeOK, PassInv, [Next]_vars PROVE PassInv'
  OBVIOUS
<1>0. rec \in PassRecords
  BY DEF TypeOK
<1>1. CASE StartCall
  <2>1. UNCHANGED <<store, live, rec>>
    BY <1>1 DEF StartCall, StartCreate, StartRemove, StartRotate, Start
  <2> QED BY <2>1, PassFrame
<1>2. ASSUME NEW c \in Calls, ClientNext(c) PROVE PassInv'
  <2>1. UNCHANGED <<store, live, rec>>
    BY <1>2 DEF ClientNext, Send, TransportError, Receive
  <2> QED BY <2>1, PassFrame
<1>3. ASSUME NEW h \in Handlers, HandlerNext(h) PROVE PassInv'
  <2>1. Interfere \/ UNCHANGED <<store, live, rec>>
    BY <1>3 DEF HandlerNext, AddUserUpsert, AddUserList, AddUserLive, RemoveUserGet,
                RemoveUserLive, RemoveUserDelete, RotateUserGet, RotateUserLive,
                RotateUserDelete, RotateUserUpsert, RotateUserAdd, HandlerGrpcError,
                StoreStep, GrpcStep
  <2> QED BY <1>0, <2>1, PassFrame, PassInterfere
<1>4. CASE Reconcile
  BY <1>4, PassReconcile
<1>5. CASE XrayCrash
  BY <1>0, <1>5, PassInterfere DEF XrayCrash
<1>6. CASE AgentCrash
  BY <1>6 DEF AgentCrash, NoPass, PassInv
<1>7. CASE XrayRestart \/ AgentRestart \/ UNCHANGED vars
  BY <1>7, PassFrame DEF XrayRestart, AgentRestart, vars
<1> QED BY <1>1, <1>2, <1>3, <1>4, <1>5, <1>6, <1>7 DEF Next

(* A reconciliation pass that nobody disturbs ends with exactly the        *)
(* desired emails live, for any number of users and from any starting      *)
(* state of the inbound.                                                   *)
THEOREM QuietPass == Spec => []QuietPassConverges
PROOF
<1>1. Init => PassInv
  BY DEF Init, NoPass, PassInv
<1>2. TypeOK /\ PassInv /\ [Next]_vars => PassInv'
  BY NextPassInv
<1>3. PassInv => QuietPassConverges
  BY DEF PassInv, QuietPassConverges, EmailsOf
<1> QED BY <1>1, <1>2, <1>3, TypeCorrect, PTL DEF Spec

-----------------------------------------------------------------------------
(* What was acknowledged stays in, or out of, the table. *)

CreateSteps == {"create_upsert", "create_list", "create_add"}
RemoveSteps == {"remove_get", "remove_live", "remove_delete"}

(* A handler takes its call's steps; a rotation names two credentials of   *)
(* one device; a call that was never overlapped has its device to itself.  *)
OwnInv ==
    /\ \A h \in Handlers : /\ pc[h] \in CreateSteps => call[h[1]].op = "create"
                           /\ pc[h] \in RemoveSteps => call[h[1]].op = "remove"
    /\ \A c \in Calls : call[c].st # "idle" =>
         IF call[c].op = "rotate"
         THEN call[c].new # call[c].uuid /\ DeviceOf[call[c].new] = DeviceOf[call[c].uuid]
         ELSE call[c].new = NoUuid
    /\ \A c \in Calls : call[c].st = "idle" => call[c].uuid = NoUuid /\ call[c].new = NoUuid
    /\ \A c, d \in Calls : c # d /\ Busy(c) /\ Busy(d) /\ solo[c] =>
         DeviceOf[call[d].uuid] # DeviceOf[call[c].uuid]

(* How far a handler has got with the table.  *)
Added(h)   == \/ pc[h] \in {"create_list", "create_add", "rotate_add"}
              \/ pc[h] = "ok" /\ call[h[1]].op \in {"create", "rotate"}
Removed(h) == \/ pc[h] \in {"rotate_upsert", "rotate_add"}
              \/ pc[h] = "ok" /\ call[h[1]].op \in {"remove", "rotate"}

(* As long as its call is the only one of its device, what a handler did   *)
(* to the table stands; other attempts of the call do the same.            *)
ProgressInv ==
    \A h \in Handlers : Busy(h[1]) /\ solo[h[1]] =>
        /\ Added(h) => Adds(h[1]) \in store
        /\ Removed(h) => Removes(h[1]) \notin store

(* No call under way undoes what was acknowledged, and a fresh credential  *)
(* is one that no call has named.                                          *)
AckInv ==
    /\ known \cup settled \cup revoked \subseteq Mentioned
    /\ settled \subseteq store /\ revoked \cap store = {}
    /\ \A c \in Calls : Busy(c) => Adds(c) \notin revoked /\ Removes(c) \notin settled

StoreInv == OwnInv /\ ProgressInv /\ AckInv

LEMMA BusyStarted ==
    ASSUME TypeInv, NEW c \in Calls, Busy(c)
    PROVE  /\ call[c].st # "idle" /\ call[c].op \in Ops /\ call[c].uuid \in Uuids
           /\ call[c].op = "rotate" => call[c].new \in Uuids
PROOF
<1>1. \A k \in Attempts : InFlight(<<c, k>>) => call[c].st # "idle"
  BY DEF TypeInv, CallInv, InFlight, Ended, Handlers
<1> QED BY <1>1 DEF Busy, TypeInv, CallInv

(* What a call adds and removes are different credentials of one device.   *)
LEMMA AddsRemoves ==
    ASSUME TypeInv, OwnInv, NEW c \in Calls, Busy(c)
    PROVE  /\ Adds(c) # Removes(c)
           /\ Adds(c) \in Uuids => DeviceOf[Adds(c)] = DeviceOf[call[c].uuid]
           /\ Removes(c) \in Uuids => DeviceOf[Removes(c)] = DeviceOf[call[c].uuid]
           /\ Adds(c) \in {call[c].uuid, call[c].new} \cap (Uuids \cup {NoUuid})
           /\ Removes(c) \in {call[c].uuid, NoUuid}
  BY BusyStarted, NoUuidAssumption DEF OwnInv, Adds, Removes, Ops

LEMMA SameCallsFacts ==
    ASSUME SameCalls
    PROVE  /\ \A d \in Calls : Adds(d)' = Adds(d) /\ Removes(d)' = Removes(d)
           /\ Mentioned' = Mentioned
  BY DEF SameCalls, Adds, Removes, Mentioned

(* The calls' identities do not change and no call becomes busy: what is   *)
(* left to show of StoreInv is what the step did to the table.             *)
LEMMA OwnFrame ==
    ASSUME TypeInv, OwnInv, SameCalls, UNCHANGED solo, \A d \in Calls : Busy(d)' => Busy(d),
           \A h \in Handlers : /\ pc'[h] \in CreateSteps => call[h[1]].op = "create"
                               /\ pc'[h] \in RemoveSteps => call[h[1]].op = "remove"
    PROVE  OwnInv'
PROOF
<1>1. \A h \in Handlers : h[1] \in Calls
  BY DEF Handlers
<1> QED BY <1>1 DEF OwnInv, SameCalls

(* Steps that leave the table alone and finish no handler. *)
LEMMA AckFrame ==
    ASSUME TypeInv, StoreInv, SameCalls, UNCHANGED <<store, known, solo, settled, revoked>>,
           \A d \in Calls : Busy(d)' => Busy(d),
           \A h \in Handlers : \/ pc'[h] \in {pc[h], "lost", "bad_gateway"}
                               \/ call[h[1]].op \in Ops /\ pc'[h] = FirstStep(call[h[1]].op)
    PROVE  StoreInv'
PROOF
<1> USE DEF StoreInv
<1>1. \A h \in Handlers : h[1] \in Calls
  BY DEF Handlers
<1>2. OwnInv'
  <2>1. \A h \in Handlers : /\ pc'[h] \in CreateSteps => call[h[1]].op = "create"
                            /\ pc'[h] \in RemoveSteps => call[h[1]].op = "remove"
    BY DEF OwnInv, CreateSteps, RemoveSteps, FirstStep, Ops
  <2> QED BY <2>1, OwnFrame
<1>3. ProgressInv'
  <2> SUFFICES ASSUME NEW h \in Handlers, Busy(h[1])', solo[h[1]]
               PROVE  /\ Added(h)' => Adds(h[1])' \in store
                      /\ Removed(h)' => Removes(h[1])' \notin store
    BY DEF ProgressInv
  <2>1. /\ Added(h) => Adds(h[1]) \in store
        /\ Removed(h) => Removes(h[1]) \notin store
    BY <1>1 DEF ProgressInv
  <2>2. (Added(h)' => Added(h)) /\ (Removed(h)' => Removed(h))
    BY <1>1 DEF Added, Removed, SameCalls, FirstStep, Ops
  <2> QED BY <1>1, <2>1, <2>2, SameCallsFacts
<1>4. AckInv'
  BY SameCallsFacts DEF AckInv
<1> QED BY <1>2, <1>3, <1>4

(* A step of a handler may add to the table what its call adds, and delete *)
(* what its call removes.                                                  *)
LEMMA HandlerFrame ==
    ASSUME TypeInv, StoreInv, NEW h \in Handlers, NEW c \in Calls, c = h[1],
           InFlight(h), NEW l \in Labels, Goto(h, l),
           UNCHANGED <<call, known, solo, settled, revoked>>,
           store' \ store \subseteq {Adds(c)}, store \ store' \subseteq {Removes(c)},
           store' \subseteq Uuids,
           l \in CreateSteps => call[c].op = "create", l \in RemoveSteps => call[c].op = "remove",
           Busy(c) /\ solo[c] => /\ Added(h)' => Adds(c) \in store'
                                 /\ Removed(h)' => Removes(c) \notin store'
    PROVE  StoreInv'
PROOF
<1> USE DEF StoreInv
<1>1. /\ \A g \in Handlers : g[1] \in Calls /\ g[2] \in Attempts /\ g = <<g[1], g[2]>>
      /\ \A g \in Handlers : pc'[g] = IF g = h THEN l ELSE pc[g]
  BY DEF Handlers, Goto, TypeInv, TypeOK
<1>2. Busy(c)
  BY <1>1 DEF Busy
<1>3. \A d \in Calls : Busy(d)' => Busy(d)
  <2> SUFFICES ASSUME NEW d \in Calls, Busy(d)', d # c PROVE Busy(d)
    BY <1>2
  <2>1. \A k \in Attempts : pc'[<<d, k>>] = pc[<<d, k>>]
    <3> SUFFICES ASSUME NEW k \in Attempts PROVE pc'[<<d, k>>] = pc[<<d, k>>]
      OBVIOUS
    <3>1. <<d, k>> \in Handlers /\ <<d, k>> # h
      BY DEF Handlers
    <3> QED BY <1>1, <3>1
  <2> QED BY <2>1 DEF Busy, InFlight
<1>4. SameCalls
  BY DEF SameCalls
<1>5. OwnInv'
  BY <1>1, <1>3, <1>4, OwnFrame DEF OwnInv
<1>6. AckInv'
  BY <1>2, <1>3, <1>4, SameCallsFacts DEF AckInv
<1>7. /\ Adds(c) # Removes(c)
      /\ Adds(c) \in Uuids => DeviceOf[Adds(c)] = DeviceOf[call[c].uuid]
      /\ Removes(c) \in Uuids => DeviceOf[Removes(c)] = DeviceOf[call[c].uuid]
  BY <1>2, AddsRemoves
<1>8. ProgressInv'
  <2> SUFFICES ASSUME NEW g \in Handlers, Busy(g[1])', solo[g[1]], g # h
               PROVE  /\ Added(g) => Adds(g[1]) \in store'
                      /\ Removed(g) => Removes(g[1]) \notin store'
    BY <1>1, <1>2, <1>4, SameCallsFacts DEF ProgressInv, Added, Removed
  <2>1. /\ g[1] \in Calls /\ Busy(g[1])
        /\ Added(g) => Adds(g[1]) \in store
        /\ Removed(g) => Removes(g[1]) \notin store
    BY <1>1, <1>3 DEF ProgressInv
  <2>2. CASE g[1] = c
    BY <1>7, <2>1, <2>2
  <2>3. CASE g[1] # c
    <3>1. DeviceOf[call[c].uuid] # DeviceOf[call[g[1]].uuid]
      BY <1>2, <2>1, <2>3 DEF OwnInv
    <3>2. /\ Adds(g[1]) \in Uuids => DeviceOf[Adds(g[1])] = DeviceOf[call[g[1]].uuid]
          /\ Removes(g[1]) \in Uuids => DeviceOf[Removes(g[1])] = DeviceOf[call[g[1]].uuid]
      BY <2>1, AddsRemoves
    <3>3. store \subseteq Uuids
      BY DEF TypeInv, TypeOK
    <3>4. Adds(g[1]) \in store => Adds(g[1]) # Removes(c)
      BY <1>7, <3>1, <3>2, <3>3
    <3>5. Removes(g[1]) \in store' => Removes(g[1]) # Adds(c)
      BY <1>7, <3>1, <3>2
    <3> QED BY <2>1, <3>4, <3>5
  <2> QED BY <2>2, <2>3
<1> QED BY <1>5, <1>6, <1>8

LEMMA HandlerStoreInv ==
    ASSUME TypeInv, StoreInv, NEW h \in Handlers, HandlerNext(h)
    PROVE  StoreInv'
PROOF
<1> USE DEF StoreInv, history
<1>1. PICK c \in Calls : c = h[1] /\ UuidOf(h) = call[c].uuid /\ NewOf(h) = call[c].new
  BY DEF Handlers, UuidOf, NewOf
<1>2. InFlight(h)
  BY DEF HandlerNext, AddUserUpsert, AddUserList, AddUserLive, RemoveUserGet, RemoveUserLive,
         RemoveUserDelete, RotateUserGet, RotateUserLive, RotateUserDelete, RotateUserUpsert,
         RotateUserAdd, HandlerGrpcError, StoreStep, GrpcStep, At, InFlight, Ended, Replies,
         GrpcSteps
<1>3. /\ pc[h] \in CreateSteps => call[c].op = "create"
      /\ pc[h] \in RemoveSteps => call[c].op = "remove"
      /\ pc[h] \in RotateSteps => call[c].op = "rotate"
  BY <1>1 DEF OwnInv, TypeInv, CallInv
<1>4. /\ call[c].op = "create" => Adds(c) = call[c].uuid
      /\ call[c].op = "remove" => Removes(c) = call[c].uuid
      /\ call[c].op = "rotate" => Adds(c) = call[c].new /\ Removes(c) = call[c].uuid
  BY DEF Adds, Removes
<1>5. /\ store \in SUBSET Uuids
      /\ \A l : Goto(h, l) => pc'[h] = l
  BY DEF TypeInv, TypeOK, Goto
<1>6. Busy(c)
  BY <1>1, <1>2 DEF Busy, Handlers
<1>7. /\ call[c].uuid \in Uuids
      /\ call[c].op = "rotate" => call[c].new \in Uuids /\ call[c].new # call[c].uuid
  BY <1>6, BusyStarted DEF OwnInv
<1>8. solo[c] => /\ Added(h) => Adds(c) \in store
                 /\ Removed(h) => Removes(c) \notin store
  BY <1>1, <1>6 DEF ProgressInv
<1> USE DEF Labels, GrpcSteps, StoreSteps, Ended, Replies, CreateSteps, RemoveSteps, RotateSteps
<1>9. ASSUME NEW l \in Labels, Goto(h, l), UNCHANGED <<call, known, solo, settled, revoked>>,
             store' \ store \subseteq {Adds(c)}, store \ store' \subseteq {Removes(c)},
             store' \subseteq Uuids,
             l \in CreateSteps => call[c].op = "create", l \in RemoveSteps => call[c].op = "remove",
             (l = "ok" \/ l \in {"create_list", "create_add", "rotate_add"}) =>
                (solo[c] => (call[c].op # "remove" => Adds(c) \in store')),
             (l = "ok" \/ l \in {"rotate_upsert", "rotate_add"}) =>
                (solo[c] => (call[c].op # "create" => Removes(c) \notin store')),
             l \in RotateSteps => call[c].op = "rotate"
      PROVE  StoreInv'
  <2>1. pc'[h] = l /\ call'[h[1]].op = call[c].op
    BY <1>1, <1>5, <1>9
  <2>2. solo[c] => /\ Added(h)' => Adds(c) \in store'
                   /\ Removed(h)' => Removes(c) \notin store'
    BY <1>9, <2>1 DEF Added, Removed
  <2> QED BY <1>1, <1>2, <1>9, <2>2, HandlerFrame
<1>10. CASE AddUserUpsert(h)
  BY <1>1, <1>3, <1>4, <1>5, <1>7, <1>9, <1>10 DEF AddUserUpsert, StoreStep, At
<1>11. CASE AddUserList(h)
  <2>1. /\ pc[h] = "create_list" /\ UNCHANGED <<store, call, known, solo, settled, revoked>>
        /\ Goto(h, "ok") \/ Goto(h, "create_add")
    BY <1>11 DEF AddUserList, At
  <2> QED BY <1>3, <1>4, <1>5, <1>8, <1>9, <2>1 DEF Added
<1>12. CASE AddUserLive(h)
  <2>1. /\ pc[h] = "create_add" /\ UNCHANGED <<store, call, known, solo, settled, revoked>>
        /\ Goto(h, "ok") \/ Goto(h, "bad_gateway")
    BY <1>12 DEF AddUserLive, GrpcStep, At
  <2> QED BY <1>3, <1>4, <1>5, <1>8, <1>9, <2>1 DEF Added
<1>13. CASE RemoveUserGet(h)
  <2>1. /\ pc[h] = "remove_get" /\ UNCHANGED <<store, call, known, solo, settled, revoked>>
        /\ (call[c].uuid \notin store /\ Goto(h, "ok")) \/ Goto(h, "remove_live")
    BY <1>1, <1>13 DEF RemoveUserGet, StoreStep, At
  <2> QED BY <1>3, <1>4, <1>5, <1>9, <2>1
<1>14. CASE RemoveUserLive(h)
  <2>1. /\ pc[h] = "remove_live" /\ UNCHANGED <<store, call, known, solo, settled, revoked>>
        /\ Goto(h, "remove_delete") \/ Goto(h, "bad_gateway")
    BY <1>14 DEF RemoveUserLive, GrpcStep, At
  <2> QED BY <1>3, <1>5, <1>9, <2>1
<1>15. CASE RemoveUserDelete(h)
  BY <1>1, <1>3, <1>4, <1>5, <1>9, <1>15 DEF RemoveUserDelete, StoreStep, At
<1>16. CASE RotateUserGet(h)
  <2>1. /\ pc[h] = "rotate_get" /\ UNCHANGED <<store, call, known, solo, settled, revoked>>
        /\ Goto(h, "rotate_live") \/ Goto(h, "not_found")
    BY <1>16 DEF RotateUserGet, StoreStep, At
  <2> QED BY <1>3, <1>5, <1>9, <2>1
<1>17. CASE RotateUserLive(h)
  <2>1. /\ pc[h] = "rotate_live" /\ UNCHANGED <<store, call, known, solo, settled, revoked>>
        /\ Goto(h, "rotate_delete") \/ Goto(h, "bad_gateway")
    BY <1>17 DEF RotateUserLive, GrpcStep, At
  <2> QED BY <1>3, <1>5, <1>9, <2>1
<1>18. CASE RotateUserDelete(h)
  BY <1>1, <1>3, <1>4, <1>5, <1>9, <1>18 DEF RotateUserDelete, StoreStep, At
<1>19. CASE RotateUserUpsert(h)
  <2>1. /\ pc[h] = "rotate_upsert" /\ UNCHANGED <<call, known, solo, settled, revoked>>
        /\ store' = store \cup {call[c].new} /\ Goto(h, "rotate_add")
    BY <1>1, <1>19 DEF RotateUserUpsert, StoreStep, At
  <2>2. solo[c] => call[c].uuid \notin store
    BY <1>3, <1>4, <1>8, <2>1 DEF Removed
  <2> QED BY <1>3, <1>4, <1>5, <1>7, <1>9, <2>1, <2>2
<1>20. CASE RotateUserAdd(h)
  <2>1. /\ pc[h] = "rotate_add" /\ UNCHANGED <<store, call, known, solo, settled, revoked>>
        /\ Goto(h, "ok") \/ Goto(h, "bad_gateway")
    BY <1>20 DEF RotateUserAdd, GrpcStep, At
  <2> QED BY <1>3, <1>4, <1>5, <1>8, <1>9, <2>1 DEF Added, Removed
<1>21. CASE HandlerGrpcError(h)
  <2>1. Goto(h, "bad_gateway") /\ UNCHANGED <<store, call, known, solo, settled, revoked>>
    BY <1>21 DEF HandlerGrpcError
  <2> QED BY <1>5, <1>9, <2>1
<1> QED BY <1>10, <1>11, <1>12, <1>13, <1>14, <1>15, <1>16, <1>17, <1>18, <1>19, <1>20, <1>21
        DEF HandlerNext

LEMMA ClientStoreInv ==
    ASSUME TypeInv, StoreInv, NEW c \in Calls, ClientNext(c)
    PROVE  StoreInv'
PROOF
<1> USE DEF StoreInv, history
<1>0. call[c] \in CallRecords /\ call[c].st # "idle" /\ Busy(c)
  BY DEF TypeInv, TypeOK, ClientNext, Send, TransportError, Receive, Busy
<1>1. CASE Send(c)
  <2> DEFINE h == <<c, call[c].attempt>>
  <2>1. call[c].op \in Ops /\ h \in Handlers /\ h[1] = c
    BY <1>0 DEF TypeInv, CallInv, Handlers
  <2>2. \A g \in Handlers : pc'[g] = IF g = h THEN FirstStep(call[c].op) ELSE pc[g]
    BY <1>1, <2>1 DEF Send, TypeInv, TypeOK
  <2>3. \A d \in Calls : Busy(d)' => Busy(d)
    <3> SUFFICES ASSUME NEW d \in Calls, d # c, Busy(d)' PROVE Busy(d)
      BY <1>0
    <3>1. call'[d] = call[d]
      BY <1>1 DEF Send
    <3>2. \A k \in Attempts : pc'[<<d, k>>] = pc[<<d, k>>]
      BY <2>1, <2>2 DEF Handlers
    <3> QED BY <3>1, <3>2 DEF Busy, InFlight
  <2>4. SameCalls
    BY <1>1 DEF Send, TypeInv, TypeOK, CallRecords, SameCalls
  <2> HIDE DEF h
  <2> QED BY <1>1, <2>1, <2>2, <2>3, <2>4, AckFrame DEF Send
<1>2. CASE TransportError(c)
  <2> DEFINE r == IF call[c].attempt < MaxAttempts
                  THEN [call[c] EXCEPT !.attempt = call[c].attempt + 1, !.st = "send"]
                  ELSE [call[c] EXCEPT !.st = "unreachable"]
  <2>1. /\ r.op = call[c].op /\ r.uuid = call[c].uuid /\ r.new = call[c].new /\ r.st # "idle"
        /\ call[c].attempt \in Attempts => r.attempt \in Attempts
    BY <1>0, AttemptsAssumption DEF CallRecords, Attempts
  <2>2. \A d \in Calls : call'[d] = IF d = c THEN r ELSE call[d]
    BY <1>2 DEF TransportError, TypeInv, TypeOK
  <2> HIDE DEF r
  <2>3. SameCalls
    BY <1>0, <2>1, <2>2 DEF SameCalls
  <2>4. \A d \in Calls : Busy(d)' => Busy(d)
    BY <1>0, <1>2, <2>2 DEF TransportError, Busy, InFlight
  <2> QED BY <1>2, <2>3, <2>4, AckFrame DEF TransportError
<1>3. CASE Receive(c)
  <2> DEFINE reply == pc[<<c, call[c].attempt>>]
  <2>1. /\ reply \in Replies /\ call' = [call EXCEPT ![c].st = reply] /\ pc' = pc
        /\ UNCHANGED <<store, solo>>
    BY <1>3 DEF Receive
  <2>2. SameCalls
    BY <1>0, <2>1 DEF TypeInv, TypeOK, CallRecords, Replies, SameCalls
  <2>3. \A d \in Calls : Busy(d)' => Busy(d)
    BY <1>0, <2>1 DEF Busy, InFlight, TypeInv, TypeOK
  <2>4. CASE reply # "ok"
    BY <1>3, <2>1, <2>2, <2>3, <2>4, AckFrame DEF Receive
  <2>5. CASE reply = "ok"
    <3> DEFINE h == <<c, call[c].attempt>>
    <3>1. h \in Handlers /\ h[1] = c /\ pc[h] = "ok" /\ call[c].op \in Ops
      BY <1>0, <2>5 DEF TypeInv, CallInv, Handlers
    <3>2. /\ known' \subseteq known \cup ({Adds(c)} \ {NoUuid})
          /\ settled' \subseteq settled \cup (IF solo[c] THEN {Adds(c)} \ {NoUuid} ELSE {})
          /\ revoked' \subseteq revoked \cup (IF solo[c] THEN {Removes(c)} \ {NoUuid} ELSE {})
      BY <1>3, <2>5 DEF Receive
    <3>3. solo[c] => /\ Adds(c) # NoUuid => Adds(c) \in store
                     /\ Removes(c) # NoUuid => Removes(c) \notin store
      <4>1. solo[c] => /\ Added(h) => Adds(c) \in store
                       /\ Removed(h) => Removes(c) \notin store
        BY <1>0, <3>1 DEF ProgressInv
      <4>2. /\ Adds(c) # NoUuid => Added(h)
            /\ Removes(c) # NoUuid => Removed(h)
        BY <1>0, <3>1 DEF OwnInv, Added, Removed, Adds, Removes, Ops
      <4> QED BY <4>1, <4>2
    <3>4. ASSUME NEW d \in Calls, Busy(d), solo[c]
          PROVE  /\ Adds(d) # NoUuid => Adds(d) # Removes(c)
                 /\ Removes(d) # NoUuid => Removes(d) # Adds(c)
      <4>1. /\ Adds(c) # Removes(c)
            /\ Adds(c) \in Uuids => DeviceOf[Adds(c)] = DeviceOf[call[c].uuid]
            /\ Removes(c) \in Uuids => DeviceOf[Removes(c)] = DeviceOf[call[c].uuid]
        BY <1>0, AddsRemoves
      <4>2. /\ Adds(d) \in Uuids => DeviceOf[Adds(d)] = DeviceOf[call[d].uuid]
            /\ Removes(d) \in Uuids => DeviceOf[Removes(d)] = DeviceOf[call[d].uuid]
            /\ Adds(d) \in Uuids \cup {NoUuid} /\ Removes(d) \in Uuids \cup {NoUuid}
        BY <3>4, AddsRemoves, BusyStarted
      <4>3. d # c => DeviceOf[call[d].uuid] # DeviceOf[call[c].uuid]
        BY <1>0, <3>4 DEF OwnInv
      <4> QED BY <4>1, <4>2, <4>3
    <3>5. AckInv'
      <4>1. {Adds(c), Removes(c)} \subseteq Mentioned \cup {NoUuid}
        BY DEF Adds, Removes, Mentioned
      <4>2. known' \cup settled' \cup revoked' \subseteq Mentioned'
        BY <2>2, <3>2, <4>1, SameCallsFacts DEF AckInv
      <4>3. settled' \subseteq store /\ revoked' \cap store = {}
        BY <3>2, <3>3 DEF AckInv
      <4>4. revoked' \subseteq Uuids /\ settled' \subseteq Uuids
        BY <1>0, <1>3, ClientTypeInv DEF ClientNext, TypeInv, TypeOK
      <4>5. ASSUME NEW d \in Calls, Busy(d)
            PROVE  Adds(d) \notin revoked' /\ Removes(d) \notin settled'
        BY <3>2, <3>4, <4>4, <4>5, NoUuidAssumption DEF AckInv
      <4> QED BY <2>1, <2>2, <2>3, <4>2, <4>3, <4>5, SameCallsFacts DEF AckInv
    <3>6. OwnInv'
      BY <2>1, <2>2, <2>3, OwnFrame DEF OwnInv
    <3>7. ProgressInv'
      <4>1. \A g \in Handlers : g[1] \in Calls
        BY DEF Handlers
      <4> QED BY <2>1, <2>2, <2>3, <4>1, SameCallsFacts DEF ProgressInv, Added, Removed, SameCalls
    <3> QED BY <3>5, <3>6, <3>7
  <2> QED BY <2>4, <2>5
<1> QED BY <1>1, <1>2, <1>3 DEF ClientNext

LEMMA StartStoreInv ==
    ASSUME TypeInv, StoreInv, StartCall
    PROVE  StoreInv'
PROOF
<1> USE DEF StoreInv
<1>1. PICK c \in Calls, op \in Ops, u \in Uuids, n \in Uuids \cup {NoUuid} :
        /\ Start(c, op, u, n)
        /\ IF op = "rotate" THEN n \in Uuids /\ n \notin Mentioned /\ u \in known
                                 /\ DeviceOf[n] = DeviceOf[u]
                            ELSE n = NoUuid
        /\ IF op = "create" THEN revoked' = revoked \ {u} /\ UNCHANGED settled
                            ELSE settled' = settled \ {u} /\ UNCHANGED revoked
  BY DEF StartCall, StartCreate, StartRemove, StartRotate, Ops
<1> DEFINE r == [op |-> op, uuid |-> u, new |-> n, attempt |-> 1, st |-> "send"]
<1>2. /\ call[c].st = "idle" /\ UNCHANGED <<store, pc, known>>
      /\ \A d \in Calls : call'[d] = IF d = c THEN r ELSE call[d]
      /\ \A d \in Calls : solo'[d] <=> IF d = c THEN \A y \in Calls : Busy(y) => ~SameDevice(y, u)
                                       ELSE solo[d] /\ ~SameDevice(d, u)
  BY <1>1 DEF Start, TypeInv, TypeOK
<1>3. /\ call'[c].op = op /\ call'[c].uuid = u /\ call'[c].new = n /\ call'[c].st = "send"
      /\ \A d \in Calls \ {c} : call'[d] = call[d]
  BY <1>2
<1> HIDE DEF r
<1>4. \A d \in Calls \ {c} : /\ Busy(d)' <=> Busy(d)
                             /\ Adds(d)' = Adds(d) /\ Removes(d)' = Removes(d)
  BY <1>2, <1>3 DEF Busy, InFlight, Adds, Removes
<1>5. \A h \in Handlers : h[1] \in Calls /\ (pc[h] # "idle" => h[1] # c)
  BY <1>2 DEF TypeInv, CallInv, Handlers
<1>6. u \in known => u # n
  BY <1>1, NoUuidAssumption DEF AckInv
<1>7. OwnInv'
  <2>1. \A h \in Handlers : /\ pc'[h] \in CreateSteps => call'[h[1]].op = "create"
                            /\ pc'[h] \in RemoveSteps => call'[h[1]].op = "remove"
    BY <1>2, <1>3, <1>5 DEF OwnInv, CreateSteps, RemoveSteps
  <2>2. \A d \in Calls : call'[d].st # "idle" =>
         IF call'[d].op = "rotate"
         THEN call'[d].new # call'[d].uuid /\ DeviceOf[call'[d].new] = DeviceOf[call'[d].uuid]
         ELSE call'[d].new = NoUuid
    BY <1>1, <1>3, <1>6 DEF OwnInv
  <2>3. ASSUME NEW d \in Calls, NEW e \in Calls, d # e, Busy(d)', Busy(e)', solo'[d]
        PROVE  DeviceOf[call'[e].uuid] # DeviceOf[call'[d].uuid]
    <3>1. CASE d = c
      <4>1. Busy(e) /\ ~SameDevice(e, u)
        BY <1>2, <1>4, <2>3, <3>1
      <4> QED BY <1>3, <2>3, <3>1, <4>1, BusyStarted, NoUuidAssumption DEF SameDevice
    <3>2. CASE e = c
      <4>1. Busy(d) /\ ~SameDevice(d, u)
        BY <1>2, <1>4, <2>3, <3>2
      <4> QED BY <1>3, <2>3, <3>2, <4>1, BusyStarted, NoUuidAssumption DEF SameDevice
    <3>3. CASE d # c /\ e # c
      BY <1>2, <1>3, <1>4, <2>3, <3>3 DEF OwnInv
    <3> QED BY <3>1, <3>2, <3>3
  <2>4. \A d \in Calls : call'[d].st = "idle" => call'[d].uuid = NoUuid /\ call'[d].new = NoUuid
    BY <1>3 DEF OwnInv
  <2> QED BY <2>1, <2>2, <2>3, <2>4 DEF OwnInv
<1>8. ProgressInv'
  <2> SUFFICES ASSUME NEW h \in Handlers, Busy(h[1])', solo'[h[1]]
               PROVE  /\ Added(h)' => Adds(h[1])' \in store
                      /\ Removed(h)' => Removes(h[1])' \notin store
    BY <1>2 DEF ProgressInv
  <2>1. CASE pc[h] = "idle"
    BY <1>2, <2>1 DEF Added, Removed
  <2>2. CASE pc[h] # "idle"
    <3>1. h[1] \in Calls \ {c} /\ Busy(h[1]) /\ solo[h[1]]
      BY <1>2, <1>4, <1>5, <2>2
    <3>2. (Added(h)' <=> Added(h)) /\ (Removed(h)' <=> Removed(h))
      BY <1>2, <1>3, <3>1 DEF Added, Removed
    <3> QED BY <1>4, <3>1, <3>2 DEF ProgressInv
  <2> QED BY <2>1, <2>2
<1>9. AckInv'
  <2>1. Mentioned \ {NoUuid} \subseteq Mentioned'
    <3> SUFFICES ASSUME NEW d \in Calls, NEW x \in {call[d].uuid, call[d].new}, x # NoUuid
                 PROVE  x \in Mentioned'
      BY DEF Mentioned
    <3>1. d # c
      <4>1. call[c].uuid = NoUuid /\ call[c].new = NoUuid
        BY <1>2 DEF OwnInv
      <4> QED BY <4>1
    <3> QED BY <1>3, <3>1 DEF Mentioned
  <2>2. NoUuid \notin known \cup settled \cup revoked
    BY NoUuidAssumption DEF TypeInv, TypeOK
  <2>3. settled' \subseteq settled /\ revoked' \subseteq revoked
    BY <1>1
  <2>4. known' \cup settled' \cup revoked' \subseteq Mentioned'
    BY <1>2, <2>1, <2>2, <2>3 DEF AckInv
  <2>5. Adds(c)' \notin revoked' /\ Removes(c)' \notin settled'
    <3>1. /\ Adds(c)' = IF op = "create" THEN u ELSE n
          /\ Removes(c)' = IF op = "create" THEN NoUuid ELSE u
      BY <1>3 DEF Adds, Removes
    <3> QED BY <1>1, <2>2, <2>3, <3>1 DEF AckInv
  <2> QED BY <1>2, <1>4, <2>3, <2>4, <2>5 DEF AckInv
<1> QED BY <1>7, <1>8, <1>9

(* Passes and failures leave the table and the calls alone. *)
LEMMA BackgroundStoreInv ==
    ASSUME TypeInv, StoreInv,
           Reconcile \/ XrayCrash \/ XrayRestart \/ AgentCrash \/ AgentRestart
    PROVE  StoreInv'
PROOF
<1>1. UNCHANGED <<store, call, known, solo, settled, revoked>>
  BY DEF Reconcile, ReconcileListEnabled, ReconcileListLive, ReconcileAdd, ReconcileRemove,
         ReconcileDone, ReconcileGrpcError, XrayCrash, XrayRestart, AgentCrash, AgentRestart,
         history
<1>2. \A h \in Handlers : pc'[h] = pc[h] \/ (InFlight(h) /\ pc'[h] = "lost")
  BY DEF Reconcile, ReconcileListEnabled, ReconcileListLive, ReconcileAdd, ReconcileRemove,
         ReconcileDone, ReconcileGrpcError, XrayCrash, XrayRestart, AgentCrash, AgentRestart
<1>3. SameCalls
  BY <1>1 DEF SameCalls
<1>4. \A d \in Calls : Busy(d)' => Busy(d)
  BY <1>1, <1>2 DEF Busy, InFlight, Ended, Handlers
<1> QED BY <1>1, <1>2, <1>3, <1>4, AckFrame

LEMMA NextStoreInv == TypeInv /\ StoreInv /\ [Next]_vars => StoreInv'
PROOF
<1> SUFFICES ASSUME TypeInv, StoreInv, [Next]_vars PROVE StoreInv'
  OBVIOUS
<1>1. CASE Next
  BY <1>1, StartStoreInv, ClientStoreInv, HandlerStoreInv, BackgroundStoreInv DEF Next
<1>2. CASE UNCHANGED vars
  <2>1. UNCHANGED <<store, call, pc, known, solo, settled, revoked>>
    BY <1>2 DEF vars
  <2> QED BY <2>1, AckFrame DEF SameCalls, Busy, InFlight
<1> QED BY <1>1, <1>2

LEMMA StoreInvariant == Spec => []StoreInv
PROOF
<1>1. ASSUME Init PROVE StoreInv
  <2>1. /\ \A c \in Calls : /\ call[c].st = "idle" /\ call[c].op = "none"
                            /\ call[c].uuid = NoUuid /\ call[c].new = NoUuid
        /\ \A h \in Handlers : pc[h] = "idle"
        /\ store = {} /\ known = {} /\ settled = {} /\ revoked = {}
    BY <1>1 DEF Init, NoCall
  <2>2. \A c \in Calls : ~Busy(c)
    BY <2>1 DEF Busy, InFlight, Ended, Handlers
  <2>3. OwnInv
    BY <2>1, <2>2 DEF OwnInv, CreateSteps, RemoveSteps
  <2>4. ProgressInv
    BY <2>1 DEF ProgressInv, Added, Removed
  <2>5. AckInv
    BY <2>1, <2>2 DEF AckInv
  <2> QED BY <2>3, <2>4, <2>5 DEF StoreInv
<1> QED BY <1>1, NextStoreInv, InitTypeInv, NextTypeInv, PTL DEF Spec

(* A credential whose creation or rotation the backend saw succeed stays   *)
(* in the table, through retried attempts that are still running, agent    *)
(* and Xray crashes and other devices' calls, until its removal is asked   *)
(* for.                                                                    *)
THEOREM SettledStays == Spec => []SettledUserIsStored
PROOF
<1>1. StoreInv => SettledUserIsStored
  BY DEF StoreInv, AckInv, SettledUserIsStored
<1> QED BY <1>1, StoreInvariant, PTL

(* A credential whose removal the backend saw succeed is gone from the     *)
(* table for good: no late attempt, pass or restart brings it back unless  *)
(* its creation is asked for again.                                        *)
THEOREM RevokedStaysOut == Spec => []RevokedUserIsNotStored
PROOF
<1>1. StoreInv => RevokedUserIsNotStored
  BY DEF StoreInv, AckInv, RevokedUserIsNotStored
<1> QED BY <1>1, StoreInvariant, PTL
=============================================================================
