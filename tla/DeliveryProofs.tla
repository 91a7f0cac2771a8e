--------------------------- MODULE DeliveryProofs ---------------------------
(***************************************************************************)
(* Proofs about Delivery for any number of fetches, link requests and      *)
(* regenerations: a fetch delivers only what was alive at some time since  *)
(* it began, the token handed out last opens the link, accesses are        *)
(* counted unless fetches overlap or fail to commit.                       *)
(***************************************************************************)
EXTENDS Delivery, RoutingProofs

LinkStatus   == {"none", "active", "revoked"}
LinkRecords  == [pc : {"none", "answer", "commit"}, op : {"none", "rotate", "revoke"},
                 seen : LinkStatus, token : Nat]
PastDevice   == {"peer", "profile", "answer", "done", "error"} \cup {"subscription"}
FetchSteps   == {"none", "link", "device"} \cup PastDevice
FetchRecords == [pc : FetchSteps, token : Nat, count : Nat, dead : SUBSET Conditions,
                 got : SUBSET (1 .. MaxGens)]

LinkShape ==
    /\ protocol \in {"wireguard", "vless"} /\ device \in Statuses /\ cred \in Statuses
    /\ sub \in BOOLEAN /\ over \in BOOLEAN
    /\ linkRow \in [token : Nat, status : LinkStatus, count : Nat]
    /\ linkTx \in [LinkOps -> LinkRecords] /\ ops \in Nat
    /\ linkRow.token <= ops /\ \A o \in LinkOps : linkTx[o].token <= ops
    /\ handed \in Nat /\ tangled \in BOOLEAN
    /\ fetch \in [Fetches -> FetchRecords] /\ fetched \in Nat /\ crowded \in BOOLEAN

(* What a fetch has never found alive is not alive now; and it has found   *)
(* alive what it has got past.                                             *)
Alive(c, f) == \/ c = "link" /\ linkRow.status = "active" /\ linkRow.token = fetch[f].token
               \/ c = "device" /\ device = "active"
               \/ c = "subscription" /\ sub /\ ~over

DeadInv ==
    \A f \in Fetches :
        /\ \A c \in fetch[f].dead : ~Alive(c, f)
        /\ fetch[f].pc \notin {"none", "link"} => "link" \notin fetch[f].dead
        /\ fetch[f].pc \in PastDevice => "device" \notin fetch[f].dead
        /\ fetch[f].pc \in PastDevice \ {"subscription"} => "subscription" \notin fetch[f].dead

(* As long as link requests did not overlap and none was lost, the open    *)
(* one has read the link as it is, and what was handed out is on its way.  *)
TokenInv ==
    ~tangled =>
        /\ \A o, p \in OpenLinkTx : o = p
        /\ \A o \in OpenLinkTx : linkTx[o].seen = linkRow.status /\ linkTx[o].op # "none"
        /\ \A o \in LinkOps : linkTx[o].pc = "commit" =>
               handed = IF linkTx[o].op = "rotate" THEN linkTx[o].token ELSE 0
        /\ \/ \E o \in LinkOps : linkTx[o].pc = "commit"
           \/ handed = 0
           \/ linkRow.token = handed /\ linkRow.status = "active"

(* A fetch adds one to the count it has read, which nobody has changed     *)
(* since if it is alone; a delivery that is not counted yet is its own.    *)
Uncounted == \E f \in Fetches : fetch[f].pc = "done"

AccessInv ==
    /\ linkRow.count <= fetched
    /\ \A f \in Fetches : /\ fetch[f].count <= fetched
                          /\ fetch[f].pc = "done" => fetch[f].count < fetched
    /\ ~crowded =>
         /\ fetched = linkRow.count + IF Uncounted THEN 1 ELSE 0
         /\ \A f, g \in OpenFetches : f = g
         /\ \A f \in Fetches : fetch[f].pc \in {"device", "subscription", "peer",
                                          "profile", "answer", "done"}
                                   => fetch[f].count = linkRow.count

DeliveryInv == RoutingInv /\ LinkShape /\ DeadInv /\ TokenInv /\ AccessInv

-----------------------------------------------------------------------------
(* The routing half. *)

LEMMA RoutingKept == RoutingInv /\ UNCHANGED routingVars => RoutingInv'
  BY RoutingStep

(* A step of the settings or of a regeneration touches neither the link    *)
(* nor a fetch.                                                            *)
LEMMA RoutingOnly ==
    ASSUME DeliveryInv, RoutingNext, UNCHANGED <<entity, linkVars, fetchVars>>
    PROVE  DeliveryInv'
<1> USE DEF DeliveryInv, entity, linkVars, fetchVars
<1>1. RoutingInv'
  BY RoutingStep
<1>3. UNCHANGED <<protocol, device, cred, sub, over, linkRow, linkTx, ops, handed, tangled, fetch,
                  fetched, crowded>>
  OBVIOUS
<1>4. LinkShape'
  BY <1>3 DEF LinkShape
<1>5. DeadInv'
  BY <1>3 DEF DeadInv, Alive
<1>6. TokenInv'
  BY <1>3 DEF TokenInv, OpenLinkTx
<1>7. AccessInv'
  BY <1>3 DEF AccessInv, Uncounted, OpenFetches
<1> QED BY <1>1, <1>4, <1>5, <1>6, <1>7

-----------------------------------------------------------------------------
(* Fetches. *)

FetchSets(f, r) == /\ r \in FetchRecords
                   /\ fetch' \in [Fetches -> FetchRecords]
                   /\ fetch'[f] = r
                   /\ \A g \in Fetches \ {f} : fetch'[g] = fetch[g]

LEMMA FetchUpdate ==
    ASSUME LinkShape, NEW f \in Fetches, NEW r \in FetchRecords, fetch' = [fetch EXCEPT ![f] = r]
    PROVE  FetchSets(f, r)
  BY DEF LinkShape, FetchSets

LEMMA NoFetchRecord == NoFetch \in FetchRecords
  BY DEF NoFetch, FetchRecords, FetchSteps

LEMMA NotFoundSets == ASSUME LinkShape, NEW f \in Fetches, NotFound(f) PROVE FetchSets(f, NoFetch)
  BY NoFetchRecord, FetchUpdate DEF NotFound

LEMMA GoSets ==
    ASSUME LinkShape, NEW f \in Fetches, NEW s \in FetchSteps, Go(f, s)
    PROVE  FetchSets(f, [fetch[f] EXCEPT !.pc = s])
<1>1. fetch[f] \in FetchRecords
  BY DEF LinkShape
<1>2. [fetch[f] EXCEPT !.pc = s] \in FetchRecords
  BY <1>1 DEF FetchRecords
<1>3. fetch' = [fetch EXCEPT ![f] = [fetch[f] EXCEPT !.pc = s]]
  BY DEF Go
<1> QED BY <1>2, <1>3, FetchUpdate

(* A fetch that reads on or ends: it does not look deader than it is.      *)
LEMMA FetchReads ==
    ASSUME DeliveryInv, NEW f \in Fetches, NEW r, FetchSets(f, r), fetch[f].pc # "none",
           UNCHANGED <<routingVars, entity, linkVars, fetched>>,
           crowded' = TRUE \/ (crowded' = crowded /\ fetch[f].pc # "done"),
           \/ r.dead = {}
           \/ r.dead = fetch[f].dead /\ r.token = fetch[f].token,
           r.pc \notin {"none", "link"} => "link" \notin r.dead,
           r.pc \in PastDevice => "device" \notin r.dead,
           r.pc \in PastDevice \ {"subscription"} => "subscription" \notin r.dead,
           r.count <= fetched, r.pc # "done",
           ~crowded' /\ r.pc \in {"device", "subscription", "peer", "profile", "answer"}
               => r.count = linkRow.count
    PROVE  DeliveryInv'
<1> USE DEF DeliveryInv, entity, linkVars
<1>1. \A g \in Fetches : fetch'[g] = IF g = f THEN r ELSE fetch[g]
  BY DEF FetchSets
<1>2. RoutingInv'
  BY RoutingKept DEF routingVars
<1>3. LinkShape'
  BY DEF LinkShape, FetchSets
<1>4. DeadInv'
  BY <1>1 DEF DeadInv, Alive
<1>5. TokenInv'
  BY DEF TokenInv, OpenLinkTx
<1>6. AccessInv'
  <2>1. ~crowded' => ~crowded /\ (Uncounted' <=> Uncounted)
    BY <1>1 DEF LinkShape, Uncounted
  <2>2. \A g \in OpenFetches' : g \in OpenFetches
    BY <1>1 DEF OpenFetches
  <2> QED BY <1>1, <2>1, <2>2 DEF AccessInv
<1> QED BY <1>2, <1>3, <1>4, <1>5, <1>6

LEMMA FetchEnds ==
    ASSUME DeliveryInv, NEW f \in Fetches, NotFound(f), fetch[f].pc # "none",
           UNCHANGED <<routingVars, entity, linkVars, fetched>>,
           crowded' = TRUE \/ (crowded' = crowded /\ fetch[f].pc # "done")
    PROVE  DeliveryInv'
<1>1. FetchSets(f, NoFetch)
  BY NotFoundSets DEF DeliveryInv
<1>2. NoFetch.pc = "none" /\ NoFetch.count = 0 /\ NoFetch.dead = {}
  BY DEF NoFetch
<1>3. 0 <= fetched
  BY DEF DeliveryInv, LinkShape
<1> QED BY <1>1, <1>2, <1>3, FetchReads DEF PastDevice

LEMMA FetchStep ==
    ASSUME DeliveryInv, NEW f \in Fetches, Fetch(f)
    PROVE  DeliveryInv'
PROOF
<1> USE DEF DeliveryInv
<1>0. /\ fetch[f] \in FetchRecords /\ fetch[f].count <= fetched /\ fetched \in Nat
      /\ linkRow \in [token : Nat, status : LinkStatus, count : Nat]
  BY DEF LinkShape, AccessInv
<1>b. ASSUME UnchangedByFetch, UNCHANGED linkRow
      PROVE  UNCHANGED <<routingVars, entity, linkVars>>
  BY <1>b DEF UnchangedByFetch, linkVars
(* A check that found its condition true. *)
<1>a. ASSUME NEW s \in FetchSteps, Go(f, s), fetch[f].pc # "none",
             UnchangedByFetch, UNCHANGED <<linkRow, fetches, fetched, crowded>>,
             fetch[f].pc \in {"device", "subscription", "peer", "profile"},
             s \in PastDevice => "device" \notin fetch[f].dead,
             s \in PastDevice \ {"subscription"} => "subscription" \notin fetch[f].dead,
             s # "done"
      PROVE DeliveryInv'
  <2> DEFINE r == [fetch[f] EXCEPT !.pc = s]
  <2>1. FetchSets(f, r)
    BY <1>a, GoSets
  <2>2. /\ r.pc = s /\ r.dead = fetch[f].dead /\ r.token = fetch[f].token
        /\ r.count = fetch[f].count
    BY <1>0 DEF FetchRecords
  <2>3. "link" \notin fetch[f].dead
    BY <1>a DEF DeadInv
  <2>4. ~crowded => fetch[f].count = linkRow.count
    BY <1>a DEF AccessInv
  <2> HIDE DEF r
  <2> QED BY <1>0, <1>a, <1>b, <2>1, <2>2, <2>3, <2>4, FetchReads
<1>1. ASSUME NEW token \in 1 .. ops, StartFetch(f, token) PROVE DeliveryInv'
  <2> DEFINE dead == {c \in Conditions : \/ c = "link" /\ ~(linkRow.status = "active"
                                                           /\ linkRow.token = token)
                                         \/ c = "device" /\ device # "active"
                                         \/ c = "subscription" /\ (~sub \/ over)}
             r == [NoFetch EXCEPT !.pc = "link", !.token = token, !.dead = dead]
  <2>1. token \in Nat /\ dead \in SUBSET Conditions
    BY DEF LinkShape
  <2>2. r \in FetchRecords
    <3> HIDE DEF dead
    <3> QED BY <2>1, NoFetchRecord DEF FetchRecords, FetchSteps
  <2>3. FetchSets(f, r)
    BY <1>1, <2>2, FetchUpdate DEF StartFetch
  <2>4. r.pc = "link" /\ r.token = token /\ r.count = 0 /\ r.dead = dead
    BY DEF NoFetch
  <2>5. \A g \in Fetches : fetch'[g] = IF g = f THEN r ELSE fetch[g]
    BY <2>3 DEF FetchSets
  <2>6. RoutingInv'
    BY <1>1, RoutingKept DEF StartFetch, UnchangedByFetch, routingVars
  <2>7. UNCHANGED <<entity, linkRow, linkTx, ops, handed, tangled, fetched>>
        /\ crowded' = (crowded \/ OpenFetches # {}) /\ fetch[f].pc = "none"
    BY <1>1 DEF StartFetch, UnchangedByFetch
  <2>8. LinkShape'
    BY <2>3, <2>7 DEF LinkShape, FetchSets, entity
  <2>9. DeadInv'
    <3>1. \A c \in dead : /\ c = "link" => ~(linkRow.status = "active" /\ linkRow.token = token)
                          /\ c = "device" => device # "active"
                          /\ c = "subscription" => ~sub \/ over
      OBVIOUS
    <3>2. UNCHANGED <<device, sub, over, linkRow>>
      BY <2>7 DEF entity
    <3>3. \A c \in fetch'[f].dead : ~Alive(c, f)'
      <4> HIDE DEF r
      <4> SUFFICES ASSUME NEW c \in dead PROVE ~Alive(c, f)'
        BY <2>4, <2>5
      <4>1. c \in {"link", "device", "subscription"}
        BY DEF Conditions
      <4>2. fetch'[f].token = token
        BY <2>4, <2>5
      <4> HIDE DEF dead
      <4> QED BY <3>1, <3>2, <4>1, <4>2 DEF Alive
    <3> HIDE DEF r, dead
    <3>4. \A g \in Fetches \ {f} : fetch'[g] = fetch[g]
      BY <2>5
    <3>5. fetch'[f].pc = "link"
      BY <2>4, <2>5
    <3>6. \A g \in Fetches \ {f} : \A c : Alive(c, g)' <=> Alive(c, g)
      BY <3>2, <3>4 DEF Alive
    <3> QED BY <3>3, <3>4, <3>5, <3>6 DEF DeadInv, PastDevice
  <2> HIDE DEF r, dead
  <2>10. TokenInv'
    BY <2>7 DEF TokenInv, OpenLinkTx
  <2>11. AccessInv'
    <3>1. OpenFetches' = OpenFetches \cup {f} /\ f \notin OpenFetches
      BY <2>4, <2>5, <2>7 DEF OpenFetches
    <3>2. ~crowded' => OpenFetches = {} /\ ~crowded
      BY <2>7 DEF LinkShape
    <3>3. linkRow' = linkRow /\ fetched' = fetched
      BY <2>7
    <3>4. \A g \in Fetches : fetch'[g].count <= fetched
      BY <1>0, <2>4, <2>5 DEF AccessInv
    <3>5. \A g \in Fetches :
              fetch'[g].pc \notin {"none", "link"} => g # f /\ fetch'[g] = fetch[g]
      BY <2>4, <2>5
    <3>6. Uncounted' <=> Uncounted
      BY <2>4, <2>5, <2>7 DEF Uncounted
    <3> QED BY <3>1, <3>2, <3>3, <3>4, <3>5, <3>6 DEF AccessInv
  <2> QED BY <2>6, <2>8, <2>9, <2>10, <2>11
<1>2. CASE ResolveToken(f)
  <2>1. CASE linkRow.token = fetch[f].token /\ linkRow.status = "active"
    <3> DEFINE r == [fetch[f] EXCEPT !.pc = "device", !.count = linkRow.count]
    <3>1. "device" \in FetchSteps /\ linkRow.count \in Nat
      BY <1>0 DEF FetchSteps
    <3>2. r \in FetchRecords
      BY <1>0, <3>1 DEF FetchRecords
    <3>3. fetch' = [fetch EXCEPT ![f] = r]
      BY <1>2, <2>1 DEF ResolveToken
    <3>4. FetchSets(f, r)
      BY <3>2, <3>3, FetchUpdate
    <3>5. /\ r.pc = "device" /\ r.count = linkRow.count /\ r.dead = fetch[f].dead
          /\ r.token = fetch[f].token
      BY <1>0 DEF FetchRecords
    <3>6. "link" \notin fetch[f].dead
      BY <2>1 DEF DeadInv, Alive
    <3>7. linkRow.count <= fetched
      BY DEF AccessInv
    <3> HIDE DEF r
    <3> QED BY <1>2, <1>b, <3>4, <3>5, <3>6, <3>7, FetchReads DEF ResolveToken, PastDevice
  <2>2. CASE ~(linkRow.token = fetch[f].token /\ linkRow.status = "active")
    BY <1>2, <1>b, <2>2, FetchEnds DEF ResolveToken
  <2> QED BY <2>1, <2>2
<1>3. CASE CheckDevice(f)
  <2>1. Served => "device" \notin fetch[f].dead
    BY DEF DeadInv, Alive, Served
  <2>2. "subscription" \in FetchSteps
    BY DEF FetchSteps, PastDevice
  <2> QED BY <1>3, <1>a, <1>b, <2>1, <2>2, FetchEnds DEF CheckDevice
<1>4. CASE CheckSubscription(f)
  <2>1. sub /\ ~over => "subscription" \notin fetch[f].dead
    BY DEF DeadInv, Alive
  <2>2. "peer" \in FetchSteps /\ fetch[f].pc \in PastDevice
    BY <1>4 DEF FetchSteps, PastDevice, CheckSubscription
  <2>3. "device" \notin fetch[f].dead
    BY <2>2 DEF DeadInv
  <2> QED BY <1>4, <1>a, <1>b, <2>1, <2>2, <2>3, FetchEnds DEF CheckSubscription
<1>5. fetch[f].pc \in {"peer", "profile", "answer", "done"} =>
          fetch[f].dead \cap {"link", "device", "subscription"} = {}
  BY DEF DeadInv, PastDevice
<1>6. CASE ReadPeer(f)
  <2>1. (IF protocol = "vless" THEN "answer" ELSE "profile") \in FetchSteps \ {"done"}
    BY DEF FetchSteps, PastDevice
  <2>2. CASE cred = "active"
    BY <1>5, <1>6, <1>a, <2>1, <2>2 DEF ReadPeer
  <2>3. CASE cred # "active"
    BY <1>6, <1>b, <2>3, FetchEnds DEF ReadPeer
  <2> QED BY <2>2, <2>3
<1>7. CASE ReadProfile(f)
  <2>1. CASE Cardinality(Current) > 1
    <3>1. "error" \in FetchSteps
      BY DEF FetchSteps, PastDevice
    <3> QED BY <1>5, <1>7, <1>a, <2>1, <3>1 DEF ReadProfile
  <2>2. CASE ~(Cardinality(Current) > 1)
    <3> DEFINE r == [fetch[f] EXCEPT !.pc = "answer", !.got = {x.id : x \in Current}]
    <3>1. {x.id : x \in Current} \in SUBSET (1 .. MaxGens) /\ "answer" \in FetchSteps
      BY DEF RoutingInv, Shape, Row, Current, FetchSteps, PastDevice
    <3>2. r \in FetchRecords
      BY <1>0, <3>1 DEF FetchRecords
    <3>3. fetch' = [fetch EXCEPT ![f] = r]
      BY <1>7, <2>2 DEF ReadProfile
    <3>4. FetchSets(f, r)
      BY <3>2, <3>3, FetchUpdate
    <3>5. /\ r.pc = "answer" /\ r.count = fetch[f].count /\ r.dead = fetch[f].dead
          /\ r.token = fetch[f].token
      BY <1>0 DEF FetchRecords
    <3>6. ~crowded => fetch[f].count = linkRow.count
      BY <1>7 DEF AccessInv, ReadProfile
    <3> HIDE DEF r
    <3> QED BY <1>0, <1>5, <1>7, <1>b, <3>4, <3>5, <3>6, FetchReads DEF ReadProfile
  <2> QED BY <2>1, <2>2
<1>8. CASE Deliver(f)
  <2> DEFINE r == [fetch[f] EXCEPT !.pc = "done"]
  <2>1. "done" \in FetchSteps
    BY DEF FetchSteps, PastDevice
  <2>2. FetchSets(f, r)
    BY <1>8, <2>1, GoSets DEF Deliver
  <2>3. /\ r.pc = "done" /\ r.count = fetch[f].count /\ r.dead = fetch[f].dead
        /\ r.token = fetch[f].token
    BY <1>0 DEF FetchRecords
  <2> HIDE DEF r
  <2>4. \A g \in Fetches : fetch'[g] = IF g = f THEN r ELSE fetch[g]
    BY <2>2 DEF FetchSets
  <2>5. /\ UNCHANGED <<entity, linkRow, linkTx, ops, handed, tangled, crowded>>
        /\ fetched' = fetched + 1 /\ fetch[f].pc = "answer"
    BY <1>8 DEF Deliver, UnchangedByFetch
  <2>6. RoutingInv'
    BY <1>8, RoutingKept DEF Deliver, UnchangedByFetch, routingVars
  <2>7. LinkShape'
    BY <1>0, <2>2, <2>5 DEF LinkShape, FetchSets, entity
  <2>8. DeadInv'
    <3>1. \A g \in Fetches : \A c : Alive(c, g)' <=> Alive(c, g)
      BY <2>3, <2>4, <2>5 DEF Alive, entity
    <3> QED BY <2>3, <2>4, <2>5, <3>1 DEF DeadInv, PastDevice
  <2>9. TokenInv'
    BY <2>5 DEF TokenInv, OpenLinkTx
  <2>10. AccessInv'
    <3>1. ~crowded => /\ fetch[f].count = linkRow.count /\ \A g \in OpenFetches : g = f
                      /\ ~Uncounted /\ fetched = linkRow.count
      <4> SUFFICES ASSUME ~crowded
                   PROVE  /\ fetch[f].count = linkRow.count /\ \A g \in OpenFetches : g = f
                          /\ ~Uncounted /\ fetched = linkRow.count
        OBVIOUS
      <4>1. fetch[f].count = linkRow.count /\ \A g \in OpenFetches : g = f
        BY <2>5 DEF AccessInv, OpenFetches
      <4>2. ~Uncounted
        BY <2>5, <4>1 DEF OpenFetches, Uncounted
      <4>3. fetched = linkRow.count
        BY <1>0, <4>2 DEF AccessInv
      <4> QED BY <4>1, <4>2, <4>3
    <3>2. OpenFetches' = OpenFetches /\ Uncounted'
      BY <2>3, <2>4, <2>5 DEF OpenFetches, Uncounted
    <3>3. \A g \in Fetches : fetch'[g].count = fetch[g].count /\ fetch[g].count \in Nat
      BY <2>3, <2>4 DEF LinkShape, FetchRecords
    <3>4. \A g \in Fetches : ~crowded /\ fetch'[g].pc # "none" => g = f
      BY <2>4, <3>1 DEF OpenFetches
    <3> QED BY <1>0, <2>5, <3>1, <3>2, <3>3, <3>4 DEF AccessInv
  <2> QED BY <2>6, <2>7, <2>8, <2>9, <2>10
<1>9. CASE CommitAccess(f)
  <2>1. FetchSets(f, NoFetch)
    BY <1>9, NotFoundSets DEF CommitAccess
  <2>2. NoFetch.pc = "none" /\ NoFetch.count = 0 /\ NoFetch.dead = {}
    BY DEF NoFetch
  <2>3. \A g \in Fetches : fetch'[g] = IF g = f THEN NoFetch ELSE fetch[g]
    BY <2>1 DEF FetchSets
  <2>4. /\ linkRow' \in [token : Nat, status : LinkStatus, count : Nat]
        /\ linkRow'.token = linkRow.token /\ linkRow'.status = linkRow.status
        /\ linkRow'.count = fetch[f].count + 1
    BY <1>0, <1>9 DEF CommitAccess, FetchRecords
  <2>5. UNCHANGED <<entity, linkTx, ops, handed, tangled, fetched, crowded>> /\ fetch[f].pc = "done"
    BY <1>9 DEF CommitAccess, UnchangedByFetch
  <2>6. RoutingInv'
    BY <1>9, RoutingKept DEF CommitAccess, UnchangedByFetch, routingVars
  <2>7. LinkShape'
    BY <2>1, <2>4, <2>5 DEF LinkShape, FetchSets, entity
  <2>8. DeadInv'
    <3>1. \A g \in Fetches \ {f} : fetch'[g] = fetch[g]
      BY <2>3
    <3>2. \A g \in Fetches \ {f} : \A c : Alive(c, g)' <=> Alive(c, g)
      BY <2>4, <2>5, <3>1 DEF Alive, entity
    <3>3. fetch'[f].pc = "none" /\ fetch'[f].dead = {}
      BY <2>2, <2>3
    <3> QED BY <3>1, <3>2, <3>3 DEF DeadInv, PastDevice
  <2>9. TokenInv'
    BY <2>4, <2>5 DEF TokenInv, OpenLinkTx
  <2>10. AccessInv'
    <3>1. fetch[f].count \in Nat /\ fetch[f].count < fetched
      BY <1>0, <2>5 DEF AccessInv, FetchRecords
    <3>2. ~crowded => /\ fetch[f].count = linkRow.count /\ Uncounted
                      /\ fetched = linkRow.count + 1 /\ \A g \in OpenFetches : g = f
      BY <2>5 DEF AccessInv, OpenFetches, Uncounted
    <3>3. ~crowded => \A g \in Fetches : fetch'[g].pc = "none"
      BY <2>2, <2>3, <3>2 DEF OpenFetches
    <3>4. ~crowded => ~Uncounted' /\ OpenFetches' = {}
      BY <3>3 DEF Uncounted, OpenFetches
    <3>5. \A g \in Fetches : /\ fetch'[g].count <= fetched
                             /\ fetch'[g].pc = "done" => fetch'[g].count < fetched
      BY <1>0, <2>2, <2>3 DEF AccessInv
    <3> QED BY <1>0, <2>4, <2>5, <3>1, <3>2, <3>3, <3>4, <3>5 DEF AccessInv
  <2> QED BY <2>6, <2>7, <2>8, <2>9, <2>10
<1>10. CASE LoseAccess(f)
  BY <1>10, FetchEnds DEF LoseAccess
<1>11. CASE FailFetch(f)
  BY <1>11, <1>b, FetchEnds DEF FailFetch
<1> QED BY <1>1, <1>2, <1>3, <1>4, <1>6, <1>7, <1>8, <1>9, <1>10, <1>11 DEF Fetch

-----------------------------------------------------------------------------
(* Requests on the link. *)

LinkSets(o, x) == /\ x \in LinkRecords
                  /\ linkTx' \in [LinkOps -> LinkRecords]
                  /\ linkTx'[o] = x
                  /\ \A p \in LinkOps \ {o} : linkTx'[p] = linkTx[p]

LEMMA LinkUpdate ==
    ASSUME LinkShape, NEW o \in LinkOps, NEW x \in LinkRecords, linkTx' = [linkTx EXCEPT ![o] = x]
    PROVE  LinkSets(o, x)
  BY DEF LinkShape, LinkSets

LEMMA NoLinkRecord == NoLinkTx \in LinkRecords
  BY DEF NoLinkTx, LinkRecords, LinkStatus

(* A request that leaves the row as it is disturbs no fetch. *)
LEMMA RowKept ==
    ASSUME DeliveryInv, UNCHANGED <<routingVars, entity, linkRow, fetchVars>>, LinkShape', TokenInv'
    PROVE  DeliveryInv'
<1> USE DEF DeliveryInv, entity, fetchVars
<1>1. RoutingInv'
  BY RoutingKept DEF routingVars
<1>2. UNCHANGED <<device, sub, over, linkRow, fetch, fetched, crowded>>
  OBVIOUS
<1>3. DeadInv'
  BY <1>2 DEF DeadInv, Alive
<1>4. AccessInv'
  BY <1>2 DEF AccessInv, Uncounted, OpenFetches
<1> QED BY <1>1, <1>3, <1>4

LEMMA StartLinkOpStep ==
    ASSUME DeliveryInv, NEW o \in LinkOps, NEW op \in {"rotate", "revoke"}, StartLinkOp(o, op)
    PROVE  DeliveryInv'
<1> USE DEF DeliveryInv
<1> DEFINE x == [pc |-> "answer", op |-> op, seen |-> linkRow.status, token |-> ops + 1]
<1>1. /\ UNCHANGED <<routingVars, entity, linkRow, handed, fetchVars>>
      /\ ops' = ops + 1 /\ tangled' = (tangled \/ OpenLinkTx # {}) /\ linkTx[o].pc = "none"
  BY DEF StartLinkOp
<1>2. x \in LinkRecords /\ linkRow.status \in LinkStatus
  BY DEF LinkShape, LinkRecords
<1>3. LinkSets(o, x)
  BY <1>1, <1>2, LinkUpdate DEF StartLinkOp
<1>4. x.pc = "answer" /\ x.op = op /\ x.seen = linkRow.status /\ x.token = ops + 1
  OBVIOUS
<1> HIDE DEF x
<1>5. /\ ops \in Nat /\ linkRow.token \in Nat /\ linkRow.token <= ops
      /\ \A p \in LinkOps : linkTx[p].token \in Nat /\ linkTx[p].token <= ops
  BY DEF LinkShape, LinkRecords
<1>6. LinkShape'
  <2>1. ops' \in Nat /\ linkRow'.token <= ops' /\ \A p \in LinkOps : linkTx'[p].token <= ops'
    BY <1>1, <1>3, <1>4, <1>5 DEF LinkSets
  <2>2. tangled' \in BOOLEAN
    BY <1>1 DEF LinkShape
  <2> QED BY <1>1, <1>3, <2>1, <2>2 DEF LinkShape, LinkSets, entity, fetchVars
<1>7. TokenInv'
  <2> SUFFICES ASSUME ~tangled' PROVE TokenInv'
    BY DEF TokenInv
  <2>1. ~tangled /\ OpenLinkTx = {}
    BY <1>1 DEF LinkShape
  <2>2. OpenLinkTx' = {o}
    BY <1>3, <1>4, <2>1 DEF OpenLinkTx, LinkSets
  <2>3. \A p \in LinkOps : linkTx[p].pc # "commit" /\ linkTx'[p].pc # "commit"
    BY <1>3, <1>4, <2>1 DEF OpenLinkTx, LinkSets
  <2>4. handed' = 0 \/ (linkRow'.token = handed' /\ linkRow'.status = "active")
    BY <1>1, <2>1, <2>3 DEF TokenInv
  <2>5. linkTx'[o].seen = linkRow'.status /\ linkTx'[o].op # "none"
    BY <1>1, <1>3, <1>4 DEF LinkSets
  <2> QED BY <2>2, <2>3, <2>4, <2>5 DEF TokenInv
<1> QED BY <1>1, <1>6, <1>7, RowKept

LEMMA AnswerLinkOpStep ==
    ASSUME DeliveryInv, NEW o \in LinkOps, AnswerLinkOp(o)
    PROVE  DeliveryInv'
<1> USE DEF DeliveryInv
<1> DEFINE x == [linkTx[o] EXCEPT !.pc = "commit"]
<1>1. /\ UNCHANGED <<routingVars, entity, linkRow, ops, tangled, fetchVars>>
      /\ handed' = (IF linkTx[o].op = "rotate" THEN linkTx[o].token ELSE 0)
      /\ linkTx[o].pc = "answer"
  BY DEF AnswerLinkOp
<1>2. linkTx[o] \in LinkRecords
  BY DEF LinkShape
<1>3. x \in LinkRecords
  BY <1>2 DEF LinkRecords
<1>4. LinkSets(o, x)
  BY <1>3, LinkUpdate DEF AnswerLinkOp
<1>5. /\ x.pc = "commit" /\ x.op = linkTx[o].op /\ x.seen = linkTx[o].seen
      /\ x.token = linkTx[o].token
  BY <1>2 DEF LinkRecords
<1> HIDE DEF x
<1>6. LinkShape'
  <2>1. handed' \in Nat
    BY <1>1, <1>2 DEF LinkRecords
  <2>2. \A p \in LinkOps : linkTx'[p].token <= ops'
    BY <1>1, <1>4, <1>5 DEF LinkShape, LinkSets
  <2> QED BY <1>1, <1>4, <2>1, <2>2 DEF LinkShape, LinkSets, entity, fetchVars
<1>7. TokenInv'
  <2> SUFFICES ASSUME ~tangled' PROVE TokenInv'
    BY DEF TokenInv
  <2>1. ~tangled
    BY <1>1
  <2>2. OpenLinkTx' = {o} /\ OpenLinkTx = {o}
    BY <1>1, <1>4, <1>5, <2>1 DEF TokenInv, OpenLinkTx, LinkSets
  <2>3. linkTx'[o].pc = "commit" /\ \A p \in LinkOps : linkTx'[p].pc = "commit" => p = o
    BY <1>4, <1>5, <2>2 DEF OpenLinkTx, LinkSets
  <2>4. linkTx'[o].seen = linkRow'.status /\ linkTx'[o].op # "none"
    BY <1>1, <1>4, <1>5, <2>1, <2>2 DEF TokenInv, LinkSets
  <2>5. handed' = IF linkTx'[o].op = "rotate" THEN linkTx'[o].token ELSE 0
    BY <1>1, <1>4, <1>5 DEF LinkSets
  <2> QED BY <2>2, <2>3, <2>4, <2>5 DEF TokenInv
<1> QED BY <1>1, <1>6, <1>7, RowKept

LEMMA LoseLinkOpStep ==
    ASSUME DeliveryInv, NEW o \in LinkOps, LoseLinkOp(o)
    PROVE  DeliveryInv'
<1> USE DEF DeliveryInv
<1>1. UNCHANGED <<routingVars, entity, linkRow, ops, handed, fetchVars>> /\ tangled' = TRUE
  BY DEF LoseLinkOp
<1>2. LinkSets(o, NoLinkTx)
  BY NoLinkRecord, LinkUpdate DEF LoseLinkOp
<1>3. \A p \in LinkOps : linkTx'[p].token <= ops'
  BY <1>1, <1>2 DEF LinkShape, LinkSets, NoLinkTx
<1>4. LinkShape'
  BY <1>1, <1>2, <1>3 DEF LinkShape, LinkSets, entity, fetchVars
<1>5. TokenInv'
  BY <1>1 DEF TokenInv
<1> QED BY <1>1, <1>4, <1>5, RowKept

(* The new row: what a rotation that was not overlapped has handed out. *)
LEMMA CommitLinkOpStep ==
    ASSUME DeliveryInv, NEW o \in LinkOps, CommitLinkOp(o)
    PROVE  DeliveryInv'
<1> USE DEF DeliveryInv
<1>1. /\ UNCHANGED <<routingVars, entity, ops, handed, tangled, fetches, fetched, crowded>>
      /\ linkTx[o].pc = "commit"
  BY DEF CommitLinkOp
<1>2. /\ linkTx[o] \in LinkRecords /\ linkTx[o].token \in Nat /\ linkTx[o].token <= ops
      /\ linkRow \in [token : Nat, status : LinkStatus, count : Nat] /\ linkRow.token <= ops
  BY DEF LinkShape, LinkRecords
<1>3. LinkSets(o, NoLinkTx) /\ NoLinkTx.pc = "none" /\ NoLinkTx.token = 0
  BY NoLinkRecord, LinkUpdate DEF CommitLinkOp, NoLinkTx
<1>4. /\ linkRow' \in [token : Nat, status : LinkStatus, count : Nat]
      /\ linkRow'.count = linkRow.count /\ linkRow'.token <= ops
      /\ linkTx[o].op = "rotate" /\ linkTx[o].seen = linkRow.status =>
             linkRow'.token = linkTx[o].token /\ linkRow'.status = "active"
  <2> DEFINE x == linkTx[o]
  <2>1. CASE x.op = "revoke"
    <3>1. linkRow' = [linkRow EXCEPT !.status = IF x.seen = "revoked" THEN @ ELSE "revoked"]
      BY <2>1 DEF CommitLinkOp
    <3> QED BY <1>2, <2>1, <3>1 DEF LinkStatus
  <2>2. CASE x.op # "revoke" /\ x.op = "rotate" /\ x.seen = "none" /\ linkRow.status # "none"
    <3>1. linkRow' = linkRow
      BY <2>2 DEF CommitLinkOp
    <3> QED BY <1>2, <2>2, <3>1
  <2>3. CASE x.op # "revoke" /\ ~(x.op = "rotate" /\ x.seen = "none" /\ linkRow.status # "none")
    <3>1. linkRow' = Rotated(linkRow, x)
      BY <2>3 DEF CommitLinkOp
    <3>2. /\ Rotated(linkRow, x) \in [token : Nat, status : LinkStatus, count : Nat]
          /\ Rotated(linkRow, x).token = x.token /\ Rotated(linkRow, x).count = linkRow.count
          /\ Rotated(linkRow, x).status = IF x.seen = "active" THEN linkRow.status ELSE "active"
      BY <1>2 DEF Rotated, LinkStatus
    <3> QED BY <1>2, <3>1, <3>2
  <2> QED BY <2>1, <2>2, <2>3
<1>5. /\ fetch' \in [Fetches -> FetchRecords]
      /\ \A g \in Fetches :
             /\ fetch'[g].pc = fetch[g].pc /\ fetch'[g].token = fetch[g].token
             /\ fetch'[g].count = fetch[g].count /\ fetch'[g].dead \subseteq fetch[g].dead
             /\ linkRow'.token = fetch[g].token /\ linkRow'.status = "active" =>
                    "link" \notin fetch'[g].dead
  <2>1. \A g \in Fetches : fetch[g] \in FetchRecords
    BY DEF LinkShape
  <2>2. \A g \in Fetches : [fetch[g] EXCEPT !.dead = @ \ {"link"}] \in FetchRecords
    BY <2>1 DEF FetchRecords
  <2>3. fetch' = [g \in Fetches |-> IF fetch[g].token = linkRow'.token /\ linkRow'.status = "active"
                                    THEN [fetch[g] EXCEPT !.dead = @ \ {"link"}] ELSE fetch[g]]
    BY DEF CommitLinkOp
  <2>4. \A g \in Fetches : fetch'[g] \in FetchRecords
    BY <2>1, <2>2, <2>3
  <2> QED BY <2>1, <2>3, <2>4 DEF FetchRecords
<1>6. UNCHANGED <<protocol, device, cred, sub, over>>
  BY <1>1 DEF entity
<1>7. RoutingInv'
  BY <1>1, RoutingKept DEF routingVars
<1>8. LinkShape'
  <2>1. \A p \in LinkOps : linkTx'[p].token <= ops
    BY <1>2, <1>3 DEF LinkShape, LinkSets
  <2> QED BY <1>1, <1>3, <1>4, <1>5, <1>6, <2>1 DEF LinkShape, LinkSets
<1>9. DeadInv'
  <2>1. ASSUME NEW g \in Fetches, NEW c \in fetch'[g].dead PROVE ~Alive(c, g)'
    BY <1>5, <1>6, <2>1 DEF DeadInv, Alive
  <2> QED BY <1>5, <2>1 DEF DeadInv
<1>10. TokenInv'
  <2> SUFFICES ASSUME ~tangled PROVE TokenInv'
    BY <1>1 DEF TokenInv
  <2>1. OpenLinkTx = {o}
    BY <1>1 DEF TokenInv, OpenLinkTx
  <2>2. OpenLinkTx' = {} /\ \A p \in LinkOps : linkTx'[p].pc # "commit"
    BY <1>3, <2>1 DEF OpenLinkTx, LinkSets
  <2>3. /\ linkTx[o].seen = linkRow.status /\ linkTx[o].op # "none"
        /\ handed = IF linkTx[o].op = "rotate" THEN linkTx[o].token ELSE 0
    BY <1>1, <2>1 DEF TokenInv
  <2>4. handed' = 0 \/ (linkRow'.token = handed' /\ linkRow'.status = "active")
    BY <1>1, <1>4, <2>3
  <2> QED BY <2>2, <2>4 DEF TokenInv
<1>11. AccessInv'
  <2>1. OpenFetches' = OpenFetches /\ (Uncounted' <=> Uncounted)
    BY <1>5 DEF OpenFetches, Uncounted
  <2> QED BY <1>1, <1>4, <1>5, <2>1 DEF AccessInv
<1> QED BY <1>7, <1>8, <1>9, <1>10, <1>11

-----------------------------------------------------------------------------
(* The device and the subscription. *)

(* What becomes true again is struck from what the fetches found dead. *)
LEMMA ChangeStep ==
    ASSUME DeliveryInv, Change,
           device' \in Statuses, cred' \in Statuses,
           sub' \in BOOLEAN, over' \in BOOLEAN,
           fetch' \in [Fetches -> FetchRecords],
           \A f \in Fetches :
               /\ fetch'[f].pc = fetch[f].pc /\ fetch'[f].token = fetch[f].token
               /\ fetch'[f].count = fetch[f].count /\ fetch'[f].dead \subseteq fetch[f].dead
               /\ device' = "active" => device = "active" \/ "device" \notin fetch'[f].dead
               /\ sub' /\ ~over' => (sub /\ ~over) \/ "subscription" \notin fetch'[f].dead
    PROVE  DeliveryInv'
<1> USE DEF DeliveryInv
<1>1. UNCHANGED <<routingVars, protocol, linkRow, linkTx, ops, handed, tangled, fetched, crowded>>
  BY DEF Change, linkVars
<1>2. RoutingInv'
  BY <1>1, RoutingKept DEF routingVars
<1>3. LinkShape'
  BY <1>1 DEF LinkShape
<1>4. DeadInv'
  <2>1. ASSUME NEW g \in Fetches, NEW c \in fetch'[g].dead PROVE ~Alive(c, g)'
    BY <1>1, <2>1 DEF DeadInv, Alive
  <2> QED BY <2>1 DEF DeadInv
<1>5. TokenInv'
  BY <1>1 DEF TokenInv, OpenLinkTx
<1>6. AccessInv'
  <2>1. OpenFetches' = OpenFetches /\ (Uncounted' <=> Uncounted)
    BY DEF OpenFetches, Uncounted
  <2> QED BY <1>1, <2>1 DEF AccessInv
<1> QED BY <1>2, <1>3, <1>4, <1>5, <1>6

LEMMA ReviveSets ==
    ASSUME LinkShape, NEW c, Revive(c)
    PROVE  /\ fetch' \in [Fetches -> FetchRecords]
           /\ \A f \in Fetches :
                  /\ fetch'[f].pc = fetch[f].pc /\ fetch'[f].token = fetch[f].token
                  /\ fetch'[f].count = fetch[f].count /\ fetch'[f].dead = fetch[f].dead \ {c}
<1>1. \A f \in Fetches : fetch[f] \in FetchRecords
  BY DEF LinkShape
<1>2. \A f \in Fetches : [fetch[f] EXCEPT !.dead = @ \ {c}] \in FetchRecords
  BY <1>1 DEF FetchRecords
<1> QED BY <1>1, <1>2 DEF Revive, FetchRecords

LEMMA ChangesStep == ASSUME DeliveryInv, Changes PROVE DeliveryInv'
<1> USE DEF DeliveryInv
<1>0. /\ device \in Statuses /\ cred \in Statuses /\ Paused \in Statuses /\ sub \in BOOLEAN
      /\ over \in BOOLEAN /\ fetch \in [Fetches -> FetchRecords]
      /\ Statuses = {"active", "disabled", "revoked"}
  BY DEF LinkShape, Paused, Statuses
<1>1. CASE Disable
  <2>1. /\ Change /\ device' = "disabled" /\ cred' \in Statuses
        /\ UNCHANGED <<sub, over, fetch>>
    BY <1>0, <1>1 DEF Disable
  <2> QED BY <1>0, <2>1, ChangeStep
<1>2. CASE Enable
  <2>1. /\ Change /\ device' = "active" /\ cred' \in Statuses /\ Revive("device")
        /\ UNCHANGED <<sub, over>>
    BY <1>0, <1>2 DEF Enable
  <2> QED BY <1>0, <2>1, ReviveSets, ChangeStep
<1>3. CASE Revoke
  <2>1. Change /\ device' = "revoked" /\ cred' \in Statuses /\ UNCHANGED <<sub, over, fetch>>
    BY <1>0, <1>3 DEF Revoke
  <2> QED BY <1>0, <2>1, ChangeStep
<1>4. CASE TimePasses
  <2>1. Change /\ over' = TRUE /\ UNCHANGED <<device, cred, sub, fetch>>
    BY <1>4 DEF TimePasses
  <2> QED BY <1>0, <2>1, ChangeStep
<1>5. CASE Expire
  <2>1. /\ Change /\ sub' = FALSE /\ cred' \in Statuses /\ UNCHANGED <<over, fetch>>
        /\ device' \in Statuses /\ device' # "active"
    BY <1>0, <1>5 DEF Expire
  <2> QED BY <1>0, <2>1, ChangeStep
<1>6. CASE Renew
  <2>1. /\ Change /\ sub' = TRUE /\ over' = FALSE /\ Revive("subscription")
        /\ UNCHANGED <<device, cred>>
    BY <1>6 DEF Renew
  <2>2. /\ fetch' \in [Fetches -> FetchRecords]
        /\ \A f \in Fetches :
               /\ fetch'[f].pc = fetch[f].pc /\ fetch'[f].token = fetch[f].token
               /\ fetch'[f].count = fetch[f].count
               /\ fetch'[f].dead = fetch[f].dead \ {"subscription"}
    BY <2>1, ReviveSets
  <2> QED BY <1>0, <2>1, <2>2, ChangeStep
<1> QED BY <1>1, <1>2, <1>3, <1>4, <1>5, <1>6 DEF Changes

-----------------------------------------------------------------------------
(* The theorems. *)

(* The first profile, made with the device, is the current one.            *)
LEMMA FirstProfileInv == DeliveryInit => RoutingInv
<1> SUFFICES ASSUME DeliveryInit PROVE RoutingInv
  OBVIOUS
<1>1. saved \in BOOLEAN /\ UntouchedSettings /\ mode = "full_vpn"
  BY DEF DeliveryInit, UntouchedSettings
<1>2. /\ FirstProfile.id = 1 /\ FirstProfile.version = 1 /\ FirstProfile.current = TRUE
      /\ FirstProfile \in Row
  <2>1. 1 \in 1 .. MaxGens
    BY DeliveryAssumption
  <2> QED BY <2>1 DEF FirstProfile, Row
<1>3. NoJob.pc = "none" /\ NoJob.version = 0 /\ NoJob.fresh = FALSE
  BY DEF NoJob
<1>4. CASE saved
  <2>0. /\ Cardinality({FirstProfile}) = 1 /\ Cardinality({1}) = 1 /\ IsFiniteSet({1})
        /\ 1 \in 1 .. MaxGens
    <3>1. Cardinality({FirstProfile}) = 1
      BY FS_Singleton, Zenon
    <3>2. Cardinality({1}) = 1 /\ IsFiniteSet({1})
      BY FS_Singleton, Zenon
    <3>3. 1 \in 1 .. MaxGens
      BY DeliveryAssumption
    <3> QED BY <3>1, <3>2, <3>3
  <2>1. rows = {FirstProfile} /\ gens = 1
    BY <1>4, <2>0 DEF DeliveryInit
  <2>2. Shape /\ Running = {} /\ \A j \in Jobs : job[j] = NoJob
    <3>1. rows \subseteq Row /\ gens \in 0 .. MaxGens
      BY <1>2, <2>1, DeliveryAssumption
    <3> QED BY <1>1, <3>1, UntouchedShape
  <2>3. Ids = {1} /\ Current = rows
    BY <1>2, <2>1 DEF Ids, Current
  <2>4. IdInv
    BY <1>2, <1>3, <2>1, <2>2, <2>3 DEF IdInv
  <2>5. VersionInv
    BY <1>2, <1>3, <2>0, <2>1, <2>2, <2>3 DEF VersionInv
  <2>6. CurrentInv
    BY <1>2, <1>3, <2>1, <2>2, <2>3 DEF CurrentInv, Newest
  <2>7. FreshInv
    BY <1>1, <1>3, <2>2 DEF FreshInv
  <2> QED BY <2>2, <2>4, <2>5, <2>6, <2>7 DEF RoutingInv
<1>5. CASE ~saved
  <2>1. rows = {} /\ gens = 0
    BY <1>5, FS_EmptySet DEF DeliveryInit
  <2>2. Shape /\ Running = {} /\ \A j \in Jobs : job[j] = NoJob
    BY <1>1, <2>1, UntouchedShape, RoutingAssumption
  <2>3. Ids = {} /\ Current = {}
    BY <2>1 DEF Ids, Current
  <2>4. IdInv
    BY <1>3, <2>1, <2>2, <2>3 DEF IdInv
  <2>5. VersionInv
    BY <1>3, <2>1, <2>2, <2>3, FS_EmptySet DEF VersionInv
  <2>6. CurrentInv
    BY <1>3, <2>1, <2>2, <2>3 DEF CurrentInv
  <2>7. FreshInv
    BY <1>1, <1>3, <2>2 DEF FreshInv
  <2> QED BY <2>2, <2>4, <2>5, <2>6, <2>7 DEF RoutingInv
<1> QED BY <1>1, <1>4, <1>5

LEMMA DeliveryStart == DeliveryInit => DeliveryInv
<1> SUFFICES ASSUME DeliveryInit PROVE DeliveryInv
  OBVIOUS
<1>1. RoutingInv
  BY FirstProfileInv
<1>2. /\ \A o \in LinkOps : linkTx[o] = NoLinkTx
      /\ \A f \in Fetches : fetch[f] = NoFetch
      /\ tangled = FALSE /\ crowded = FALSE /\ fetched = 0
      /\ device = "active" /\ cred = "active" /\ sub = TRUE /\ over = FALSE /\ protocol \in Protocols
  BY DEF DeliveryInit
<1>3. /\ NoLinkTx.pc = "none" /\ NoLinkTx.token = 0
      /\ NoFetch.pc = "none" /\ NoFetch.count = 0 /\ NoFetch.dead = {}
  BY DEF NoLinkTx, NoFetch
<1>4. PICK status \in LinkStatus :
          /\ ops = IF status = "none" THEN 0 ELSE 1
          /\ linkRow = [token |-> ops, status |-> status, count |-> 0]
          /\ handed = IF status = "active" THEN 1 ELSE 0
  BY DEF DeliveryInit, LinkStatus
<1>5. /\ ops \in Nat /\ handed \in Nat
      /\ linkRow \in [token : Nat, status : LinkStatus, count : Nat]
      /\ linkRow.token = ops /\ linkRow.count = 0 /\ linkRow.status = status
  BY <1>4
<1>6. handed = 0 \/ (linkRow.token = handed /\ linkRow.status = "active")
  BY <1>4, <1>5
<1>7. LinkShape
  <2>1. linkTx \in [LinkOps -> LinkRecords] /\ fetch \in [Fetches -> FetchRecords]
    BY NoLinkRecord, NoFetchRecord DEF DeliveryInit
  <2>2. device \in Statuses /\ cred \in Statuses /\ protocol \in {"wireguard", "vless"}
    BY <1>2, DeliveryAssumption DEF Statuses
  <2>3. /\ sub \in BOOLEAN /\ over \in BOOLEAN
        /\ tangled \in BOOLEAN /\ crowded \in BOOLEAN
    BY <1>2, Zenon
  <2>4. fetched \in Nat /\ linkRow.token <= ops /\ \A o \in LinkOps : linkTx[o].token <= ops
    BY <1>2, <1>3, <1>5
  <2> QED BY <1>5, <2>1, <2>2, <2>3, <2>4 DEF LinkShape
<1>8. DeadInv
  BY <1>2, <1>3 DEF DeadInv, PastDevice
<1>9. TokenInv
  BY <1>2, <1>3, <1>6 DEF TokenInv, OpenLinkTx
<1>10. AccessInv
  BY <1>2, <1>3, <1>5 DEF AccessInv, Uncounted, OpenFetches
<1> QED BY <1>1, <1>7, <1>8, <1>9, <1>10 DEF DeliveryInv

LEMMA DeliveryStep ==
    ASSUME DeliveryInv, [DeliveryNext]_deliveryVars
    PROVE  DeliveryInv'
PROOF
<1>1. CASE RoutingNext /\ UNCHANGED <<entity, linkVars, fetchVars, changes>>
  BY <1>1, RoutingOnly
<1>2. CASE Changes
  BY <1>2, ChangesStep
<1>3. ASSUME NEW o \in LinkOps, LinkOp(o) PROVE DeliveryInv'
  BY <1>3, StartLinkOpStep, AnswerLinkOpStep, CommitLinkOpStep, LoseLinkOpStep DEF LinkOp
<1>4. ASSUME NEW f \in Fetches, Fetch(f) PROVE DeliveryInv'
  BY <1>4, FetchStep
<1>5. CASE UNCHANGED deliveryVars
  <2>1. UNCHANGED <<routingVars, entity, linkRow, linkTx, ops, handed, tangled, fetchVars>>
    BY <1>5 DEF deliveryVars, linkVars
  <2>2. LinkShape' /\ TokenInv'
    BY <2>1 DEF DeliveryInv, LinkShape, TokenInv, OpenLinkTx, entity, fetchVars
  <2> QED BY <2>1, <2>2, RowKept
<1> QED BY <1>1, <1>2, <1>3, <1>4, <1>5 DEF DeliveryNext

LEMMA DeliveryInductive == DeliverySpec => []DeliveryInv
PROOF
<1>1. DeliveryInv /\ [DeliveryNext]_deliveryVars => DeliveryInv'
  BY DeliveryStep
<1> QED BY <1>1, DeliveryStart, PTL DEF DeliverySpec

(* The rows and requests of a link and its fetches keep their types, next  *)
(* to the profiles they read.                                              *)
THEOREM DeliveryTypes == DeliverySpec => []DeliveryTypeOK
PROOF
<1>1. DeliveryInv => DeliveryTypeOK
  <2> SUFFICES ASSUME DeliveryInv PROVE DeliveryTypeOK
    OBVIOUS
  <2>1. RoutingTypeOK
    BY RoutingTyped DEF DeliveryInv
  <2>2. linkRow \in [token : 0 .. ops, status : {"none", "active", "revoked"}, count : Nat]
    BY DEF DeliveryInv, LinkShape, LinkStatus
  <2>3. \A f \in Fetches : fetch[f].dead \subseteq Conditions /\ fetch[f].count <= fetched
    BY DEF DeliveryInv, LinkShape, FetchRecords, AccessInv
  <2> QED BY <2>1, <2>2, <2>3 DEF DeliveryInv, LinkShape, DeliveryTypeOK
<1> QED BY <1>1, DeliveryInductive, PTL

(* A fetch gets past _authorize and deliver only with a link, a device and *)
(* a subscription each of which was alive at some time since it began.     *)
THEOREM NothingDead == DeliverySpec => []DeadFetchDeliversNothing
PROOF
<1>1. DeliveryInv => DeadFetchDeliversNothing
  <2> SUFFICES ASSUME DeliveryInv, NEW f \in Fetches, fetch[f].pc = "done"
               PROVE  fetch[f].dead = {}
    BY DEF DeadFetchDeliversNothing
  <2>1. fetch[f].dead \subseteq {"link", "device", "subscription"}
    BY DEF DeliveryInv, LinkShape, FetchRecords, Conditions
  <2>2. {"link", "device", "subscription"} \cap fetch[f].dead = {}
    BY DEF DeliveryInv, DeadInv, PastDevice
  <2> QED BY <2>1, <2>2
<1> QED BY <1>1, DeliveryInductive, PTL

(* create_or_rotate leaves the token it has answered with active in the    *)
(* row, also where the link was revoked before.                            *)
THEOREM TokenWorks == DeliverySpec => []TokenHandedOutWorks
PROOF
<1>1. DeliveryInv => TokenHandedOutWorks
  BY DEF DeliveryInv, TokenInv, TokenHandedOutWorks, OpenLinkTx
<1> QED BY <1>1, DeliveryInductive, PTL

(* Unless fetches overlap or fail to commit, access_count is the number of *)
(* deliveries, less the one whose commit is still to come (record_access,  *)
(* get_db).                                                                *)
THEOREM AccessesCounted == DeliverySpec => []AccessCounted
PROOF
<1>1. DeliveryInv => AccessCounted
  BY DEF DeliveryInv, AccessInv, Uncounted, AccessCounted
<1> QED BY <1>1, DeliveryInductive, PTL
=============================================================================
