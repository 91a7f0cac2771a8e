---------------------------- MODULE DevicesProofs ----------------------------
(***************************************************************************)
(* Proofs about Devices for any number of devices, keys, addresses and     *)
(* requests: no orphan without a failure, the device limit, rows and nodes *)
(* in agreement, and nothing left on after the expiry sweep.               *)
(***************************************************************************)
EXTENDS Devices, FiniteSetTheorems, TLAPS

(* A request that has chosen a key for the node; one that has called it.   *)
Minted(r) == \/ r.pc \in {"create", "insert", "cleanup"}
             \/ r.pc = "commit" /\ r.op \in {"provision", "reissue"}
Created(r) == Minted(r) /\ r.pc # "create"
Called(r)  == r.pc \in {"allocate", "create", "insert", "cleanup", "commit"}

(* Types, and counters that the requests made so far account for.          *)
Typed == /\ TypeOK
         /\ \A p \in Protocols : load[p] <= starts
         /\ \A t \in Requests : tx[t].load <= starts
         /\ sweep.pc = "idle" => sweep.todo = {} /\ sweep.done = {} /\ sweep.keys = {}

(* What an open request is about. *)
RequestOK(r) ==
    /\ r.pc = "none" => r = NoTx
    /\ r.pc # "none" => r.dev \in Devices /\ r.op \in Ops
    /\ r.pc \in {"create", "insert", "cleanup", "allocate"} => r.op \in {"provision", "reissue"}
    /\ r.pc = "delete_old" => r.op = "reissue" /\ r.old \in Keys
    /\ r.pc = "agent" => r.op \in {"enable", "disable", "revoke"} /\ r.old \in Keys
    /\ r.pc \in {"allocate", "insert", "cleanup"} \/ r.op = "reissue" => r.dev \notin Vless
    /\ r.op = "provision" => r.old = NoKey
    /\ r.old \in Keys => owner[r.old] = r.dev /\ cred[r.old].status # "none"

RequestInv == \A t \in Requests : RequestOK(tx[t])

(* A key is minted once, and neither a row nor a node knows it before.     *)
KeyOK(r) ==
    /\ r.new \in Keys <=> Minted(r)
    /\ r.new \in Keys => owner[r.new] = r.dev /\ cred[r.new].status = "none"

KeyInv ==
    /\ \A t \in Requests : KeyOK(tx[t])
    /\ \A t, x \in Requests : tx[t].new \in Keys /\ tx[x].new = tx[t].new => t = x
    /\ \A k \in Fresh : peer[k] = "absent" /\ cred[k].status = "none"

(* An active device was counted when it was provisioned. *)
LimitInv ==
    /\ IsFiniteSet(Active)
    /\ ~relaxed =>
         /\ Cardinality(Active) <= DeviceLimit
         /\ \A t \in Requests :
              /\ tx[t].op # "enable"
              /\ tx[t].op = "provision" =>
                   /\ Cardinality(Active \cup {tx[t].dev}) <= DeviceLimit
                   /\ \A x \in Requests : tx[x].op = "provision" => x = t

(* A device whose requests did not overlap: it has one active credential   *)
(* at most, and the request or the sweep at work on it is the only one and *)
(* knows it as it is.                                                      *)
Tame == Devices \ disturbed

RowInv ==
    \A d \in Tame :
        /\ \A k, l \in KeysOf(d, "active") : k = l
        /\ dev[d] \in {"none", "revoked"} => KeysOf(d, "active") = {}
        /\ dev[d] = "none" => \A k \in Keys : owner[k] = d => cred[k].status = "none"
        /\ d \in Vless => \A k, l \in Keys : owner[k] = d /\ owner[l] = d => k = l
        /\ d \in Vless /\ KeysOf(d, "active") # {} => dev[d] = "active"

AloneOK(r) ==
    /\ r.dev \notin sweep.todo \cup sweep.done
    /\ r.op = "provision" => dev[r.dev] = "none"
    /\ r.op # "provision" => dev[r.dev] = r.seen /\ r.seen # "none"
    /\ r.op = "reissue" => dev[r.dev] = "active"
    /\ r.op # "provision" =>
         KeysOf(r.dev, IF r.op = "enable" /\ r.dev \in Vless THEN "disabled" ELSE "active")
             = {r.old} \cap Keys

AloneInv ==
    /\ \A t, x \in Requests : tx[t].dev \in Tame /\ tx[x].dev = tx[t].dev => t = x
    /\ \A t \in Requests : tx[t].dev \in Tame => AloneOK(tx[t])
    /\ \A d \in Tame \cap (sweep.todo \cup sweep.done) : dev[d] = "active"
    /\ \A d \in Tame \cap sweep.done : KeysOf(d, "active") \subseteq sweep.keys
    /\ \A k \in sweep.keys : /\ owner[k] \in sweep.done /\ cred[k].status # "none"
                             /\ owner[k] \in Tame => cred[k].status = "active"

(* What the node carries of a key whose device is tame: what its row asks  *)
(* for, or what the request or the sweep at work has made of it.           *)
Asked(k) == IF cred[k].status # "active" THEN "absent"
            ELSE IF dev[owner[k]] = "active" THEN "on" ELSE Paused(owner[k])

Done(r) == CASE r.op = "enable"  -> "on"
             [] r.op = "disable" -> Paused(r.dev)
             [] OTHER            -> "absent"

PeerOK(r) ==
    /\ r.pc = "create" => peer[r.new] = "absent"
    /\ Created(r) => peer[r.new] = "on"
    /\ Called(r) /\ r.old \in Keys => peer[r.old] = Done(r)

Quiet(k) == /\ k \notin sweep.keys
            /\ \A t \in Requests : /\ Minted(tx[t]) => tx[t].new # k
                                   /\ Called(tx[t]) => tx[t].old # k

PeerInv ==
    /\ \A t \in Requests : tx[t].dev \in Tame => PeerOK(tx[t])
    /\ \A k \in sweep.keys : owner[k] \in Tame => peer[k] = Paused(owner[k])
    /\ \A k \in Keys : owner[k] \in Tame /\ Quiet(k) => peer[k] = Asked(k)

(* An address nobody raced for is held by one key, and routed to it if it  *)
(* is on.                                                                  *)
Holds(k, i) == \/ cred[k].status # "none" /\ cred[k].ip = i
               \/ \E t \in Requests : tx[t].new = k /\ tx[t].ip = i /\ Created(tx[t])

RouteInv ==
    \A i \in Ips \ contested : \A k \in Keys : Holds(k, i) =>
        /\ peer[k] = "on" => route[i] = k
        /\ \A l \in Keys : Holds(l, i) => k = l

(* After a sweep that ran alone, or during one. *)
LapsedInv ==
    /\ sweep.pc = "disable" /\ sweep.alone =>
         /\ \A t \in Requests : ~Open(t)
         /\ Active \cap Tame \subseteq sweep.todo \cup sweep.done
    /\ sweep.pc = "disable" => sub = "active"
    /\ lapsed => /\ sub = "expired" /\ sweep.pc = "idle"
                 /\ \A t \in Requests : ~Open(t)
                 /\ Active \cap Tame = {}

DevicesInv == /\ Typed /\ RequestInv /\ KeyInv /\ LimitInv /\ RowInv /\ AloneInv /\ PeerInv
              /\ RouteInv /\ LapsedInv /\ NoOrphanWithoutFailure

-----------------------------------------------------------------------------
(* What a step does to the requests. *)

TxRecords == [pc : Steps \cup {"none"}, op : Ops \cup {"none"},
              dev : Devices \cup {NoDevice}, seen : DevStatus,
              old : Keys \cup {NoKey}, new : Keys \cup {NoKey},
              ip : Ips \cup {0}, attempt : 1 .. MaxIpAttempts, load : 0 .. MaxStarts]

Sets(t, r) == /\ r \in TxRecords
              /\ tx' \in [Requests -> TxRecords]
              /\ tx'[t] = r
              /\ \A x \in Requests \ {t} : tx'[x] = tx[x]

LEMMA Update ==
    ASSUME tx \in [Requests -> TxRecords], NEW t \in Requests, NEW r \in TxRecords,
           tx' = [tx EXCEPT ![t] = r]
    PROVE  Sets(t, r)
  BY DEF Sets

LEMMA TxTyped == ASSUME Typed PROVE tx \in [Requests -> TxRecords]
  BY DEF Typed, TypeOK, TxRecords

LEMMA NoTxRecord ==
    /\ NoTx \in TxRecords /\ NoTx.pc = "none" /\ NoTx.op = "none" /\ NoTx.dev = NoDevice
    /\ NoTx.seen = "none" /\ NoTx.old = NoKey /\ NoTx.new = NoKey /\ NoTx.ip = 0 /\ NoTx.load = 0
<1>1. 1 \in 1 .. MaxIpAttempts /\ 0 \in 0 .. MaxStarts
  BY NumberAssumption
<1> QED BY <1>1 DEF NoTx, TxRecords, DevStatus

LEMMA Ended ==
    ASSUME Typed, NEW t \in Requests, tx' = [tx EXCEPT ![t] = NoTx]
    PROVE  Sets(t, NoTx)
  BY TxTyped, NoTxRecord, Update

LEMMA Moved ==
    ASSUME Typed, NEW t \in Requests, NEW s \in Steps, tx' = [tx EXCEPT ![t].pc = s]
    PROVE  Sets(t, [tx[t] EXCEPT !.pc = s])
<1>1. tx[t] \in TxRecords
  BY TxTyped
<1>2. [tx[t] EXCEPT !.pc = s] \in TxRecords
  BY <1>1 DEF TxRecords
<1> QED BY <1>2, TxTyped, Update

(* What a call does to the node: the key it is about, and nothing else. *)
Handled(r) == IF r.pc \in {"create", "cleanup"} THEN r.new ELSE r.old
Address(r) == IF r.pc = "create" THEN r.ip ELSE cred[r.old].ip
Adds(r)    == r.pc = "create" \/ (r.pc = "agent" /\ r.op = "enable")
Left(r)    == IF Adds(r) THEN "on"
              ELSE IF r.pc = "agent" /\ r.op = "disable" THEN Paused(r.dev) ELSE "absent"

LEMMA Calls ==
    ASSUME Typed, RequestInv, KeyInv, NEW t \in Requests, tx[t].pc \in CallSteps, Apply(t)
    PROVE  LET r == tx[t] IN
           /\ Handled(r) \in Keys /\ owner[Handled(r)] = r.dev /\ r.dev \in Devices
           /\ IF Adds(r) THEN Put(Handled(r), Address(r)) ELSE Take(Handled(r), Left(r))
<1> DEFINE r == tx[t]
<1>1. /\ r.dev \in Devices
      /\ r.pc \in {"create", "cleanup"} => r.new \in Keys /\ owner[r.new] = r.dev
      /\ r.pc \in {"delete_old", "agent"} => r.old \in Keys /\ owner[r.old] = r.dev
      /\ r.pc = "agent" => r.op \in {"enable", "disable", "revoke"}
  BY DEF RequestInv, RequestOK, KeyInv, KeyOK, Minted, CallSteps
<1>2. CASE r.pc = "create"
  BY <1>1, <1>2 DEF Apply, Handled, Address, Adds
<1>3. CASE r.pc = "cleanup"
  BY <1>1, <1>3 DEF Apply, Handled, Left, Adds
<1>4. CASE r.pc = "delete_old"
  BY <1>1, <1>4 DEF Apply, Handled, Left, Adds
<1>5. CASE r.pc = "agent"
  <2>1. CASE r.op = "enable"
    BY <1>1, <1>5, <2>1 DEF Apply, Handled, Address, Adds
  <2>2. CASE r.op = "disable"
    BY <1>1, <1>5, <2>2 DEF Apply, Handled, Left, Adds
  <2>3. CASE r.op = "revoke"
    BY <1>1, <1>5, <2>3 DEF Apply, Handled, Left, Adds
  <2> QED BY <1>1, <1>5, <2>1, <2>2, <2>3
<1> QED BY <1>2, <1>3, <1>4, <1>5 DEF CallSteps

(* The call, as the invariants see it. *)
NetTyped == peer \in [Keys -> {"absent", "off", "on"}] /\ route \in [Ips -> Keys \cup {NoKey}]

Touches(k, how) == /\ k \in Keys /\ peer'[k] = how
                   /\ \A l \in Keys \ {k} : peer'[l] = peer[l]

LEMMA PutTouches ==
    ASSUME NetTyped, NEW k \in Keys, NEW ip \in Ips \cup {0}, Put(k, ip)
    PROVE  NetTyped' /\ Touches(k, "on")
           /\ \A i \in Ips : route'[i] = IF i = ip THEN k ELSE route[i]
<1>1. 0 \notin Ips
  BY NumberAssumption
<1> QED BY <1>1 DEF NetTyped, Put, Touches

LEMMA TakeTouches ==
    ASSUME NetTyped, NEW k \in Keys, NEW how \in {"absent", "off"}, Take(k, how)
    PROVE  NetTyped' /\ Touches(k, how)
           /\ \A i \in Ips : route'[i] = IF route[i] = k THEN NoKey ELSE route[i]
  BY DEF NetTyped, Take, Touches

LEMMA CallTouches ==
    ASSUME Typed, RequestInv, KeyInv, NEW t \in Requests, tx[t].pc \in CallSteps, Apply(t)
    PROVE  LET r == tx[t] IN
           /\ NetTyped' /\ Touches(Handled(r), Left(r))
           /\ owner[Handled(r)] = r.dev /\ r.dev \in Devices
           /\ Adds(r) => \A i \in Ips : route'[i] = IF i = Address(r) THEN Handled(r) ELSE route[i]
           /\ ~Adds(r) => /\ Left(r) \in {"absent", "off"}
                          /\ \A i \in Ips : route'[i] = IF route[i] = Handled(r) THEN NoKey
                                                        ELSE route[i]
<1> DEFINE r == tx[t]
<1>1. NetTyped /\ r \in TxRecords
  BY TxTyped DEF NetTyped, Typed, TypeOK
<1>2. /\ Handled(r) \in Keys /\ owner[Handled(r)] = r.dev /\ r.dev \in Devices
      /\ IF Adds(r) THEN Put(Handled(r), Address(r)) ELSE Take(Handled(r), Left(r))
  BY Calls
<1>3. CASE Adds(r)
  <2>1. Address(r) \in Ips \cup {0}
    <3>1. r.pc # "create" => Handled(r) = r.old
      BY <1>3 DEF Handled, Adds
    <3> QED BY <1>1, <1>2, <3>1 DEF Address, Typed, TypeOK, TxRecords
  <2> QED BY <1>1, <1>2, <1>3, <2>1, PutTouches DEF Left
<1>4. CASE ~Adds(r)
  <2>1. Left(r) \in {"absent", "off"}
    BY <1>4 DEF Left, Paused
  <2> QED BY <1>1, <1>2, <1>4, <2>1, TakeTouches
<1> QED BY <1>3, <1>4

-----------------------------------------------------------------------------
(* What a step leaves alone. *)

(* Requests go on or end, and devices.status is as it was.                 *)
GoesOn(r, old) == \/ r = NoTx
                  \/ r.op = old.op /\ r.dev = old.dev /\ r.seen = old.seen /\ r.old = old.old

LEMMA LimitKept ==
    ASSUME LimitInv, UNCHANGED dev, relaxed => relaxed',
           \A x \in Requests : GoesOn(tx'[x], tx[x])
    PROVE  LimitInv'
<1>1. Active' = Active
  BY DEF Active
<1>2. \A x \in Requests : \/ tx'[x].op = "none"
                          \/ tx'[x].op = tx[x].op /\ tx'[x].dev = tx[x].dev
  BY NoTxRecord DEF GoesOn
<1> QED BY <1>1, <1>2 DEF LimitInv

LEMMA RowsKept ==
    ASSUME RowInv, UNCHANGED <<dev, cred, owner>>, disturbed \subseteq disturbed'
    PROVE  RowInv'
<1>1. Tame' \subseteq Tame /\ \A d, s : KeysOf(d, s)' = KeysOf(d, s)
  BY DEF Tame, KeysOf
<1> QED BY <1>1 DEF RowInv

LEMMA AloneKept ==
    ASSUME AloneInv, UNCHANGED <<dev, cred, owner, sweep>>, disturbed \subseteq disturbed',
           \A x \in Requests : GoesOn(tx'[x], tx[x])
    PROVE  AloneInv'
<1>1. Tame' \subseteq Tame /\ (\A d, s : KeysOf(d, s)' = KeysOf(d, s)) /\ NoTx.dev \notin Tame
  BY NoTxRecord, DeviceAssumption DEF Tame, KeysOf
<1>2. ASSUME NEW x \in Requests, tx'[x].dev \in Tame'
      PROVE  /\ tx'[x].op = tx[x].op /\ tx'[x].dev = tx[x].dev /\ tx'[x].seen = tx[x].seen
             /\ tx'[x].old = tx[x].old
  BY <1>1, <1>2 DEF GoesOn
<1>3. ASSUME NEW x \in Requests, tx'[x].dev \in Tame' PROVE AloneOK(tx[x])'
  <2>1. AloneOK(tx[x])
    BY <1>1, <1>2, <1>3 DEF AloneInv
  <2> QED BY <1>1, <1>2, <1>3, <2>1 DEF AloneOK
<1>4. \A t, x \in Requests : tx'[t].dev \in Tame' /\ tx'[x].dev = tx'[t].dev => t = x
  BY <1>1, <1>2 DEF AloneInv
<1> QED BY <1>1, <1>3, <1>4 DEF AloneInv

LEMMA LapsedKept ==
    ASSUME LapsedInv, NEW t \in Requests, Open(t), UNCHANGED <<sub, sweep, lapsed>>
    PROVE  LapsedInv'
  BY DEF LapsedInv

LEMMA RouteKept ==
    ASSUME RouteInv, UNCHANGED <<peer, route>>, contested \subseteq contested',
           \A k \in Keys, i \in Ips : Holds(k, i)' => Holds(k, i)
    PROVE  RouteInv'
  BY DEF RouteInv

LEMMA RouteTaken ==
    ASSUME RouteInv, NEW h \in Keys, NEW how \in {"absent", "off"}, Touches(h, how),
           \A i \in Ips : route'[i] = IF route[i] = h THEN NoKey ELSE route[i],
           contested \subseteq contested',
           \A k \in Keys, i \in Ips : Holds(k, i)' => Holds(k, i)
    PROVE  RouteInv'
<1> SUFFICES ASSUME NEW i \in Ips \ contested, NEW k \in Keys, Holds(k, i)'
             PROVE  /\ peer'[k] = "on" => route'[i] = k
                    /\ \A l \in Keys : Holds(l, i)' => k = l
  BY DEF RouteInv
<1>1. Holds(k, i) /\ \A l \in Keys : Holds(l, i) => k = l
  BY DEF RouteInv
<1>2. peer'[k] = "on" => k # h /\ peer[k] = "on"
  BY DEF Touches
<1>3. peer[k] = "on" => route[i] = k
  BY <1>1 DEF RouteInv
<1> QED BY <1>1, <1>2, <1>3

LEMMA RoutePut ==
    ASSUME RouteInv, NEW h \in Keys, NEW a, Touches(h, "on"),
           \A i \in Ips : route'[i] = IF i = a THEN h ELSE route[i],
           contested \subseteq contested',
           \A k \in Keys \ {h}, i \in Ips : Holds(k, i)' => Holds(k, i),
           \A i \in Ips : Holds(h, i)' => i = a,
           a \in Ips \ contested' => \A k \in Keys : Holds(k, a)' => k = h
    PROVE  RouteInv'
<1> SUFFICES ASSUME NEW i \in Ips \ contested', NEW k \in Keys, Holds(k, i)'
             PROVE  /\ peer'[k] = "on" => route'[i] = k
                    /\ \A l \in Keys : Holds(l, i)' => k = l
  BY DEF RouteInv
<1>1. CASE i = a
  BY <1>1
<1>2. CASE i # a
  <2>1. k # h /\ Holds(k, i) /\ \A l \in Keys : Holds(l, i)' => l # h /\ Holds(l, i)
    BY <1>2
  <2>2. peer'[k] = peer[k] /\ route'[i] = route[i]
    BY <1>2, <2>1 DEF Touches
  <2> QED BY <2>1, <2>2 DEF RouteInv
<1> QED BY <1>1, <1>2

(* A call: its key is the only one the node carries otherwise, and where   *)
(* an address is given, nobody held it unless that is noted.               *)
LEMMA RouteCalled ==
    ASSUME Typed, RequestInv, KeyInv, RouteInv, NEW t \in Requests,
           tx[t].pc \in CallSteps, Apply(t), Contest(t),
           \A k \in Keys, i \in Ips :
               Holds(k, i)' => \/ Holds(k, i)
                               \/ tx[t].pc = "create" /\ k = tx[t].new /\ i = tx[t].ip
    PROVE  RouteInv'
<1> DEFINE r == tx[t]
<1>h. PICK h \in Keys : h = Handled(r)
  BY CallTouches DEF Touches
<1>a. PICK a : a = Address(r)
  OBVIOUS
<1>1. /\ Touches(h, Left(r)) /\ h \in Keys
      /\ Adds(r) => \A i \in Ips : route'[i] = IF i = a THEN h ELSE route[i]
      /\ ~Adds(r) => /\ Left(r) \in {"absent", "off"}
                     /\ \A i \in Ips : route'[i] = IF route[i] = h THEN NoKey ELSE route[i]
  BY <1>h, <1>a, CallTouches
<1>2. contested \subseteq contested'
  BY DEF Contest
<1>3. CASE ~Adds(r)
  <2>1. r.pc # "create"
    BY <1>3 DEF Adds
  <2> QED BY <1>1, <1>2, <1>3, <2>1, RouteTaken
<1>4. CASE r.pc = "create"
  <2>1. h = r.new /\ a = r.ip /\ Left(r) = "on" /\ Adds(r)
    BY <1>h, <1>a, <1>4 DEF Handled, Address, Left, Adds
  <2>2. /\ cred[h].status = "none" /\ ~Created(r)
        /\ \A x \in Requests : tx[x].new = h => x = t
    BY <1>1, <1>4, <2>1 DEF KeyInv, KeyOK, Created
  <2>3. \A i \in Ips : ~Holds(h, i)
    BY <2>2 DEF Holds
  <2>4. ASSUME a \in Ips \ contested', NEW k \in Keys, Holds(k, a) PROVE FALSE
    <3>1. r.ip # 0 /\ r.ip \notin contested'
      BY <2>1, <2>4, NumberAssumption
    <3>2. r.ip \notin TakenIps /\ \A x \in Requests \ {t} : tx[x].ip # r.ip
      BY <1>4, <3>1 DEF Contest
    <3> QED BY <2>1, <2>2, <2>4, <3>2 DEF Holds, TakenIps
  <2>5. \A k \in Keys \ {h}, i \in Ips : Holds(k, i)' => Holds(k, i)
    BY <2>1
  <2>6. \A i \in Ips : Holds(h, i)' => i = a
    BY <1>1, <2>1, <2>3
  <2>7. a \in Ips \ contested' => \A k \in Keys : Holds(k, a)' => k = h
    BY <2>4, <2>5
  <2> QED BY <1>1, <1>2, <2>1, <2>5, <2>6, <2>7, RoutePut
<1>5. CASE Adds(r) /\ r.pc # "create"
  <2>1. h = r.old /\ a = cred[h].ip /\ Left(r) = "on" /\ r.pc = "agent"
    BY <1>h, <1>a, <1>5 DEF Handled, Address, Left, Adds
  <2>2. cred[h].status # "none" /\ \A x \in Requests : tx[x].new # h
    BY <1>1, <2>1 DEF KeyInv, KeyOK, RequestInv, RequestOK
  <2>3. \A i \in Ips : Holds(h, i) <=> i = a
    BY <2>1, <2>2 DEF Holds
  <2>4. a \in Ips \ contested => \A k \in Keys : Holds(k, a) => k = h
    BY <1>1, <2>3 DEF RouteInv
  <2>5. \A k \in Keys, i \in Ips : Holds(k, i)' => Holds(k, i)
    BY <1>5
  <2> QED BY <1>1, <1>2, <1>5, <2>1, <2>3, <2>4, <2>5, RoutePut
<1> QED BY <1>3, <1>4, <1>5

-----------------------------------------------------------------------------
(* A request that fails. *)

(* What the agent was told stays; the device is not tame any more.         *)
LEMMA FailStep ==
    ASSUME DevicesInv, NEW t \in Requests, Open(t), Fail(t), faults' \in 0 .. MaxFaults,
           UNCHANGED net \/ (tx[t].pc \in CallSteps /\ Apply(t))
    PROVE  /\ Typed' /\ RequestInv' /\ KeyInv' /\ LimitInv' /\ RowInv' /\ AloneInv' /\ PeerInv'
           /\ RouteInv' /\ LapsedInv'
<1> USE DEF DevicesInv
<1> DEFINE d == tx[t].dev
<1>1. /\ UNCHANGED <<rows, owner, sweep, starts, relaxed, lapsed>>
      /\ disturbed' = disturbed \cup {d} /\ Contest(t) /\ tx' = [tx EXCEPT ![t] = NoTx]
  BY DEF Fail
<1>2. Sets(t, NoTx)
  BY <1>1, Ended
<1>3. d \in Devices
  BY DEF RequestInv, RequestOK, Open
<1>4. UNCHANGED <<sub, dev, cred, load, owner, sweep>>
  BY <1>1 DEF rows
<1>5. NetTyped' /\ \A k \in Keys : owner[k] # d => peer'[k] = peer[k]
  <2>1. CASE UNCHANGED net
    BY <2>1 DEF net, NetTyped, Typed, TypeOK
  <2>2. CASE tx[t].pc \in CallSteps /\ Apply(t)
    BY <2>2, CallTouches DEF Touches
  <2> QED BY <2>1, <2>2
<1>6. \A x \in Requests : GoesOn(tx'[x], tx[x])
  BY <1>2 DEF Sets, GoesOn
<1>7. Typed'
  <2>1. tx' \in [Requests -> TxRecords] /\ \A x \in Requests : tx'[x].load <= starts
    BY <1>2, NoTxRecord DEF Sets, Typed, TypeOK
  <2>2. disturbed' \in SUBSET Devices /\ contested' \in SUBSET Ips
    <3>1. tx[t].ip \in Ips \cup {0}
      BY TxTyped DEF TxRecords
    <3> QED BY <1>1, <1>3, <3>1 DEF Typed, TypeOK, Contest
  <2> QED BY <1>1, <1>4, <1>5, <2>1, <2>2 DEF Typed, TypeOK, NetTyped, TxRecords
<1>8. RequestInv'
  <2>1. RequestOK(NoTx)'
    BY NoTxRecord, KeyAssumption DEF RequestOK
  <2>2. ASSUME NEW x \in Requests \ {t} PROVE RequestOK(tx[x])'
    BY <1>2, <1>4 DEF Sets, RequestInv, RequestOK
  <2> QED BY <1>2, <2>1, <2>2 DEF RequestInv, Sets, RequestOK
<1>9. KeyInv'
  <2>1. ASSUME NEW x \in Requests PROVE KeyOK(tx[x])'
    BY <1>2, <1>4, NoTxRecord, KeyAssumption DEF Sets, KeyInv, KeyOK, Minted
  <2>2. \A x, y \in Requests : tx'[x].new \in Keys /\ tx'[y].new = tx'[x].new => x = y
    BY <1>2, NoTxRecord, KeyAssumption DEF Sets, KeyInv
  <2>3. Fresh' = Fresh /\ \A k \in Fresh : k \in Keys /\ owner[k] # d
    BY <1>3, <1>4, DeviceAssumption DEF Fresh
  <2>4. \A k \in Fresh : peer'[k] = "absent" /\ cred'[k].status = "none"
    BY <1>4, <1>5, <2>3 DEF KeyInv
  <2> QED BY <2>1, <2>2, <2>3, <2>4 DEF KeyInv
<1>10. LimitInv' /\ RowInv' /\ AloneInv' /\ LapsedInv'
  BY <1>1, <1>4, <1>6, LimitKept, RowsKept, AloneKept, LapsedKept
<1>11. PeerInv'
  <2>1. Tame' = Tame \ {d} /\ NoTx.dev \notin Tame
    BY <1>1, NoTxRecord, DeviceAssumption DEF Tame
  <2>2. ASSUME NEW x \in Requests, tx'[x].dev \in Tame' PROVE PeerOK(tx[x])'
    <3>1. tx'[x] = tx[x] /\ tx[x].dev \in Tame /\ tx[x].dev # d
      BY <1>2, <2>1, <2>2 DEF Sets
    <3>2. /\ tx[x].old \in Keys => peer'[tx[x].old] = peer[tx[x].old]
          /\ Minted(tx[x]) => peer'[tx[x].new] = peer[tx[x].new]
      BY <1>5, <3>1 DEF RequestInv, RequestOK, KeyInv, KeyOK
    <3>3. PeerOK(tx[x])
      BY <3>1 DEF PeerInv
    <3> QED BY <3>1, <3>2, <3>3 DEF PeerOK, Created, Called, Minted, Done, Paused
  <2>3. \A k \in sweep.keys : owner[k] \in Tame' => peer'[k] = Paused(owner[k])
    <3>1. sweep.keys \subseteq Keys
      BY DEF Typed, TypeOK
    <3> QED BY <1>5, <2>1, <3>1 DEF PeerInv
  <2>4. ASSUME NEW k \in Keys, owner[k] \in Tame', Quiet(k)' PROVE peer'[k] = Asked(k)'
    <3>1. /\ Minted(tx[t]) => tx[t].new # k
          /\ tx[t].old # k
      BY <2>1, <2>4 DEF RequestInv, RequestOK, KeyInv, KeyOK
    <3>2. Quiet(k)
      BY <1>2, <1>4, <2>4, <3>1 DEF Quiet, Sets, Minted, Called
    <3>3. peer[k] = Asked(k)
      BY <2>1, <2>4, <3>2 DEF PeerInv
    <3> QED BY <1>4, <1>5, <2>1, <2>4, <3>3 DEF Asked, Paused
  <2>5. \A k \in sweep'.keys : owner'[k] \in Tame' => peer'[k] = Paused(owner'[k])
    BY <1>4, <2>3
  <2>6. \A k \in Keys : owner'[k] \in Tame' /\ Quiet(k)' => peer'[k] = Asked(k)'
    BY <1>4, <2>4
  <2> QED BY <2>2, <2>5, <2>6 DEF PeerInv, Paused
<1>12. RouteInv'
  <2>1. \A k \in Keys, i \in Ips : Holds(k, i)' => Holds(k, i)
    <3>1. ~Created(NoTx)
      BY NoTxRecord DEF Created, Minted
    <3>2. \A x \in Requests : x # t => tx'[x] = tx[x]
      BY <1>2 DEF Sets
    <3>3. \A x \in Requests : Created(tx'[x]) => x # t
      BY <1>2, <3>1 DEF Sets
    <3> QED BY <1>4, <3>2, <3>3 DEF Holds, Created, Minted
  <2>2. contested \subseteq contested'
    BY <1>1 DEF Contest
  <2>3. CASE UNCHANGED net
    BY <2>1, <2>2, <2>3, RouteKept DEF net
  <2>4. CASE tx[t].pc \in CallSteps /\ Apply(t)
    BY <1>1, <2>1, <2>4, RouteCalled
  <2> QED BY <2>3, <2>4
<1> QED BY <1>7, <1>8, <1>9, <1>10, <1>11, <1>12

-----------------------------------------------------------------------------
(* A request that goes on. *)

(* Past its first call, it is about the same device and credential; a key  *)
(* it gives up is gone from the node.                                      *)
LEMMA AdvanceStep ==
    ASSUME DevicesInv, NEW t \in Requests, NEW r \in TxRecords, Sets(t, r), Open(t),
           r.op = tx[t].op, r.dev = tx[t].dev, r.seen = tx[t].seen, r.old = tx[t].old,
           r.load = tx[t].load, RequestOK(r), KeyOK(r), Called(r),
           r.new = tx[t].new \/ (r.new = NoKey /\ peer'[tx[t].new] = "absent"),
           UNCHANGED <<rows, owner, sweep, starts, faults, disturbed, relaxed, lapsed>>,
           contested' \in SUBSET Ips, NetTyped',
           \A k \in Keys \ {tx[t].new, r.old} : peer'[k] = peer[k],
           r.dev \in Tame => PeerOK(r)',
           RouteInv'
    PROVE  DevicesInv'
<1> USE DEF DevicesInv
<1>1. /\ UNCHANGED <<sub, dev, cred, load, owner, sweep, starts, faults, disturbed, relaxed,
                     lapsed>>
      /\ \A x \in Requests : tx'[x] = IF x = t THEN r ELSE tx[x]
  BY DEF rows, Sets
<1>2. /\ \A x \in Requests : GoesOn(tx'[x], tx[x])
      /\ r.dev \in Devices /\ tx[t].new \in Keys \cup {NoKey}
  BY <1>1, TxTyped DEF GoesOn, TxRecords, RequestInv, RequestOK, Open
<1>3. Typed'
  <2>1. tx' \in [Requests -> TxRecords] /\ \A x \in Requests : tx'[x].load <= starts
    BY <1>1 DEF Sets, Typed, TypeOK
  <2> QED BY <1>1, <2>1 DEF Typed, TypeOK, NetTyped, TxRecords
<1>4. RequestInv'
  BY <1>1 DEF RequestInv, RequestOK
<1>5. /\ tx[t].old \in Keys => owner[tx[t].old] = r.dev /\ cred[tx[t].old].status # "none"
      /\ tx[t].new \in Keys => owner[tx[t].new] = r.dev /\ cred[tx[t].new].status = "none"
  BY DEF RequestInv, RequestOK, KeyInv, KeyOK
<1>6. \A k \in Keys : owner[k] # r.dev => peer'[k] = peer[k]
  BY <1>5
<1>7. KeyInv'
  <2>1. \A x \in Requests : KeyOK(tx[x])'
    BY <1>1 DEF KeyInv, KeyOK, Minted
  <2>2. \A x, y \in Requests : tx'[x].new \in Keys /\ tx'[y].new = tx'[x].new => x = y
    BY <1>1, KeyAssumption DEF KeyInv
  <2>3. Fresh' = Fresh /\ \A k \in Fresh : k \in Keys /\ owner[k] # r.dev
    BY <1>1, <1>2, DeviceAssumption DEF Fresh
  <2>4. \A k \in Fresh' : peer'[k] = "absent" /\ cred'[k].status = "none"
    BY <1>1, <1>6, <2>3 DEF KeyInv
  <2> QED BY <2>1, <2>2, <2>4 DEF KeyInv
<1>8. LimitInv' /\ RowInv' /\ AloneInv' /\ LapsedInv'
  BY <1>1, <1>2, LimitKept, RowsKept, AloneKept, LapsedKept
<1>9. PeerInv'
  <2>1. Tame' = Tame
    BY <1>1 DEF Tame
  <2>2. ASSUME NEW x \in Requests, tx'[x].dev \in Tame PROVE PeerOK(tx[x])'
    <3>1. CASE x = t
      BY <1>1, <2>2, <3>1 DEF PeerOK, Created, Called, Minted, Done, Paused
    <3>2. CASE x # t
      <4>1. tx'[x] = tx[x] /\ tx[x].dev # r.dev /\ PeerOK(tx[x])
        BY <1>1, <2>2, <3>2 DEF AloneInv, PeerInv
      <4>2. /\ tx[x].old \in Keys => peer'[tx[x].old] = peer[tx[x].old]
            /\ Minted(tx[x]) => peer'[tx[x].new] = peer[tx[x].new]
        BY <1>6, <4>1 DEF RequestInv, RequestOK, KeyInv, KeyOK
      <4> QED BY <4>1, <4>2 DEF PeerOK, Created, Called, Minted, Done, Paused
    <3> QED BY <3>1, <3>2
  <2>3. ASSUME NEW k \in sweep'.keys, owner'[k] \in Tame' PROVE peer'[k] = Paused(owner'[k])
    <3>1. k \in Keys /\ k \in sweep.keys /\ owner[k] \in Tame /\ owner[k] \in sweep.done
      BY <1>1, <2>1, <2>3 DEF Typed, TypeOK, AloneInv
    <3>2. owner[k] # r.dev
      BY <3>1 DEF AloneInv, AloneOK
    <3> QED BY <1>1, <1>6, <3>1, <3>2 DEF PeerInv, Paused
  <2>4. ASSUME NEW k \in Keys, owner'[k] \in Tame', Quiet(k)' PROVE peer'[k] = Asked(k)'
    <3>1. owner[k] \in Tame /\ k \notin sweep.keys /\ r.old # k
      BY <1>1, <2>1, <2>4 DEF Quiet, Called
    <3>2. Asked(k)' = Asked(k)
      BY <1>1 DEF Asked, Paused
    <3>3. CASE k = tx[t].new
      <4>1. r.new # k
        BY <1>1, <2>4, <3>3 DEF Quiet, KeyOK, Minted
      <4> QED BY <1>5, <3>2, <3>3, <4>1 DEF Asked
    <3>4. CASE k # tx[t].new
      <4>1. Quiet(k)
        BY <1>1, <2>4, <3>1, <3>4 DEF Quiet, Minted, Called
      <4> QED BY <3>1, <3>2, <3>4, <4>1 DEF PeerInv
    <3> QED BY <3>3, <3>4
  <2> QED BY <2>1, <2>2, <2>3, <2>4 DEF PeerInv, Paused
<1>10. NoOrphanWithoutFailure'
  <2> SUFFICES ASSUME faults' = 0, NEW k \in Keys, peer'[k] # "absent"
               PROVE  cred'[k].status # "none" \/ \E x \in Requests : tx'[x].new = k
    BY DEF NoOrphanWithoutFailure
  <2>1. CASE k = r.old
    BY <1>1, <1>5, <2>1
  <2>2. CASE k = tx[t].new
    BY <1>1, <2>2
  <2>3. CASE k # r.old /\ k # tx[t].new
    <3>1. cred[k].status # "none" \/ \E x \in Requests : tx[x].new = k
      BY <1>1, <2>3 DEF NoOrphanWithoutFailure
    <3> QED BY <1>1, <2>3, <3>1
  <2> QED BY <2>1, <2>2, <2>3
<1> QED BY <1>3, <1>4, <1>7, <1>8, <1>9, <1>10

LEMMA RecordFacts ==
    ASSUME Typed, NEW t \in Requests
    PROVE  /\ tx[t] \in TxRecords
           /\ \A s \in Steps : LET r == [tx[t] EXCEPT !.pc = s] IN
                 /\ r \in TxRecords /\ r.pc = s /\ r.op = tx[t].op /\ r.dev = tx[t].dev
                 /\ r.seen = tx[t].seen /\ r.old = tx[t].old /\ r.new = tx[t].new
                 /\ r.ip = tx[t].ip /\ r.load = tx[t].load
<1>1. tx[t] \in TxRecords
  BY TxTyped
<1> QED BY <1>1 DEF TxRecords

(* With another key, or one that is not created yet, nothing more is held. *)
LEMMA HoldsSame ==
    ASSUME NEW t \in Requests, NEW r, Sets(t, r), UNCHANGED cred,
           Created(r) => Created(tx[t]) /\ r.new = tx[t].new /\ r.ip = tx[t].ip
    PROVE  \A k \in Keys, i \in Ips : Holds(k, i)' => Holds(k, i)
<1> SUFFICES ASSUME NEW k \in Keys, NEW i \in Ips, Holds(k, i)' PROVE Holds(k, i)
  OBVIOUS
<1>1. CASE cred[k].status # "none" /\ cred[k].ip = i
  BY <1>1 DEF Holds
<1>2. CASE ~(cred[k].status # "none" /\ cred[k].ip = i)
  <2>1. PICK x \in Requests : tx'[x].new = k /\ tx'[x].ip = i /\ Created(tx'[x])
    BY <1>2 DEF Holds, Created, Minted
  <2>2. CASE x = t
    BY <2>1, <2>2 DEF Sets, Holds
  <2>3. CASE x # t
    BY <2>1, <2>3 DEF Sets, Holds
  <2> QED BY <2>2, <2>3
<1> QED BY <1>1, <1>2

LEMMA ContestedTyped ==
    ASSUME Typed, NEW t \in Requests, Contest(t)
    PROVE  contested' \in SUBSET Ips
<1>1. tx[t].ip \in Ips \cup {0} /\ contested \in SUBSET Ips
  BY TxTyped DEF TxRecords, Typed, TypeOK
<1> QED BY <1>1 DEF Contest

LEMMA DeleteOldPeerStep ==
    ASSUME DevicesInv, NEW t \in Requests, DeleteOldPeer(t)
    PROVE  DevicesInv'
<1> USE DEF DevicesInv
<1>1. /\ tx[t].pc = "delete_old" /\ Apply(t) /\ tx' = [tx EXCEPT ![t].pc = "allocate"]
      /\ UNCHANGED <<rows, owner, sweep, starts, faults, disturbed, contested, relaxed, lapsed>>
  BY DEF DeleteOldPeer, Call, Goto, history
<1>2. PICK r : r = [tx[t] EXCEPT !.pc = "allocate"]
  OBVIOUS
<1>3. /\ Sets(t, r) /\ r \in TxRecords /\ r.pc = "allocate" /\ r.op = tx[t].op
      /\ r.dev = tx[t].dev /\ r.seen = tx[t].seen /\ r.old = tx[t].old /\ r.new = tx[t].new
      /\ r.ip = tx[t].ip /\ r.load = tx[t].load
  BY <1>1, <1>2, Moved, RecordFacts DEF Steps
<1>4. /\ r.op = "reissue" /\ r.old \in Keys /\ r.dev \in Devices /\ RequestOK(tx[t])
      /\ KeyOK(tx[t]) /\ tx[t].new \notin Keys
  BY <1>1, <1>3 DEF RequestInv, RequestOK, KeyInv, KeyOK, Minted
<1>5. RequestOK(r) /\ KeyOK(r) /\ Called(r) /\ ~Created(r)
  <2>1. RequestOK(r)
    <3>1. r.dev \notin Vless /\ owner[r.old] = r.dev /\ cred[r.old].status # "none"
      BY <1>3, <1>4 DEF RequestOK
    <3>2. r.pc = "allocate" /\ r.op = "reissue" /\ r.old \in Keys /\ r.dev \in Devices
      BY <1>3, <1>4
    <3> QED BY <3>1, <3>2 DEF RequestOK, Ops
  <2>2. ~Minted(r) /\ r.new \notin Keys
    BY <1>3, <1>4 DEF Minted
  <2> QED BY <1>3, <2>1, <2>2 DEF KeyOK, Called, Created
<1>6. tx[t].pc \in CallSteps /\ Open(t)
  BY <1>1 DEF CallSteps, Open
<1>7. Handled(tx[t]) = r.old /\ Left(tx[t]) = "absent"
  BY <1>1, <1>3 DEF Handled, Left, Adds
<1>8. NetTyped' /\ Touches(r.old, "absent")
  BY <1>1, <1>6, <1>7, CallTouches
<1>9. PeerOK(r)'
  BY <1>3, <1>4, <1>5, <1>8 DEF PeerOK, Touches, Done, Called, Created, Minted
<1>10. RouteInv'
  <2>1. Contest(t) /\ UNCHANGED cred
    BY <1>1 DEF Contest, rows
  <2>2. \A k \in Keys, i \in Ips : Holds(k, i)' => Holds(k, i)
    BY <1>3, <1>5, <2>1, HoldsSame
  <2> QED BY <1>1, <1>6, <2>1, <2>2, RouteCalled
<1>11. contested' \in SUBSET Ips
  BY <1>1 DEF Typed, TypeOK
<1>12. \A k \in Keys \ {tx[t].new, r.old} : peer'[k] = peer[k]
  BY <1>8 DEF Touches
<1> QED BY <1>1, <1>3, <1>5, <1>6, <1>8, <1>9, <1>10, <1>11, <1>12, AdvanceStep

LEMMA ChangePeerStep ==
    ASSUME DevicesInv, NEW t \in Requests, ChangePeer(t)
    PROVE  DevicesInv'
<1> USE DEF DevicesInv
<1>1. /\ tx[t].pc = "agent" /\ Apply(t) /\ tx' = [tx EXCEPT ![t].pc = "commit"]
      /\ UNCHANGED <<rows, owner, sweep, starts, faults, disturbed, contested, relaxed, lapsed>>
  BY DEF ChangePeer, Call, Goto, history
<1>2. PICK r : r = [tx[t] EXCEPT !.pc = "commit"]
  OBVIOUS
<1>3. /\ Sets(t, r) /\ r \in TxRecords /\ r.pc = "commit" /\ r.op = tx[t].op
      /\ r.dev = tx[t].dev /\ r.seen = tx[t].seen /\ r.old = tx[t].old /\ r.new = tx[t].new
      /\ r.ip = tx[t].ip /\ r.load = tx[t].load
  BY <1>1, <1>2, Moved, RecordFacts DEF Steps
<1>4. /\ r.op \in {"enable", "disable", "revoke"} /\ r.old \in Keys /\ r.dev \in Devices
      /\ RequestOK(tx[t]) /\ KeyOK(tx[t]) /\ tx[t].new \notin Keys
  BY <1>1, <1>3 DEF RequestInv, RequestOK, KeyInv, KeyOK, Minted
<1>5. RequestOK(r) /\ KeyOK(r) /\ Called(r) /\ ~Created(r)
  <2>1. RequestOK(r)
    <3>1. owner[r.old] = r.dev /\ cred[r.old].status # "none"
      BY <1>3, <1>4 DEF RequestOK
    <3>2. /\ r.pc = "commit" /\ r.op \in {"enable", "disable", "revoke"} /\ r.old \in Keys
          /\ r.dev \in Devices
      BY <1>3, <1>4
    <3> QED BY <3>1, <3>2 DEF RequestOK, Ops
  <2>2. ~Minted(r) /\ r.new \notin Keys
    BY <1>3, <1>4 DEF Minted
  <2> QED BY <1>3, <2>1, <2>2 DEF KeyOK, Called, Created
<1>6. tx[t].pc \in CallSteps /\ Open(t)
  BY <1>1 DEF CallSteps, Open
<1>7. Handled(tx[t]) = r.old /\ Left(tx[t]) = Done(r)
  BY <1>1, <1>3, <1>4 DEF Handled, Left, Adds, Done
<1>8. NetTyped' /\ Touches(r.old, Done(r))
  BY <1>1, <1>6, <1>7, CallTouches
<1>9. PeerOK(r)'
  BY <1>3, <1>4, <1>5, <1>8 DEF PeerOK, Touches, Done, Paused, Called, Created, Minted
<1>10. RouteInv'
  <2>1. Contest(t) /\ UNCHANGED cred
    BY <1>1 DEF Contest, rows
  <2>2. \A k \in Keys, i \in Ips : Holds(k, i)' => Holds(k, i)
    BY <1>3, <1>5, <2>1, HoldsSame
  <2> QED BY <1>1, <1>6, <2>1, <2>2, RouteCalled
<1>11. contested' \in SUBSET Ips
  BY <1>1 DEF Typed, TypeOK
<1>12. \A k \in Keys \ {tx[t].new, r.old} : peer'[k] = peer[k]
  BY <1>8 DEF Touches
<1> QED BY <1>1, <1>3, <1>5, <1>6, <1>8, <1>9, <1>10, <1>11, <1>12, AdvanceStep

LEMMA CreatePeerStep ==
    ASSUME DevicesInv, NEW t \in Requests, CreatePeer(t)
    PROVE  DevicesInv'
<1> USE DEF DevicesInv
<1>1. PICK s \in {"commit", "insert"} :
          /\ tx[t].pc = "create" /\ Apply(t) /\ tx' = [tx EXCEPT ![t].pc = s] /\ Contest(t)
          /\ s = IF tx[t].dev \in Vless THEN "commit" ELSE "insert"
          /\ UNCHANGED <<rows, owner, sweep, starts, faults, disturbed, relaxed, lapsed>>
  BY DEF CreatePeer, Goto
<1>2. PICK r : r = [tx[t] EXCEPT !.pc = s]
  OBVIOUS
<1>3. /\ Sets(t, r) /\ r \in TxRecords /\ r.pc = s /\ r.op = tx[t].op
      /\ r.dev = tx[t].dev /\ r.seen = tx[t].seen /\ r.old = tx[t].old /\ r.new = tx[t].new
      /\ r.ip = tx[t].ip /\ r.load = tx[t].load
  <2>1. s \in Steps
    BY <1>1 DEF Steps, CallSteps
  <2> QED BY <1>1, <1>2, <2>1, Moved, RecordFacts
<1>4. /\ r.op \in {"provision", "reissue"} /\ r.dev \in Devices
      /\ RequestOK(tx[t]) /\ KeyOK(tx[t]) /\ tx[t].new \in Keys /\ r.old # r.new
  BY <1>1, <1>3, KeyAssumption DEF RequestInv, RequestOK, KeyInv, KeyOK, Minted
<1>5. RequestOK(r) /\ KeyOK(r) /\ Called(r)
  BY <1>1, <1>3, <1>4 DEF RequestOK, KeyOK, Called, Minted
<1>6. tx[t].pc \in CallSteps /\ Open(t)
  BY <1>1 DEF CallSteps, Open
<1>7. Handled(tx[t]) = r.new /\ Left(tx[t]) = "on"
  BY <1>1, <1>3 DEF Handled, Left, Adds
<1>8. NetTyped' /\ Touches(r.new, "on")
  BY <1>1, <1>6, <1>7, CallTouches
<1>9. ASSUME r.dev \in Tame PROVE PeerOK(r)'
  <2>1. r.old \in Keys => peer[r.old] = Done(r)
    BY <1>1, <1>3, <1>9 DEF PeerInv, PeerOK, Called, Done
  <2> QED BY <1>1, <1>3, <1>4, <1>8, <2>1
          DEF PeerOK, Touches, Done, Paused, Called, Created, Minted
<1>10. RouteInv'
  <2>1. \A k \in Keys, i \in Ips :
            Holds(k, i)' => Holds(k, i) \/ (k = tx[t].new /\ i = tx[t].ip)
    <3>1. UNCHANGED cred
      BY <1>1 DEF rows
    <3> SUFFICES ASSUME NEW k \in Keys, NEW i \in Ips, Holds(k, i)',
                        ~(k = tx[t].new /\ i = tx[t].ip)
                 PROVE  Holds(k, i)
      OBVIOUS
    <3>2. \A x \in Requests : /\ x # t => tx'[x] = tx[x]
                              /\ tx'[x].new = k /\ tx'[x].ip = i => x # t
      BY <1>3 DEF Sets
    <3> QED BY <3>1, <3>2 DEF Holds, Created, Minted
  <2> QED BY <1>1, <1>6, <2>1, RouteCalled
<1>11. contested' \in SUBSET Ips
  BY <1>1, ContestedTyped
<1>12. \A k \in Keys \ {tx[t].new, r.old} : peer'[k] = peer[k]
  BY <1>3, <1>8 DEF Touches
<1> QED BY <1>1, <1>3, <1>5, <1>6, <1>8, <1>9, <1>10, <1>11, <1>12, AdvanceStep

LEMMA InsertPeerStep ==
    ASSUME DevicesInv, NEW t \in Requests, InsertPeer(t)
    PROVE  DevicesInv'
<1> USE DEF DevicesInv
<1>1. PICK s \in {"cleanup", "commit"} :
          /\ tx[t].pc = "insert" /\ tx' = [tx EXCEPT ![t].pc = s]
          /\ UNCHANGED <<rows, owner, net, sweep, starts, faults, disturbed, contested, relaxed,
                         lapsed>>
  BY DEF InsertPeer, Goto, history
<1>2. PICK r : r = [tx[t] EXCEPT !.pc = s]
  OBVIOUS
<1>3. /\ Sets(t, r) /\ r \in TxRecords /\ r.pc = s /\ r.op = tx[t].op
      /\ r.dev = tx[t].dev /\ r.seen = tx[t].seen /\ r.old = tx[t].old /\ r.new = tx[t].new
      /\ r.ip = tx[t].ip /\ r.load = tx[t].load
  <2>1. s \in Steps
    BY <1>1 DEF Steps, CallSteps
  <2> QED BY <1>1, <1>2, <2>1, Moved, RecordFacts
<1>4. /\ r.op \in {"provision", "reissue"} /\ r.dev \in Devices
      /\ RequestOK(tx[t]) /\ KeyOK(tx[t])
  BY <1>1, <1>3 DEF RequestInv, RequestOK, KeyInv
<1>5. RequestOK(r) /\ KeyOK(r) /\ Called(r) /\ Open(t) /\ Created(tx[t])
  BY <1>1, <1>3, <1>4 DEF RequestOK, KeyOK, Called, Created, Minted, Open
<1>6. UNCHANGED <<peer, route, cred, contested>>
  BY <1>1 DEF net, rows
<1>7. ASSUME r.dev \in Tame PROVE PeerOK(r)'
  <2>1. PeerOK(tx[t])
    BY <1>3, <1>7 DEF PeerInv
  <2> QED BY <1>1, <1>3, <1>4, <1>6, <2>1 DEF PeerOK, Created, Minted, Called, Done, Paused
<1>8. RouteInv'
  BY <1>3, <1>5, <1>6, HoldsSame, RouteKept
<1>9. NetTyped' /\ contested' \in SUBSET Ips
  BY <1>6 DEF Typed, TypeOK, NetTyped
<1> QED BY <1>1, <1>3, <1>5, <1>6, <1>7, <1>8, <1>9, AdvanceStep

(* The loser's key is off the node before it is forgotten. *)
LEMMA CleanupStep ==
    ASSUME DevicesInv, NEW t \in Requests, Cleanup(t), tx[t].attempt < MaxIpAttempts
    PROVE  DevicesInv'
<1> USE DEF DevicesInv
<1>1. /\ tx[t].pc = "cleanup" /\ Apply(t)
      /\ tx' = [tx EXCEPT ![t].pc = "allocate", ![t].attempt = tx[t].attempt + 1,
                          ![t].new = NoKey, ![t].ip = 0]
      /\ UNCHANGED <<rows, owner, sweep, starts, faults, disturbed, contested, relaxed, lapsed>>
  BY NumberAssumption DEF Cleanup, history
<1>2. PICK r : r = [tx[t] EXCEPT !.pc = "allocate", !.attempt = tx[t].attempt + 1, !.new = NoKey,
                                 !.ip = 0]
  OBVIOUS
<1>3. /\ r \in TxRecords /\ r.pc = "allocate" /\ r.op = tx[t].op
      /\ r.dev = tx[t].dev /\ r.seen = tx[t].seen /\ r.old = tx[t].old /\ r.new = NoKey
      /\ r.load = tx[t].load
  <2>1. tx[t] \in TxRecords
    BY TxTyped
  <2>2. tx[t].attempt + 1 \in 1 .. MaxIpAttempts /\ "allocate" \in Steps
    BY <2>1, NumberAssumption DEF TxRecords, Steps
  <2> QED BY <1>2, <2>1, <2>2 DEF TxRecords
<1>4. Sets(t, r)
  BY <1>1, <1>2, <1>3, TxTyped, Update
<1>5. /\ r.op \in {"provision", "reissue"} /\ r.dev \in Devices /\ RequestOK(tx[t])
      /\ KeyOK(tx[t]) /\ tx[t].new \in Keys /\ tx[t].new # r.old
  BY <1>1, <1>3, KeyAssumption DEF RequestInv, RequestOK, KeyInv, KeyOK, Minted
<1>6. RequestOK(r) /\ KeyOK(r) /\ Called(r) /\ ~Created(r)
  BY <1>1, <1>3, <1>5, KeyAssumption DEF RequestOK, KeyOK, Called, Created, Minted
<1>7. tx[t].pc \in CallSteps /\ Open(t)
  BY <1>1 DEF CallSteps, Open
<1>8. NetTyped' /\ Touches(tx[t].new, "absent")
  <2>1. Handled(tx[t]) = tx[t].new /\ Left(tx[t]) = "absent"
    BY <1>1 DEF Handled, Left, Adds
  <2> QED BY <1>1, <1>7, <2>1, CallTouches
<1>9. ASSUME r.dev \in Tame PROVE PeerOK(r)'
  <2>1. r.old \in Keys => peer[r.old] = Done(r)
    BY <1>1, <1>3, <1>9 DEF PeerInv, PeerOK, Called, Done
  <2> QED BY <1>3, <1>5, <1>8, <2>1 DEF PeerOK, Touches, Done, Paused, Called, Created, Minted
<1>10. RouteInv'
  <2>1. Contest(t) /\ UNCHANGED cred
    BY <1>1 DEF Contest, rows
  <2>2. \A k \in Keys, i \in Ips : Holds(k, i)' => Holds(k, i)
    BY <1>4, <1>6, <2>1, HoldsSame
  <2> QED BY <1>1, <1>7, <2>1, <2>2, RouteCalled
<1>11. contested' \in SUBSET Ips
  BY <1>1 DEF Typed, TypeOK
<1>12. peer'[tx[t].new] = "absent" /\ \A k \in Keys \ {tx[t].new, r.old} : peer'[k] = peer[k]
  BY <1>8 DEF Touches
<1> QED BY <1>1, <1>3, <1>4, <1>6, <1>7, <1>8, <1>9, <1>10, <1>11, <1>12, AdvanceStep

-----------------------------------------------------------------------------
(* A key is minted. *)

OwnerStep(n, d) == \/ UNCHANGED owner
                   \/ n \in Fresh /\ owner' = [owner EXCEPT ![n] = d]

LEMMA Owned ==
    ASSUME Typed, KeyInv, NEW d \in Devices, NEW n, OwnerStep(n, d)
    PROVE  /\ owner' \in [Keys -> Devices \cup {NoDevice}]
           /\ \A x \in Keys : owner[x] # NoDevice => owner'[x] = owner[x]
           /\ \A x \in Keys : cred[x].status # "none" => owner[x] # NoDevice
           /\ \A x \in Keys : owner'[x] # owner[x] => x = n /\ owner'[x] = d /\ x \in Fresh
           /\ \A x \in Fresh' : x \in Fresh
<1>1. owner \in [Keys -> Devices \cup {NoDevice}] /\ d # NoDevice
  BY DeviceAssumption DEF Typed, TypeOK
<1>2. \A x \in Keys : cred[x].status # "none" => owner[x] # NoDevice
  BY DEF KeyInv, Fresh
<1>3. CASE UNCHANGED owner
  BY <1>1, <1>2, <1>3 DEF Fresh
<1>4. CASE n \in Fresh /\ owner' = [owner EXCEPT ![n] = d]
  BY <1>1, <1>2, <1>4 DEF Fresh
<1> QED BY <1>3, <1>4 DEF OwnerStep

(* The rows do not show it. *)
LEMMA OwnedRows ==
    ASSUME Typed, KeyInv, NEW d \in Devices, NEW n, OwnerStep(n, d), UNCHANGED cred
    PROVE  \A e, s : s # "none" => KeysOf(e, s)' = KeysOf(e, s)
<1> SUFFICES ASSUME NEW e, NEW s, s # "none" PROVE KeysOf(e, s)' = KeysOf(e, s)
  OBVIOUS
<1>1. \A x \in Keys : cred[x].status = s => owner'[x] = owner[x]
  BY Owned
<1> QED BY <1>1 DEF KeysOf

LEMMA RowsOwned ==
    ASSUME Typed, KeyInv, RowInv, NEW d \in Devices, NEW n, OwnerStep(n, d),
           UNCHANGED <<dev, cred>>, disturbed \subseteq disturbed',
           UNCHANGED owner \/ d \notin Vless \/ \A x \in Keys : owner[x] # d
    PROVE  RowInv'
<1>1. Tame' \subseteq Tame
  BY DEF Tame
<1>2. \A e : KeysOf(e, "active")' = KeysOf(e, "active")
  BY OwnedRows
<1>3. ASSUME NEW e \in Tame, dev[e] = "none", NEW k \in Keys, owner'[k] = e
      PROVE  cred[k].status = "none"
  BY <1>3, Owned DEF RowInv
<1>4. ASSUME NEW e \in Tame, e \in Vless, NEW k \in Keys, NEW l \in Keys,
             owner'[k] = e, owner'[l] = e
      PROVE  k = l
  <2>1. owner[k] = e /\ owner[l] = e => k = l
    BY <1>4 DEF RowInv
  <2>2. /\ owner[k] # e => k = n /\ e = d /\ owner' # owner
        /\ owner[l] # e => l = n /\ e = d /\ owner' # owner
    BY <1>4, Owned
  <2> QED BY <1>4, <2>1, <2>2
<1>5. ASSUME NEW e \in Tame
      PROVE  /\ \A k, l \in KeysOf(e, "active")' : k = l
             /\ dev'[e] \in {"none", "revoked"} => KeysOf(e, "active")' = {}
             /\ e \in Vless /\ KeysOf(e, "active")' # {} => dev'[e] = "active"
  BY <1>2 DEF RowInv
<1> QED BY <1>1, <1>3, <1>4, <1>5 DEF RowInv

(* The address and the key are the request's from here on. *)
LEMMA AllocateIpStep ==
    ASSUME DevicesInv, NEW t \in Requests, NEW k \in Keys, AllocateIp(t, k)
    PROVE  DevicesInv'
<1> USE DEF DevicesInv
<1>1. PICK ip \in Ips : /\ tx[t].pc = "allocate" /\ k \in Fresh
                        /\ tx' = [tx EXCEPT ![t].pc = "create", ![t].ip = ip, ![t].new = k]
                        /\ owner' = [owner EXCEPT ![k] = tx[t].dev]
                        /\ UNCHANGED <<rows, net, sweep, starts, faults, history>>
  BY DEF AllocateIp
<1>2. PICK r : r = [tx[t] EXCEPT !.pc = "create", !.ip = ip, !.new = k]
  OBVIOUS
<1>3. /\ r \in TxRecords /\ r.pc = "create" /\ r.op = tx[t].op
      /\ r.dev = tx[t].dev /\ r.seen = tx[t].seen /\ r.old = tx[t].old /\ r.new = k
      /\ r.load = tx[t].load
  <2>1. tx[t] \in TxRecords /\ "create" \in Steps
    BY TxTyped DEF Steps, CallSteps
  <2> QED BY <1>2, <2>1 DEF TxRecords
<1>4. Sets(t, r)
  BY <1>1, <1>2, <1>3, TxTyped, Update
<1>5. /\ r.op \in {"provision", "reissue"} /\ r.dev \in Devices /\ r.dev \notin Vless
      /\ RequestOK(tx[t]) /\ KeyOK(tx[t]) /\ tx[t].new \notin Keys
  BY <1>1, <1>3 DEF RequestInv, RequestOK, KeyInv, KeyOK, Minted
<1>6. /\ UNCHANGED <<sub, dev, cred, load, peer, route, sweep, starts, faults, disturbed,
                     contested, relaxed, lapsed>>
      /\ \A x \in Requests : tx'[x] = IF x = t THEN r ELSE tx[x]
  BY <1>1, <1>4 DEF rows, net, history, Sets
<1>7. PICK d \in Devices : d = r.dev
  BY <1>5
<1>8. /\ OwnerStep(k, d) /\ owner' \in [Keys -> Devices \cup {NoDevice}] /\ owner'[k] = d
      /\ \A x \in Keys : owner[x] # NoDevice => owner'[x] = owner[x] /\ x # k
      /\ \A x \in Keys : cred[x].status # "none" => owner[x] # NoDevice
      /\ \A x \in Keys : x # k => owner'[x] = owner[x]
      /\ \A x \in Fresh' : x \in Fresh /\ x # k
      /\ cred[k].status = "none" /\ peer[k] = "absent"
  <2>1. OwnerStep(k, d)
    BY <1>1, <1>3, <1>7 DEF OwnerStep
  <2>2. owner'[k] = d /\ d # NoDevice /\ owner[k] = NoDevice
    BY <1>1, <1>3, <1>7, DeviceAssumption DEF Typed, TypeOK, Fresh
  <2>3. cred[k].status = "none" /\ peer[k] = "absent"
    BY <1>1 DEF KeyInv
  <2>4. \A x \in Fresh' : x # k
    BY <2>2 DEF Fresh
  <2> QED BY <2>1, <2>2, <2>3, <2>4, Owned
<1>9. \A x \in Requests : GoesOn(tx'[x], tx[x])
  BY <1>3, <1>6 DEF GoesOn
<1>10. Typed'
  <2>1. tx' \in [Requests -> TxRecords] /\ \A x \in Requests : tx'[x].load <= starts
    BY <1>3, <1>4, <1>6 DEF Sets, Typed, TypeOK
  <2> QED BY <1>6, <1>8, <2>1 DEF Typed, TypeOK, TxRecords
<1>11. RequestInv'
  <2>1. ASSUME NEW x \in Requests PROVE RequestOK(tx[x])'
    <3>1. tx[x].old \in Keys => owner'[tx[x].old] = tx[x].dev /\ cred'[tx[x].old].status # "none"
      BY <1>6, <1>8 DEF RequestInv, RequestOK
    <3>2. CASE x = t
      <4>1. r.old \in Keys => owner'[r.old] = r.dev /\ cred'[r.old].status # "none"
        BY <1>3, <3>1, <3>2
      <4>2. r.op = "provision" => r.old = NoKey
        BY <1>3, <1>5 DEF RequestOK
      <4>3. tx'[x] = r
        BY <1>6, <3>2
      <4> QED BY <1>3, <1>5, <4>1, <4>2, <4>3 DEF RequestOK, Ops
    <3>3. CASE x # t
      <4>1. tx'[x] = tx[x] /\ RequestOK(tx[x])
        BY <1>6, <3>3 DEF RequestInv
      <4> QED BY <3>1, <4>1 DEF RequestOK
    <3> QED BY <3>2, <3>3
  <2> QED BY <2>1 DEF RequestInv
<1>12. KeyInv'
  <2>1. ASSUME NEW x \in Requests PROVE KeyOK(tx[x])'
    <3>1. CASE x = t
      BY <1>3, <1>6, <1>7, <1>8, <3>1 DEF KeyOK, Minted
    <3>2. CASE x # t
      <4>1. tx'[x] = tx[x] /\ KeyOK(tx[x]) /\ RequestOK(tx[x])
        BY <1>6, <3>2 DEF KeyInv, RequestInv
      <4>2. tx[x].new \in Keys => tx[x].dev # NoDevice
        BY <4>1, DeviceAssumption DEF KeyOK, RequestOK, Minted
      <4>3. tx[x].new \in Keys => owner'[tx[x].new] = tx[x].dev
        BY <1>8, <4>1, <4>2 DEF KeyOK
      <4> QED BY <1>6, <4>1, <4>3 DEF KeyOK, Minted
    <3> QED BY <3>1, <3>2
  <2>2. \A x \in Requests : tx[x].new # k
    <3>1. \A x \in Requests : tx[x].new = k => owner[k] = tx[x].dev /\ tx[x].dev \in Devices
      BY DEF KeyInv, KeyOK, RequestInv, RequestOK, Minted
    <3> QED BY <1>8, <3>1, DeviceAssumption
  <2>3. \A x, y \in Requests : tx'[x].new \in Keys /\ tx'[y].new = tx'[x].new => x = y
    BY <1>3, <1>6, <2>2 DEF KeyInv
  <2>4. \A x \in Fresh' : peer'[x] = "absent" /\ cred'[x].status = "none"
    BY <1>6, <1>8 DEF KeyInv
  <2> QED BY <2>1, <2>3, <2>4 DEF KeyInv
<1>13. LimitInv' /\ RowInv' /\ LapsedInv'
  <2>1. Open(t)
    BY <1>1 DEF Open
  <2> QED BY <1>5, <1>6, <1>7, <1>8, <1>9, <2>1, LimitKept, RowsOwned, LapsedKept
<1>14. AloneInv'
  <2>1. /\ Tame' = Tame /\ \A e : /\ KeysOf(e, "active")' = KeysOf(e, "active")
                                 /\ KeysOf(e, "disabled")' = KeysOf(e, "disabled")
    BY <1>6, <1>8, OwnedRows DEF Tame
  <2>2. ASSUME NEW x \in Requests
        PROVE  /\ tx'[x].op = tx[x].op /\ tx'[x].dev = tx[x].dev /\ tx'[x].seen = tx[x].seen
               /\ tx'[x].old = tx[x].old
    BY <1>3, <1>6
  <2>3. ASSUME NEW x \in Requests, tx'[x].dev \in Tame' PROVE AloneOK(tx[x])'
    <3>1. AloneOK(tx[x])
      BY <2>1, <2>2, <2>3 DEF AloneInv
    <3> QED BY <1>6, <2>1, <2>2, <3>1 DEF AloneOK
  <2>4. \A x, y \in Requests : tx'[x].dev \in Tame' /\ tx'[y].dev = tx'[x].dev => x = y
    BY <2>1, <2>2 DEF AloneInv
  <2>5. \A x \in sweep.keys : /\ x \in Keys /\ owner[x] \in sweep.done /\ owner[x] # NoDevice
    BY DeviceAssumption DEF AloneInv, Typed, TypeOK
  <2>6. \A x \in sweep'.keys : /\ owner'[x] \in sweep'.done /\ cred'[x].status # "none"
                               /\ owner'[x] \in Tame' => cred'[x].status = "active"
    BY <1>6, <1>8, <2>1, <2>5 DEF AloneInv
  <2>7. /\ \A e \in Tame' \cap (sweep'.todo \cup sweep'.done) : dev'[e] = "active"
        /\ \A e \in Tame' \cap sweep'.done : KeysOf(e, "active")' \subseteq sweep'.keys
    BY <1>6, <2>1 DEF AloneInv
  <2> QED BY <2>3, <2>4, <2>6, <2>7 DEF AloneInv
<1>15. PeerInv'
  <2>1. Tame' = Tame
    BY <1>6 DEF Tame
  <2>2. ASSUME NEW x \in Requests, tx'[x].dev \in Tame PROVE PeerOK(tx[x])'
    <3>1. tx[x].dev \in Tame /\ PeerOK(tx[x])
      BY <1>3, <1>6, <2>2 DEF PeerInv
    <3>2. CASE x # t
      BY <1>6, <3>1, <3>2 DEF PeerOK, Created, Called, Minted, Done, Paused
    <3>3. CASE x = t
      <4>1. r.old \in Keys => peer[r.old] = Done(r)
        BY <1>1, <1>3, <3>1, <3>3 DEF PeerOK, Called, Done
      <4>2. tx'[x] = r /\ ~Created(r)
        BY <1>3, <1>6, <3>3 DEF Created
      <4> QED BY <1>3, <1>6, <1>8, <4>1, <4>2 DEF PeerOK, Created, Called, Minted, Done, Paused
    <3> QED BY <3>2, <3>3
  <2>3. ASSUME NEW x \in sweep'.keys, owner'[x] \in Tame' PROVE peer'[x] = Paused(owner'[x])
    <3>1. x \in Keys /\ x \in sweep.keys /\ owner[x] # NoDevice
      BY <1>6, <2>3, DeviceAssumption DEF Typed, TypeOK, AloneInv
    <3>2. owner'[x] = owner[x]
      BY <1>8, <3>1
    <3> QED BY <1>6, <2>1, <2>3, <3>1, <3>2 DEF PeerInv, Paused
  <2>4. ASSUME NEW x \in Keys, owner'[x] \in Tame', Quiet(x)' PROVE peer'[x] = Asked(x)'
    <3>1. x # k
      BY <1>3, <1>6, <2>4 DEF Quiet, Minted
    <3>2. Quiet(x) /\ owner'[x] = owner[x]
      <4>1. ~Minted(tx[t]) /\ tx[t].old # x
        BY <1>1, <1>3, <1>6, <2>4 DEF Quiet, Called, Minted
      <4> QED BY <1>6, <1>8, <2>4, <3>1, <4>1 DEF Quiet, Called, Minted
    <3> QED BY <1>6, <2>1, <2>4, <3>2 DEF PeerInv, Asked, Paused
  <2> QED BY <2>1, <2>2, <2>3, <2>4 DEF PeerInv, Paused
<1>16. RouteInv'
  <2>1. ~Created(r)
    BY <1>3 DEF Created
  <2> QED BY <1>4, <1>6, <2>1, HoldsSame, RouteKept
<1>17. NoOrphanWithoutFailure'
  <2> SUFFICES ASSUME faults' = 0, NEW x \in Keys, peer'[x] # "absent"
               PROVE  cred'[x].status # "none" \/ \E y \in Requests : tx'[y].new = x
    BY DEF NoOrphanWithoutFailure
  <2>1. cred[x].status # "none" \/ \E y \in Requests : tx[y].new = x
    BY <1>6 DEF NoOrphanWithoutFailure
  <2>2. tx[t].new # x
    BY <1>5
  <2> QED BY <1>6, <2>1, <2>2
<1> QED BY <1>10, <1>11, <1>12, <1>13, <1>14, <1>15, <1>16, <1>17


-----------------------------------------------------------------------------
(* The ways to fail.  Only a call that fails leaves a peer nobody knows.   *)

LEMMA FailKnown ==
    ASSUME DevicesInv, NEW t \in Requests, Open(t), Fail(t), faults' \in 0 .. MaxFaults,
           UNCHANGED net \/ (tx[t].pc \in CallSteps /\ Apply(t)),
           \/ faults' # 0
           \/ /\ faults' = faults
              /\ \A k \in Keys \ {tx[t].new} : peer'[k] = peer[k]
              /\ tx[t].new \in Keys => peer'[tx[t].new] = "absent"
    PROVE  DevicesInv'
<1>1. /\ Typed' /\ RequestInv' /\ KeyInv' /\ LimitInv' /\ RowInv' /\ AloneInv' /\ PeerInv'
      /\ RouteInv' /\ LapsedInv'
  BY FailStep
<1>2. NoOrphanWithoutFailure'
  <2> SUFFICES ASSUME faults' = 0, NEW k \in Keys, peer'[k] # "absent"
               PROVE  cred'[k].status # "none" \/ \E x \in Requests : tx'[x].new = k
    BY DEF NoOrphanWithoutFailure
  <2>1. k # tx[t].new /\ peer[k] # "absent" /\ faults = 0
    OBVIOUS
  <2>2. cred[k].status # "none" \/ \E x \in Requests : tx[x].new = k
    BY <2>1 DEF DevicesInv, NoOrphanWithoutFailure
  <2>3. cred' = cred /\ \A x \in Requests : x # t => tx'[x] = tx[x]
    <3>1. Sets(t, NoTx)
      BY Ended DEF Fail, DevicesInv
    <3> QED BY <3>1 DEF Fail, rows, Sets
  <2> QED BY <2>1, <2>2, <2>3
<1> QED BY <1>1, <1>2 DEF DevicesInv

LEMMA PoolExhaustedStep ==
    ASSUME DevicesInv, NEW t \in Requests, PoolExhausted(t)
    PROVE  DevicesInv'
<1>1. tx[t].pc = "allocate" /\ Fail(t) /\ UNCHANGED <<net, faults>>
  BY DEF PoolExhausted
<1>2. tx[t].new \notin Keys
  BY <1>1 DEF DevicesInv, KeyInv, KeyOK, Minted
<1>3. Open(t) /\ faults' \in 0 .. MaxFaults /\ UNCHANGED peer
  BY <1>1 DEF Open, DevicesInv, Typed, TypeOK, net
<1> QED BY <1>1, <1>2, <1>3, FailKnown

LEMMA CleanupFailStep ==
    ASSUME DevicesInv, NEW t \in Requests, Cleanup(t), tx[t].attempt = MaxIpAttempts
    PROVE  DevicesInv'
<1> USE DEF DevicesInv
<1>1. tx[t].pc = "cleanup" /\ Apply(t) /\ Fail(t) /\ UNCHANGED faults
  BY NumberAssumption DEF Cleanup
<1>2. Open(t) /\ faults' \in 0 .. MaxFaults /\ tx[t].pc \in CallSteps
  BY <1>1 DEF Open, Typed, TypeOK, CallSteps
<1>3. Handled(tx[t]) = tx[t].new /\ Left(tx[t]) = "absent"
  BY <1>1 DEF Handled, Left, Adds
<1>4. Touches(tx[t].new, "absent")
  BY <1>1, <1>2, <1>3, CallTouches
<1> QED BY <1>1, <1>2, <1>4, FailKnown DEF Touches

LEMMA AgentFailsStep ==
    ASSUME DevicesInv, NEW t \in Requests, AgentFails(t)
    PROVE  DevicesInv'
<1> USE DEF DevicesInv
<1>1. Open(t) /\ tx[t].pc \in CallSteps /\ Fail(t)
  BY DEF AgentFails, CallSteps, Open
<1>2. faults \in 0 .. MaxFaults
  BY DEF Typed, TypeOK
<1>3. CASE ~Accepted(t) /\ UNCHANGED <<net, faults>>
  <2>1. tx[t].new \notin Keys
    BY <1>3 DEF Accepted, KeyInv, KeyOK, Minted
  <2> QED BY <1>1, <1>2, <1>3, <2>1, FailKnown DEF net
<1>4. CASE /\ faults < MaxFaults /\ faults' = faults + 1
           /\ UNCHANGED net \/ Apply(t)
  <2>1. faults' \in 0 .. MaxFaults /\ faults' # 0
    BY <1>2, <1>4, NumberAssumption
  <2> QED BY <1>1, <1>4, <2>1, FailKnown
<1> QED BY <1>3, <1>4 DEF AgentFails

LEMMA CommitFailsStep ==
    ASSUME DevicesInv, NEW t \in Requests, CommitFails(t)
    PROVE  DevicesInv'
<1>1. Open(t) /\ Fail(t) /\ faults < MaxFaults /\ faults' = faults + 1 /\ UNCHANGED net
  BY DEF CommitFails, Open
<1>2. faults' \in 0 .. MaxFaults /\ faults' # 0
  BY <1>1, NumberAssumption DEF DevicesInv, Typed, TypeOK
<1> QED BY <1>1, <1>2, FailKnown


-----------------------------------------------------------------------------
(* Requests begin. *)

LEMMA BeginStep ==
    ASSUME DevicesInv, NEW t \in Requests, NEW d \in Devices, NEW r \in TxRecords,
           Begin(t, d, r), r.dev = d, r.op \in Ops, r.load <= starts + 1,
           RequestOK(r)', KeyOK(r)', ~Created(r), Called(r) => r.old = NoKey,
           OwnerStep(r.new, d), r.new \in Keys => r.new \in Fresh,
           UNCHANGED owner \/ \A x \in Keys : owner[x] # d,
           r.op = "provision" => dev[d] = "none" /\ Cardinality(Active \cup {d}) <= DeviceLimit,
           r.op # "provision" =>
               /\ r.seen = dev[d] /\ dev[d] # "none"
               /\ d \in Tame =>
                    KeysOf(d, IF r.op = "enable" /\ d \in Vless THEN "disabled" ELSE "active")
                        = {r.old} \cap Keys
    PROVE  DevicesInv'
<1> USE DEF DevicesInv
<1>1. /\ tx[t] = NoTx /\ starts < MaxStarts /\ starts' = starts + 1
      /\ tx' = [tx EXCEPT ![t] = r] /\ lapsed' = FALSE
      /\ UNCHANGED <<sub, dev, cred, load, peer, route, faults, contested>>
  BY DEF Begin, Open, RequestInv, RequestOK, rows, net
<1>2. /\ sweep'.pc = sweep.pc /\ sweep'.todo = sweep.todo /\ sweep'.done = sweep.done
      /\ sweep'.keys = sweep.keys /\ sweep'.alone = FALSE
      /\ sweep' \in [pc : {"idle", "disable"}, todo : SUBSET Devices, done : SUBSET Devices,
                     keys : SUBSET Keys, alone : BOOLEAN]
  BY DEF Begin, Typed, TypeOK
<1>3. /\ disturbed \subseteq disturbed' /\ disturbed' \subseteq disturbed \cup {d}
      /\ d \in Tame' => /\ On(d) = {} /\ d \notin sweep.todo \cup sweep.done
                        /\ r.op = "reissue" => dev[d] = "active"
      /\ Tame' \subseteq Tame
  BY DEF Begin, Tame
<1>4. /\ relaxed' \in BOOLEAN
      /\ ~relaxed' => /\ ~relaxed /\ r.op # "enable"
                      /\ r.op = "provision" => \A x \in Requests : tx[x].op # "provision"
  BY DEF Begin
<1>5. Sets(t, r) /\ \A x \in Requests : tx'[x] = IF x = t THEN r ELSE tx[x]
  BY <1>1, TxTyped, Update DEF Sets
<1>6. /\ owner' \in [Keys -> Devices \cup {NoDevice}]
      /\ \A x \in Keys : owner[x] # NoDevice => owner'[x] = owner[x]
      /\ \A x \in Keys : cred[x].status # "none" => owner[x] # NoDevice
      /\ \A x \in Keys : owner'[x] # owner[x] => x = r.new /\ owner'[x] = d /\ x \in Fresh
      /\ \A x \in Fresh' : x \in Fresh
  BY Owned
<1>7. Typed'
  <2>1. starts' \in 0 .. MaxStarts /\ starts' >= starts
    BY <1>1, NumberAssumption DEF Typed, TypeOK
  <2>2. tx' \in [Requests -> TxRecords]
    BY <1>5 DEF Sets
  <2>3. \A x \in Requests : tx'[x].load <= starts'
    <3>1. \A x \in Requests : tx[x].load \in Nat /\ tx[x].load <= starts
      BY TxTyped, NumberAssumption DEF Typed, TxRecords
    <3> QED BY <1>1, <1>5, <2>1, <3>1, NumberAssumption DEF Typed, TypeOK
  <2>4. \A p \in Protocols : load'[p] <= starts'
    <3>1. \A p \in Protocols : load[p] \in Nat /\ load[p] <= starts
      BY NumberAssumption DEF Typed, TypeOK
    <3> QED BY <1>1, <2>1, <3>1, NumberAssumption DEF Typed, TypeOK
  <2>5. disturbed' \in SUBSET Devices
    BY <1>3 DEF Typed, TypeOK
  <2>6. lapsed' \in BOOLEAN
    BY <1>1
  <2> QED BY <1>1, <1>2, <1>4, <1>6, <2>1, <2>2, <2>3, <2>4, <2>5, <2>6
          DEF Typed, TypeOK, TxRecords
<1>8. RequestInv'
  <2>1. ASSUME NEW x \in Requests, x # t PROVE RequestOK(tx[x])'
    <3>1. tx'[x] = tx[x] /\ RequestOK(tx[x])
      BY <1>5, <2>1 DEF RequestInv
    <3>2. tx[x].old \in Keys => owner'[tx[x].old] = tx[x].dev /\ cred'[tx[x].old].status # "none"
      BY <1>1, <1>6, <3>1 DEF RequestOK
    <3> QED BY <3>1, <3>2 DEF RequestOK
  <2>2. RequestOK(tx[t])'
    BY <1>5 DEF RequestOK
  <2> QED BY <2>1, <2>2 DEF RequestInv
<1>9. KeyInv'
  <2>1. ASSUME NEW x \in Requests, x # t PROVE KeyOK(tx[x])' /\ tx[x].new \notin Fresh
    <3>1. tx'[x] = tx[x] /\ KeyOK(tx[x]) /\ RequestOK(tx[x])
      BY <1>5, <2>1 DEF KeyInv, RequestInv
    <3>2. tx[x].new \in Keys => tx[x].dev # NoDevice
      BY <3>1, DeviceAssumption DEF KeyOK, RequestOK, Minted
    <3>3. tx[x].new \in Keys => owner'[tx[x].new] = tx[x].dev
      BY <1>6, <3>1, <3>2 DEF KeyOK
    <3> QED BY <1>1, <3>1, <3>2, <3>3 DEF KeyOK, Minted, Fresh
  <2>2. KeyOK(tx[t])'
    BY <1>5 DEF KeyOK, Minted
  <2>3. \A x, y \in Requests : tx'[x].new \in Keys /\ tx'[y].new = tx'[x].new => x = y
    BY <1>5, <2>1 DEF KeyInv
  <2>4. \A x \in Fresh' : peer'[x] = "absent" /\ cred'[x].status = "none"
    BY <1>1, <1>6 DEF KeyInv
  <2> QED BY <2>1, <2>2, <2>3, <2>4 DEF KeyInv
<1>10. LimitInv'
  <2>1. Active' = Active
    BY <1>1 DEF Active
  <2>2. ASSUME ~relaxed', NEW x \in Requests
        PROVE  /\ tx'[x].op # "enable"
               /\ tx'[x].op = "provision" =>
                    /\ Cardinality(Active \cup {tx'[x].dev}) <= DeviceLimit
                    /\ \A y \in Requests : tx'[y].op = "provision" => y = x
    BY <1>4, <1>5, <2>2 DEF LimitInv
  <2> QED BY <1>4, <2>1, <2>2 DEF LimitInv
<1>11. RowInv'
  BY <1>1, <1>3, RowsOwned
<1>12. AloneInv'
  <2>1. \A e : /\ KeysOf(e, "active")' = KeysOf(e, "active")
               /\ KeysOf(e, "disabled")' = KeysOf(e, "disabled")
    BY <1>1, OwnedRows
  <2>2. \A x, y \in Requests : tx'[x].dev \in Tame' /\ tx'[y].dev = tx'[x].dev => x = y
    BY <1>3, <1>5 DEF AloneInv, On
  <2>3. ASSUME NEW x \in Requests, x # t, tx'[x].dev \in Tame' PROVE AloneOK(tx[x])'
    <3>1. AloneOK(tx[x]) /\ tx'[x] = tx[x]
      BY <1>3, <1>5, <2>3 DEF AloneInv
    <3> QED BY <1>1, <1>2, <2>1, <3>1 DEF AloneOK
  <2>4. ASSUME d \in Tame' PROVE AloneOK(tx[t])'
    <3>1. tx'[t] = r
      BY <1>5
    <3> QED BY <1>1, <1>2, <1>3, <2>1, <2>4, <3>1 DEF AloneOK
  <2>5. \A x \in sweep.keys : x \in Keys /\ owner[x] \in sweep.done /\ owner[x] # NoDevice
    BY DeviceAssumption DEF AloneInv, Typed, TypeOK
  <2>6. \A x \in sweep'.keys : /\ owner'[x] \in sweep'.done /\ cred'[x].status # "none"
                               /\ owner'[x] \in Tame' => cred'[x].status = "active"
    BY <1>1, <1>2, <1>3, <1>6, <2>5 DEF AloneInv
  <2>7. /\ \A e \in Tame' \cap (sweep'.todo \cup sweep'.done) : dev'[e] = "active"
        /\ \A e \in Tame' \cap sweep'.done : KeysOf(e, "active")' \subseteq sweep'.keys
    BY <1>1, <1>2, <1>3, <2>1 DEF AloneInv
  <2> QED BY <1>5, <2>2, <2>3, <2>4, <2>6, <2>7 DEF AloneInv
<1>13. PeerInv'
  <2>1. ASSUME NEW x \in Requests, tx'[x].dev \in Tame' PROVE PeerOK(tx[x])'
    <3>1. CASE x # t
      <4>1. tx'[x] = tx[x] /\ PeerOK(tx[x])
        BY <1>3, <1>5, <2>1, <3>1 DEF PeerInv
      <4> QED BY <1>1, <4>1 DEF PeerOK, Created, Called, Minted, Done, Paused
    <3>2. CASE x = t
      <4>1. r.pc = "create" => r.new \in Fresh
        BY DEF KeyOK, Minted
      <4>2. r.pc = "create" => peer'[r.new] = "absent"
        BY <1>1, <4>1 DEF KeyInv
      <4>3. tx'[x] = r
        BY <1>5, <3>2
      <4> QED BY <4>2, <4>3, KeyAssumption DEF PeerOK, Created, Called, Minted
    <3> QED BY <3>1, <3>2
  <2>2. ASSUME NEW x \in sweep'.keys, owner'[x] \in Tame' PROVE peer'[x] = Paused(owner'[x])
    <3>1. x \in Keys /\ x \in sweep.keys /\ owner[x] # NoDevice
      BY <1>2, <2>2, DeviceAssumption DEF Typed, TypeOK, AloneInv
    <3>2. owner'[x] = owner[x]
      BY <1>6, <3>1
    <3> QED BY <1>1, <1>3, <2>2, <3>1, <3>2 DEF PeerInv, Paused
  <2>3. ASSUME NEW x \in Keys, owner'[x] \in Tame', Quiet(x)' PROVE peer'[x] = Asked(x)'
    <3>1. Quiet(x)
      <4>1. ~Minted(tx[t]) /\ ~Called(tx[t])
        BY <1>1, NoTxRecord DEF Minted, Called
      <4> QED BY <1>2, <1>5, <2>3, <4>1 DEF Quiet, Called, Minted
    <3>2. owner'[x] = owner[x]
      <4> SUFFICES ASSUME owner'[x] # owner[x] PROVE FALSE
        OBVIOUS
      <4>1. x = r.new
        BY <1>6
      <4>2. Minted(r)
        BY <4>1 DEF KeyOK, Minted
      <4> QED BY <1>5, <2>3, <4>1, <4>2 DEF Quiet, Minted
    <3> QED BY <1>1, <1>3, <2>3, <3>1, <3>2 DEF PeerInv, Asked, Paused
  <2> QED BY <2>1, <2>2, <2>3 DEF PeerInv, Paused
<1>14. RouteInv'
  <2>1. \A k \in Keys, i \in Ips : Holds(k, i)' => Holds(k, i)
    BY <1>1, <1>5, HoldsSame
  <2> QED BY <1>1, <2>1, RouteKept
<1>15. LapsedInv'
  BY <1>1, <1>2 DEF LapsedInv
<1>16. NoOrphanWithoutFailure'
  <2> SUFFICES ASSUME faults' = 0, NEW x \in Keys, peer'[x] # "absent"
               PROVE  cred'[x].status # "none" \/ \E y \in Requests : tx'[y].new = x
    BY DEF NoOrphanWithoutFailure
  <2>1. cred[x].status # "none" \/ \E y \in Requests : tx[y].new = x
    BY <1>1 DEF NoOrphanWithoutFailure
  <2>2. tx[t].new # x
    BY <1>1, NoTxRecord, KeyAssumption
  <2> QED BY <1>1, <1>5, <2>1, <2>2
<1> QED BY <1>7, <1>8, <1>9, <1>10, <1>11, <1>12, <1>13, <1>14, <1>15, <1>16

LEMMA OneMore ==
    ASSUME LimitInv, WithinDeviceLimit, NEW d \in Devices
    PROVE  Cardinality(Active \cup {d}) <= DeviceLimit
<1>1. IsFiniteSet(Active) /\ Cardinality(Active) < DeviceLimit
  BY DEF LimitInv, WithinDeviceLimit
<1>2. Cardinality(Active) \in Nat
  BY <1>1, FS_CardinalityType
<1>3. Cardinality(Active \cup {d}) = IF d \in Active THEN Cardinality(Active)
                                     ELSE Cardinality(Active) + 1
  BY <1>1, FS_AddElement
<1> QED BY <1>1, <1>2, <1>3, NumberAssumption

LEMMA LoadRoom ==
    ASSUME Typed, NEW p \in Protocols, starts < MaxStarts
    PROVE  /\ load[p] + 1 \in 0 .. MaxStarts /\ load[p] + 1 <= starts + 1
           /\ Lowered(load[p]) \in 0 .. MaxStarts /\ Lowered(load[p]) <= starts + 1
<1>1. load[p] \in 0 .. MaxStarts /\ starts \in 0 .. MaxStarts /\ load[p] <= starts
  BY DEF Typed, TypeOK
<1> QED BY <1>1, NumberAssumption DEF Lowered

LEMMA ProvisionStep ==
    ASSUME DevicesInv, NEW t \in Requests, NEW d \in Devices, Provision(t, d)
    PROVE  DevicesInv'
<1> USE DEF DevicesInv
<1>1. PICK r : r = [NoTx EXCEPT !.pc = "allocate", !.op = "provision", !.dev = d,
                                !.load = load["wireguard"] + 1]
  OBVIOUS
<1>2. /\ Begin(t, d, r) /\ UNCHANGED owner /\ dev[d] = "none" /\ d \notin Vless
      /\ WithinDeviceLimit /\ starts < MaxStarts
  BY <1>1 DEF Provision, Begin
<1>3. /\ load["wireguard"] + 1 \in 0 .. MaxStarts /\ load["wireguard"] + 1 <= starts + 1
  BY <1>2, LoadRoom DEF Protocols
<1>4. /\ r \in TxRecords /\ r.pc = "allocate" /\ r.op = "provision" /\ r.dev = d
      /\ r.old = NoKey /\ r.new = NoKey /\ r.load <= starts + 1
  BY <1>1, <1>3, NoTxRecord DEF TxRecords, NoTx, Steps, Ops
<1>5. ~Minted(r) /\ ~Created(r) /\ r.op \in Ops
  BY <1>4 DEF Minted, Created, Ops
<1>6. RequestOK(r)' /\ KeyOK(r)'
  BY <1>2, <1>4, <1>5, KeyAssumption DEF RequestOK, KeyOK, Ops, Minted
<1>7. OwnerStep(r.new, d)
  BY <1>2 DEF OwnerStep
<1>8. Cardinality(Active \cup {d}) <= DeviceLimit
  BY <1>2, OneMore
<1> QED BY <1>2, <1>4, <1>5, <1>6, <1>7, <1>8, KeyAssumption, BeginStep

LEMMA ProvisionVlessStep ==
    ASSUME DevicesInv, NEW t \in Requests, NEW d \in Devices, NEW k \in Keys,
           ProvisionVless(t, d, k)
    PROVE  DevicesInv'
<1> USE DEF DevicesInv
<1>1. PICK r : r = [NoTx EXCEPT !.pc = "create", !.op = "provision", !.dev = d, !.new = k,
                                !.load = load["vless"] + 1]
  OBVIOUS
<1>2. /\ Begin(t, d, r) /\ owner' = [owner EXCEPT ![k] = d] /\ dev[d] = "none" /\ k \in Fresh
      /\ WithinDeviceLimit /\ starts < MaxStarts /\ \A x \in Keys : owner[x] # d
  BY <1>1 DEF ProvisionVless, Begin
<1>3. /\ load["vless"] + 1 \in 0 .. MaxStarts /\ load["vless"] + 1 <= starts + 1
  BY <1>2, LoadRoom DEF Protocols
<1>4. /\ r \in TxRecords /\ r.pc = "create" /\ r.op = "provision" /\ r.dev = d
      /\ r.old = NoKey /\ r.new = k /\ r.load <= starts + 1
  BY <1>1, <1>3, NoTxRecord DEF TxRecords, NoTx, Steps, CallSteps, Ops
<1>5. Minted(r) /\ ~Created(r) /\ r.op \in Ops
  BY <1>4 DEF Minted, Created, Ops
<1>6. OwnerStep(r.new, d)
  BY <1>2, <1>4 DEF OwnerStep
<1>7. RequestOK(r)'
  BY <1>4, KeyAssumption DEF RequestOK, Ops
<1>8. KeyOK(r)'
  <2>1. owner'[k] = d
    BY <1>2 DEF Typed, TypeOK
  <2>2. cred'[k].status = "none"
    BY <1>2 DEF KeyInv, Begin, rows
  <2> QED BY <1>4, <2>1, <2>2 DEF KeyOK, Minted
<1>9. Cardinality(Active \cup {d}) <= DeviceLimit
  BY <1>2, OneMore
<1> QED BY <1>2, <1>4, <1>5, <1>6, <1>7, <1>8, <1>9, BeginStep

LEMMA SubjectFacts ==
    ASSUME RowInv, NEW d \in Devices, NEW op, NEW k \in Subject(d, op)
    PROVE  LET s == IF op = "enable" /\ d \in Vless THEN "disabled" ELSE "active" IN
           /\ k = NoKey \/ (k \in Keys /\ owner[k] = d /\ cred[k].status = s)
           /\ d \in Tame => KeysOf(d, s) = {k} \cap Keys
<1> DEFINE s == IF op = "enable" /\ d \in Vless THEN "disabled" ELSE "active"
           ks == KeysOf(d, s)
<1>1. CASE ks = {}
  BY <1>1, KeyAssumption DEF Subject
<1>2. CASE ks # {}
  <2>1. k \in ks
    BY <1>2 DEF Subject
  <2>2. k \in Keys /\ owner[k] = d /\ cred[k].status = s
    BY <2>1 DEF KeysOf
  <2>3. d \in Tame => \A l \in ks : l = k
    <3>1. CASE op = "enable" /\ d \in Vless
      BY <2>2, <3>1 DEF RowInv, KeysOf
    <3>2. CASE ~(op = "enable" /\ d \in Vless)
      BY <2>1, <3>2 DEF RowInv
    <3> QED BY <3>1, <3>2
  <2> QED BY <2>1, <2>2, <2>3
<1> QED BY <1>1, <1>2

LEMMA ChangeStep ==
    ASSUME DevicesInv, NEW t \in Requests, NEW d \in Devices, NEW op \in Ops \ {"provision"},
           Change(t, d, op)
    PROVE  DevicesInv'
<1> USE DEF DevicesInv
<1>1. PICK k \in Subject(d, op) :
          Begin(t, d, [NoTx EXCEPT !.op = op, !.dev = d, !.seen = dev[d], !.old = k,
                        !.pc = IF k = NoKey THEN IF op = "reissue" THEN "allocate" ELSE "commit"
                               ELSE IF op = "reissue" THEN "delete_old" ELSE "agent",
                        !.load = IF op = "revoke" /\ k # NoKey
                                 THEN Lowered(load[Protocol(d)]) ELSE 0])
  BY DEF Change
<1>2. PICK s \in Steps :
          s = IF k = NoKey THEN IF op = "reissue" THEN "allocate" ELSE "commit"
              ELSE IF op = "reissue" THEN "delete_old" ELSE "agent"
  BY DEF Steps, CallSteps
<1>3. starts < MaxStarts
  BY <1>1 DEF Begin
<1>4. PICK n \in 0 .. MaxStarts :
          /\ n = IF op = "revoke" /\ k # NoKey THEN Lowered(load[Protocol(d)]) ELSE 0
          /\ n <= starts + 1
  <2>1. starts \in Nat /\ 0 \in 0 .. MaxStarts
    BY NumberAssumption DEF Typed, TypeOK
  <2>2. Protocol(d) \in Protocols
    BY DEF Protocol, Protocols
  <2> QED BY <1>3, <2>1, <2>2, LoadRoom
<1>5. PICK r : r = [NoTx EXCEPT !.op = op, !.dev = d, !.seen = dev[d], !.old = k,
                                !.pc = s, !.load = n]
  OBVIOUS
<1>6. Begin(t, d, r) /\ UNCHANGED owner /\ dev[d] # "none" /\ (op = "reissue" => d \notin Vless)
  BY <1>1, <1>2, <1>4, <1>5 DEF Change
<1>7. /\ k = NoKey \/ (k \in Keys /\ owner[k] = d /\ cred[k].status # "none")
      /\ d \in Tame => KeysOf(d, IF op = "enable" /\ d \in Vless THEN "disabled" ELSE "active")
                           = {k} \cap Keys
  BY SubjectFacts
<1>8. /\ r \in TxRecords /\ r.pc = s /\ r.op = op /\ r.dev = d /\ r.seen = dev[d]
      /\ r.old = k /\ r.new = NoKey /\ r.load <= starts + 1
  <2>1. dev[d] \in DevStatus /\ k \in Keys \cup {NoKey}
    BY <1>7 DEF Typed, TypeOK
  <2> QED BY <1>4, <1>5, <2>1, NoTxRecord DEF TxRecords, NoTx
<1>9. ~Minted(r) /\ ~Created(r) /\ (Called(r) => r.old = NoKey)
  BY <1>2, <1>8 DEF Minted, Created, Called
<1>10. UNCHANGED cred
  BY <1>6 DEF Begin, rows
<1>11. RequestOK(r)'
  <2>1. k \in Keys => owner'[k] = d /\ cred'[k].status # "none"
    BY <1>6, <1>7, <1>10, KeyAssumption
  <2>2. op \in Ops /\ op # "provision"
    OBVIOUS
  <2>3. CASE k = NoKey
    BY <1>2, <1>6, <1>8, <2>1, <2>2, <2>3 DEF RequestOK, Ops
  <2>4. CASE k # NoKey
    <3>1. k \in Keys /\ s = IF op = "reissue" THEN "delete_old" ELSE "agent"
      BY <1>2, <1>7, <2>4
    <3> QED BY <1>6, <1>8, <2>1, <2>2, <3>1 DEF RequestOK, Ops
  <2> QED BY <2>3, <2>4
<1>12. KeyOK(r)'
  BY <1>8, <1>9, KeyAssumption DEF KeyOK, Minted
<1>13. OwnerStep(r.new, d) /\ r.new \notin Keys
  BY <1>6, <1>8, KeyAssumption DEF OwnerStep
<1> QED BY <1>6, <1>7, <1>8, <1>9, <1>11, <1>12, <1>13, BeginStep


-----------------------------------------------------------------------------
(* Requests commit.  A commit touches the rows of its device, the ones of  *)
(* the credential it knows and of the one it made; if it was alone, rows    *)
(* and node agree after it.                                                *)

RowOK(d) ==
    /\ \A k, l \in KeysOf(d, "active") : k = l
    /\ dev[d] \in {"none", "revoked"} => KeysOf(d, "active") = {}
    /\ dev[d] = "none" => \A k \in Keys : owner[k] = d => cred[k].status = "none"
    /\ d \in Vless /\ KeysOf(d, "active") # {} => dev[d] = "active"

LEMMA Fits ==
    ASSUME NEW T, NEW S, IsFiniteSet(S), T \subseteq S
    PROVE  IsFiniteSet(T) /\ (Cardinality(S) <= DeviceLimit => Cardinality(T) <= DeviceLimit)
<1>1. T \in SUBSET S
  OBVIOUS
<1>2. IsFiniteSet(T) /\ Cardinality(T) <= Cardinality(S)
  BY <1>1, FS_Subset
<1>3. Cardinality(T) \in Nat /\ Cardinality(S) \in Nat
  BY <1>2, FS_CardinalityType
<1> QED BY <1>2, <1>3, NumberAssumption

LEMMA CommitStep ==
    ASSUME DevicesInv, NEW t \in Requests, NEW r, r = tx[t], r.pc = "commit",
           tx' = [tx EXCEPT ![t] = NoTx],
           UNCHANGED <<sub, owner, net, sweep, starts, faults, history>>,
           dev' \in [Devices -> DevStatus], \A e \in Devices \ {r.dev} : dev'[e] = dev[e],
           r.op \notin {"provision", "enable"} => Active' \subseteq Active,
           cred' \in [Keys -> [status : DevStatus, ip : Ips \cup {0}]],
           \A k \in Keys \ {r.old, r.new} : cred'[k] = cred[k],
           r.old \in Keys => cred'[r.old].status # "none" /\ cred'[r.old].ip = cred[r.old].ip,
           r.new \in Keys => cred'[r.new].status # "none" /\ cred'[r.new].ip = r.ip,
           load' \in [Protocols -> 0 .. MaxStarts], \A p \in Protocols : load'[p] <= starts,
           r.dev \in Tame => /\ RowOK(r.dev)'
                             /\ \A k \in Keys : owner[k] = r.dev => peer[k] = Asked(k)'
    PROVE  DevicesInv'
<1> USE DEF DevicesInv
<1>1. Sets(t, NoTx) /\ \A x \in Requests : tx'[x] = IF x = t THEN NoTx ELSE tx[x]
  BY Ended DEF Sets
<1>2. /\ UNCHANGED <<sub, owner, peer, route, sweep, starts, faults, disturbed, contested,
                     relaxed, lapsed>>
      /\ Tame' = Tame
  BY DEF net, history, Tame
<1>3. /\ r.dev \in Devices /\ r \in TxRecords /\ Open(t)
      /\ r.old \in Keys => r.old # r.new
      /\ r.old \in Keys => owner[r.old] = r.dev /\ cred[r.old].status # "none"
      /\ r.new \in Keys => owner[r.new] = r.dev /\ cred[r.new].status = "none"
  BY TxTyped DEF RequestInv, RequestOK, KeyInv, KeyOK, Open
<1>4. \A k \in Keys : owner[k] # r.dev => cred'[k] = cred[k]
  BY <1>3
<1>5. \A k \in Keys : cred[k].status # "none" => cred'[k].status # "none"
  <2> SUFFICES ASSUME NEW k \in Keys, cred[k].status # "none" PROVE cred'[k].status # "none"
    OBVIOUS
  <2>1. k # r.new
    BY <1>3
  <2> QED BY <2>1
<1>6. \A e, s : e # r.dev => KeysOf(e, s)' = KeysOf(e, s)
  BY <1>2, <1>4 DEF KeysOf
<1>7. Typed'
  <2>1. tx' \in [Requests -> TxRecords] /\ \A x \in Requests : tx'[x].load <= starts
    BY <1>1, NoTxRecord DEF Sets, Typed, TypeOK
  <2> QED BY <1>2, <2>1 DEF Typed, TypeOK, TxRecords
<1>8. RequestInv'
  <2>1. RequestOK(NoTx)'
    BY NoTxRecord, KeyAssumption DEF RequestOK
  <2>2. ASSUME NEW x \in Requests, x # t PROVE RequestOK(tx[x])'
    BY <1>1, <1>2, <1>5, <2>2 DEF RequestInv, RequestOK
  <2>3. RequestOK(tx[t])'
    BY <1>1, <2>1 DEF RequestOK
  <2> QED BY <2>2, <2>3 DEF RequestInv
<1>9. KeyInv'
  <2>1. ASSUME NEW x \in Requests, x # t PROVE KeyOK(tx[x])'
    <3>1. tx'[x] = tx[x] /\ KeyOK(tx[x])
      BY <1>1, <2>1 DEF KeyInv
    <3>2. tx[x].new \in Keys => tx[x].new # r.new /\ tx[x].new # r.old
      BY <1>3, <2>1, <3>1 DEF KeyInv, KeyOK
    <3> QED BY <1>2, <3>1, <3>2 DEF KeyOK, Minted
  <2>2. KeyOK(tx[t])'
    BY <1>1, NoTxRecord, KeyAssumption DEF KeyOK, Minted
  <2>3. \A x, y \in Requests : tx'[x].new \in Keys /\ tx'[y].new = tx'[x].new => x = y
    BY <1>1, NoTxRecord, KeyAssumption DEF KeyInv
  <2>4. Fresh' = Fresh /\ \A k \in Fresh : k \in Keys /\ owner[k] # r.dev
    <3>1. r.dev # NoDevice /\ owner' = owner
      BY <1>2, <1>3, DeviceAssumption
    <3> QED BY <3>1 DEF Fresh
  <2>5. \A k \in Fresh' : peer'[k] = "absent" /\ cred'[k].status = "none"
    BY <1>2, <1>4, <2>4 DEF KeyInv
  <2> QED BY <2>1, <2>2, <2>3, <2>5 DEF KeyInv
<1>10. LimitInv'
  <2>1. Active' \subseteq Active \cup {r.dev}
    BY DEF Active
  <2>2. IsFiniteSet(Active) /\ IsFiniteSet(Active')
    <3>1. IsFiniteSet(Active \cup {r.dev})
      BY FS_AddElement DEF LimitInv
    <3>2. Active' \in SUBSET (Active \cup {r.dev})
      BY <2>1
    <3> QED BY <3>1, <3>2, FS_Subset DEF LimitInv
  <2>3. \A T, S : IsFiniteSet(S) /\ T \subseteq S /\ Cardinality(S) <= DeviceLimit =>
                     Cardinality(T) <= DeviceLimit
    BY Fits
  <2>4. ASSUME ~relaxed' PROVE Cardinality(Active') <= DeviceLimit
    <3>1. r.op # "enable" /\ ~relaxed
      BY <1>2, <2>4 DEF LimitInv
    <3>2. CASE r.op = "provision"
      <4>1. Cardinality(Active \cup {r.dev}) <= DeviceLimit /\ IsFiniteSet(Active \cup {r.dev})
        BY <2>2, <3>1, <3>2, FS_AddElement DEF LimitInv
      <4> QED BY <2>1, <2>3, <4>1
    <3>3. CASE r.op # "provision"
      <4>1. Active' \subseteq Active
        BY <3>1, <3>3
      <4>2. Cardinality(Active) <= DeviceLimit
        BY <3>1 DEF LimitInv
      <4> QED BY <2>2, <2>3, <4>1, <4>2
    <3> QED BY <3>2, <3>3
  <2>5. ASSUME ~relaxed', NEW x \in Requests
        PROVE  /\ tx'[x].op # "enable"
               /\ tx'[x].op = "provision" =>
                    /\ Cardinality(Active' \cup {tx'[x].dev}) <= DeviceLimit
                    /\ \A y \in Requests : tx'[y].op = "provision" => y = x
    <3>1. CASE x = t
      BY <1>1, <3>1, NoTxRecord
    <3>2. CASE x # t /\ tx[x].op = "provision"
      <4>1. /\ tx'[x] = tx[x] /\ ~relaxed /\ r.op # "enable"
            /\ Cardinality(Active \cup {tx[x].dev}) <= DeviceLimit
            /\ \A y \in Requests : tx[y].op = "provision" => y = x
        BY <1>1, <1>2, <2>5, <3>2 DEF LimitInv
      <4>2. Active' \cup {tx[x].dev} \subseteq Active \cup {tx[x].dev}
        <5>1. r.op # "provision"
          BY <3>2, <4>1
        <5> QED BY <4>1, <5>1
      <4>3. IsFiniteSet(Active \cup {tx[x].dev})
        BY <2>2, FS_AddElement
      <4>4. Cardinality(Active' \cup {tx[x].dev}) <= DeviceLimit
        BY <2>3, <4>1, <4>2, <4>3
      <4>5. \A y \in Requests : tx'[y].op = "provision" => y = x
        BY <1>1, <4>1, NoTxRecord
      <4> QED BY <3>2, <4>1, <4>4, <4>5
    <3>3. CASE x # t /\ tx[x].op # "provision"
      BY <1>1, <1>2, <2>5, <3>3 DEF LimitInv
    <3> QED BY <3>1, <3>2, <3>3
  <2> QED BY <2>2, <2>4, <2>5 DEF LimitInv
<1>11. RowInv'
  <2>1. ASSUME NEW e \in Tame PROVE RowOK(e)'
    <3>1. CASE e = r.dev
      BY <2>1, <3>1 DEF RowOK, KeysOf
    <3>2. CASE e # r.dev
      <4>1. KeysOf(e, "active")' = KeysOf(e, "active") /\ dev'[e] = dev[e]
        BY <1>6, <3>2 DEF Tame
      <4> QED BY <1>2, <1>4, <3>2, <4>1 DEF RowOK, RowInv
    <3> QED BY <3>1, <3>2
  <2>2. \A e \in Tame : e \in Vless =>
            \A k, l \in Keys : owner'[k] = e /\ owner'[l] = e => k = l
    BY <1>2 DEF RowInv
  <2> QED BY <1>2, <2>1, <2>2 DEF RowInv, RowOK
<1>12. AloneInv'
  <2>1. NoTx.dev \notin Tame
    BY NoTxRecord, DeviceAssumption DEF Tame
  <2>2. \A x, y \in Requests : tx'[x].dev \in Tame' /\ tx'[y].dev = tx'[x].dev => x = y
    BY <1>1, <1>2, <2>1 DEF AloneInv
  <2>3. ASSUME NEW x \in Requests, tx'[x].dev \in Tame' PROVE AloneOK(tx[x])'
    <3>1. x # t /\ tx'[x] = tx[x] /\ tx[x].dev # r.dev /\ AloneOK(tx[x])
      BY <1>1, <1>2, <2>1, <2>3 DEF AloneInv
    <3>2. dev'[tx[x].dev] = dev[tx[x].dev]
      BY <1>2, <2>3, <3>1 DEF Tame
    <3> QED BY <1>2, <1>6, <3>1, <3>2 DEF AloneOK
  <2>4. r.dev \in Tame => r.dev \notin sweep.todo \cup sweep.done
    BY DEF AloneInv, AloneOK
  <2>5. \A e \in Tame \cap (sweep.todo \cup sweep.done) :
            /\ e # r.dev /\ dev'[e] = dev[e] /\ KeysOf(e, "active")' = KeysOf(e, "active")
    BY <1>6, <2>4 DEF Tame
  <2>6. ASSUME NEW k \in sweep'.keys
        PROVE  /\ owner'[k] \in sweep'.done /\ cred'[k].status # "none"
               /\ owner'[k] \in Tame' => cred'[k].status = "active"
    <3>1. k \in Keys /\ k \in sweep.keys
      BY <1>2, <2>6 DEF Typed, TypeOK
    <3>2. /\ owner[k] \in sweep.done /\ cred[k].status # "none"
          /\ owner[k] \in Tame => cred[k].status = "active"
      BY <3>1 DEF AloneInv
    <3>3. owner[k] \in Tame => owner[k] # r.dev
      BY <2>4, <3>2
    <3> QED BY <1>2, <1>4, <1>5, <3>1, <3>2, <3>3
  <2>7. /\ \A e \in Tame' \cap (sweep'.todo \cup sweep'.done) : dev'[e] = "active"
        /\ \A e \in Tame' \cap sweep'.done : KeysOf(e, "active")' \subseteq sweep'.keys
    BY <1>2, <2>5 DEF AloneInv
  <2> QED BY <2>2, <2>3, <2>6, <2>7 DEF AloneInv
<1>13. PeerInv'
  <2>1. ASSUME NEW x \in Requests, tx'[x].dev \in Tame' PROVE PeerOK(tx[x])'
    <3>1. x # t /\ tx'[x] = tx[x] /\ PeerOK(tx[x])
      BY <1>1, <1>2, <2>1, NoTxRecord, DeviceAssumption DEF PeerInv, Tame
    <3> QED BY <1>2, <3>1 DEF PeerOK, Created, Called, Minted, Done, Paused
  <2>2. ASSUME NEW k \in Keys, owner'[k] \in Tame', Quiet(k)' PROVE peer'[k] = Asked(k)'
    <3>1. CASE owner[k] = r.dev
      BY <1>2, <2>2, <3>1
    <3>2. CASE owner[k] # r.dev
      <4>1. tx[t].new # k /\ tx[t].old # k
        BY <1>3, <3>2
      <4>2. Quiet(k)
        BY <1>1, <1>2, <2>2, <4>1 DEF Quiet, Minted, Called
      <4>3. owner[k] \in Devices
        BY <1>2, <2>2 DEF Tame
      <4>4. Asked(k)' = Asked(k)
        BY <1>2, <1>4, <3>2, <4>3 DEF Asked, Paused
      <4> QED BY <1>2, <2>2, <4>2, <4>4 DEF PeerInv
    <3> QED BY <3>1, <3>2
  <2>3. \A k \in sweep'.keys : owner'[k] \in Tame' => peer'[k] = Paused(owner'[k])
    BY <1>2 DEF PeerInv
  <2> QED BY <2>1, <2>2, <2>3 DEF PeerInv, Paused
<1>14. RouteInv'
  <2>1. ASSUME NEW k \in Keys, NEW i \in Ips, Holds(k, i)' PROVE Holds(k, i)
    <3>1. CASE \E x \in Requests : tx'[x].new = k /\ tx'[x].ip = i /\ Created(tx[x])'
      <4>1. PICK x \in Requests : tx'[x].new = k /\ tx'[x].ip = i /\ Created(tx[x])'
        BY <3>1
      <4>2. x # t
        BY <1>1, <4>1, NoTxRecord DEF Created, Minted
      <4> QED BY <1>1, <4>1, <4>2 DEF Holds, Created, Minted
    <3>2. CASE cred'[k].status # "none" /\ cred'[k].ip = i
      <4>1. CASE k = r.new
        <5>1. Created(tx[t])
          BY <4>1 DEF KeyInv, KeyOK, Created, Minted
        <5> QED BY <3>2, <4>1, <5>1 DEF Holds
      <4>2. CASE k # r.new
        BY <1>3, <3>2, <4>2 DEF Holds
      <4> QED BY <4>1, <4>2
    <3> QED BY <2>1, <3>1, <3>2 DEF Holds, Created, Minted
  <2> QED BY <1>2, <2>1, RouteKept
<1>15. LapsedInv'
  BY <1>2, <1>3, LapsedKept
<1>16. NoOrphanWithoutFailure'
  <2> SUFFICES ASSUME faults' = 0, NEW k \in Keys, peer'[k] # "absent"
               PROVE  cred'[k].status # "none" \/ \E x \in Requests : tx'[x].new = k
    BY DEF NoOrphanWithoutFailure
  <2>1. cred[k].status # "none" \/ \E x \in Requests : tx[x].new = k
    BY <1>2 DEF NoOrphanWithoutFailure
  <2> QED BY <1>1, <1>5, <2>1
<1> QED BY <1>7, <1>8, <1>9, <1>10, <1>11, <1>12, <1>13, <1>14, <1>15, <1>16

(* What a request that was alone knows when it commits. *)
LEMMA Known ==
    ASSUME DevicesInv, NEW t \in Requests, NEW r, r = tx[t], r.pc = "commit"
    PROVE  /\ r \in TxRecords /\ r.dev \in Devices /\ r.op \in Ops
           /\ r.old \in Keys => r.old # r.new /\ owner[r.old] = r.dev
           /\ r.op \in {"provision", "reissue"} => r.new \in Keys /\ owner[r.new] = r.dev
           /\ r.op \notin {"provision", "reissue"} => r.new \notin Keys
           /\ r.op = "reissue" => r.dev \notin Vless
           /\ r.op = "provision" => r.old = NoKey
           /\ r.dev \in Tame =>
                /\ AloneOK(r)
                /\ r.op \in {"provision", "reissue"} => peer[r.new] = "on"
                /\ r.old \in Keys => peer[r.old] = Done(r)
                /\ \A k \in Keys : owner[k] = r.dev /\ k # r.old /\ k # r.new => peer[k] = Asked(k)
<1> USE DEF DevicesInv
<1>1. /\ r \in TxRecords /\ RequestOK(r) /\ KeyOK(r)
      /\ Minted(r) <=> r.op \in {"provision", "reissue"}
  BY TxTyped DEF RequestInv, KeyInv, Minted
<1>2. ASSUME r.dev \in Tame
      PROVE  /\ AloneOK(r)
             /\ r.op \in {"provision", "reissue"} => peer[r.new] = "on"
             /\ r.old \in Keys => peer[r.old] = Done(r)
  BY <1>1, <1>2 DEF AloneInv, PeerInv, PeerOK, Created, Called
<1>3. ASSUME r.dev \in Tame, NEW k \in Keys, owner[k] = r.dev, k # r.old, k # r.new
      PROVE  peer[k] = Asked(k)
  <2>1. k \notin sweep.keys
    BY <1>2, <1>3 DEF AloneInv, AloneOK
  <2>2. ASSUME NEW x \in Requests, Minted(tx[x]), tx[x].new = k PROVE FALSE
    <3>1. tx[x].dev = r.dev
      BY <1>3, <2>2 DEF KeyInv, KeyOK
    <3> QED BY <1>3, <2>2, <3>1 DEF AloneInv
  <2>3. ASSUME NEW x \in Requests, Called(tx[x]), tx[x].old = k PROVE FALSE
    <3>1. tx[x].dev = r.dev
      BY <1>3, <2>3 DEF RequestInv, RequestOK
    <3> QED BY <1>3, <2>3, <3>1 DEF AloneInv
  <2>4. Quiet(k)
    BY <2>1, <2>2, <2>3 DEF Quiet
  <2> QED BY <1>3, <2>4 DEF PeerInv
<1>4. r.old \in Keys => r.old # r.new /\ owner[r.old] = r.dev
  BY <1>1 DEF RequestOK, KeyOK
<1> QED BY <1>1, <1>2, <1>3, <1>4 DEF RequestOK, KeyOK

(* The frame of a commit, and the rows' types. *)
CommitFrame(t) ==
    /\ tx[t].pc = "commit" /\ tx' = [tx EXCEPT ![t] = NoTx]
    /\ UNCHANGED <<sub, owner, net, sweep, starts, faults, history>>

RowsTyped == /\ dev \in [Devices -> DevStatus]
             /\ cred \in [Keys -> [status : DevStatus, ip : Ips \cup {0}]]
             /\ load \in [Protocols -> 0 .. MaxStarts]
             /\ \A p \in Protocols : load[p] <= starts

LEMMA RowsAreTyped == ASSUME Typed PROVE RowsTyped
  BY DEF Typed, TypeOK, RowsTyped

LEMMA Marked ==
    ASSUME RowsTyped, NEW k \in Keys \cup {NoKey}, NEW s \in {"active", "disabled", "revoked"}
    PROVE  LET c == Mark(k, s) IN
           /\ c \in [Keys -> [status : DevStatus, ip : Ips \cup {0}]]
           /\ \A l \in Keys \ {k} : c[l] = cred[l]
           /\ k \in Keys => c[k].status = s /\ c[k].ip = cred[k].ip
  BY KeyAssumption DEF RowsTyped, Mark, DevStatus

LEMMA StatusSet ==
    ASSUME RowsTyped, NEW r \in TxRecords, r.dev \in Devices,
           NEW s \in {"active", "disabled", "revoked"}
    PROVE  LET f == SetStatus(r, s) IN
           /\ f \in [Devices -> DevStatus]
           /\ \A e \in Devices \ {r.dev} : f[e] = dev[e]
           /\ f[r.dev] \in {dev[r.dev], s}
           /\ dev[r.dev] = r.seen => f[r.dev] = s
  BY DEF RowsTyped, SetStatus, DevStatus

LEMMA LoadSet ==
    ASSUME Typed, NEW t \in Requests
    PROVE  LET n == [load EXCEPT ![Protocol(tx[t].dev)] = tx[t].load] IN
           n \in [Protocols -> 0 .. MaxStarts] /\ \A p \in Protocols : n[p] <= starts
<1>1. tx[t].load \in 0 .. MaxStarts /\ tx[t].load <= starts
  BY TxTyped DEF Typed, TxRecords
<1>2. RowsTyped
  BY RowsAreTyped
<1> QED BY <1>1, <1>2 DEF RowsTyped

LEMMA CommitProvisionStep ==
    ASSUME DevicesInv, NEW t \in Requests, NEW r, r = tx[t], r.op = "provision",
           CommitFrame(t), CommitProvision(r)
    PROVE  DevicesInv'
<1> USE DEF DevicesInv
<1>1. /\ r.pc = "commit" /\ r \in TxRecords /\ r.dev \in Devices /\ r.old \notin Keys
      /\ r.new \in Keys /\ owner[r.new] = r.dev /\ RowsTyped /\ owner' = owner
  BY Known, KeyAssumption, RowsAreTyped DEF CommitFrame
<1>2. /\ dev' \in [Devices -> DevStatus] /\ dev'[r.dev] = "active"
      /\ \A e \in Devices \ {r.dev} : dev'[e] = dev[e]
  BY <1>1 DEF CommitProvision, RowsTyped, DevStatus
<1>3. /\ cred' \in [Keys -> [status : DevStatus, ip : Ips \cup {0}]]
      /\ \A k \in Keys \ {r.new} : cred'[k] = cred[k]
      /\ cred'[r.new].status = "active" /\ cred'[r.new].ip = r.ip
  BY <1>1 DEF CommitProvision, WithNew, RowsTyped, DevStatus, TxRecords
<1>4. load' \in [Protocols -> 0 .. MaxStarts] /\ \A p \in Protocols : load'[p] <= starts
  BY LoadSet DEF CommitProvision
<1>5. ASSUME r.dev \in Tame
      PROVE  RowOK(r.dev)' /\ \A k \in Keys : owner[k] = r.dev => peer[k] = Asked(k)'
  <2>1. /\ \A k \in Keys : owner[k] = r.dev => cred[k].status = "none"
        /\ peer[r.new] = "on" /\ dev[r.dev] = "none"
        /\ \A k \in Keys : owner[k] = r.dev /\ k # r.new => peer[k] = Asked(k)
    BY <1>1, <1>5, Known DEF AloneOK, RowInv
  <2>2. \A k \in KeysOf(r.dev, "active")' : k = r.new
    BY <1>1, <1>3, <2>1 DEF KeysOf
  <2>3. RowOK(r.dev)'
    BY <1>2, <2>2 DEF RowOK
  <2>4. ASSUME NEW k \in Keys, owner[k] = r.dev PROVE peer[k] = Asked(k)'
    BY <1>1, <1>2, <1>3, <2>1, <2>4 DEF Asked
  <2> QED BY <2>3, <2>4
<1>6. /\ \A k \in Keys \ {r.old, r.new} : cred'[k] = cred[k]
      /\ r.old \in Keys => cred'[r.old].status # "none" /\ cred'[r.old].ip = cred[r.old].ip
      /\ r.new \in Keys => cred'[r.new].status # "none" /\ cred'[r.new].ip = r.ip
      /\ r.op \notin {"provision", "enable"} => Active' \subseteq Active
  BY <1>1, <1>3
<1> HIDE DEF DevicesInv
<1> QED BY <1>1, <1>2, <1>3, <1>4, <1>5, <1>6, CommitStep DEF CommitFrame

LEMMA CommitReissueStep ==
    ASSUME DevicesInv, NEW t \in Requests, NEW r, r = tx[t], r.op = "reissue",
           CommitFrame(t), CommitReissue(r)
    PROVE  DevicesInv'
<1> USE DEF DevicesInv
<1>1. /\ r.pc = "commit" /\ r \in TxRecords /\ r.dev \in Devices /\ r.new \in Keys
      /\ r.old \in Keys => r.old # r.new /\ owner[r.old] = r.dev
      /\ owner[r.new] = r.dev /\ RowsTyped /\ owner' = owner /\ dev' = dev /\ load' = load
      /\ r.old \in Keys \cup {NoKey}
  BY Known, RowsAreTyped DEF CommitFrame, CommitReissue, TxRecords
<1>2. PICK c : c = Mark(r.old, "revoked")
  OBVIOUS
<1>3. /\ c \in [Keys -> [status : DevStatus, ip : Ips \cup {0}]]
      /\ \A l \in Keys \ {r.old} : c[l] = cred[l]
      /\ r.old \in Keys => c[r.old].status = "revoked" /\ c[r.old].ip = cred[r.old].ip
  BY <1>1, <1>2, Marked
<1>4. /\ cred' \in [Keys -> [status : DevStatus, ip : Ips \cup {0}]]
      /\ \A k \in Keys \ {r.new} : cred'[k] = c[k]
      /\ cred'[r.new].status = "active" /\ cred'[r.new].ip = r.ip
  BY <1>1, <1>2, <1>3 DEF CommitReissue, WithNew, DevStatus, TxRecords
<1>5. /\ \A k \in Keys \ {r.old, r.new} : cred'[k] = cred[k]
      /\ r.old \in Keys => cred'[r.old].status = "revoked" /\ cred'[r.old].ip = cred[r.old].ip
  BY <1>1, <1>3, <1>4
<1>6. ASSUME r.dev \in Tame
      PROVE  RowOK(r.dev)' /\ \A k \in Keys : owner[k] = r.dev => peer[k] = Asked(k)'
  <2>1. /\ dev[r.dev] = "active" /\ KeysOf(r.dev, "active") = {r.old} \cap Keys
        /\ peer[r.new] = "on"
        /\ r.old \in Keys => peer[r.old] = Done(r)
        /\ \A k \in Keys : owner[k] = r.dev /\ k # r.old /\ k # r.new => peer[k] = Asked(k)
    BY <1>1, <1>6, Known DEF AloneOK
  <2>2. \A k \in Keys : owner[k] = r.dev /\ k # r.old => cred[k].status # "active"
    BY <2>1 DEF KeysOf
  <2>3. \A k \in KeysOf(r.dev, "active")' : k = r.new
    BY <1>1, <1>4, <1>5, <2>2 DEF KeysOf
  <2>4. RowOK(r.dev)'
    BY <1>1, <2>1, <2>3 DEF RowOK
  <2>5. ASSUME NEW k \in Keys, owner[k] = r.dev PROVE peer[k] = Asked(k)'
    <3>1. CASE k = r.new
      BY <1>1, <1>4, <2>1, <2>5, <3>1 DEF Asked
    <3>2. CASE k = r.old
      BY <1>1, <1>5, <2>1, <2>5, <3>2 DEF Asked, Done
    <3>3. CASE k # r.old /\ k # r.new
      BY <1>5, <2>1, <2>2, <2>5, <3>3 DEF Asked
    <3> QED BY <3>1, <3>2, <3>3
  <2> QED BY <2>4, <2>5
<1>7. /\ dev' \in [Devices -> DevStatus] /\ Active' = Active
      /\ load' \in [Protocols -> 0 .. MaxStarts] /\ \A p \in Protocols : load'[p] <= starts
  BY <1>1 DEF RowsTyped, Active
<1> QED BY <1>1, <1>4, <1>5, <1>6, <1>7, CommitStep DEF CommitFrame

(* disable, enable and revoke: a status for the device, and one for the    *)
(* credential or none.                                                     *)
LEMMA CommitChange ==
    ASSUME DevicesInv, NEW t \in Requests, NEW r, r = tx[t], CommitFrame(t),
           r.op \in {"disable", "enable", "revoke"},
           NEW s \in {"active", "disabled", "revoked"}, r.op # "enable" => s # "active",
           dev' = SetStatus(r, s), cred' = cred \/ cred' = Mark(r.old, s),
           load' \in [Protocols -> 0 .. MaxStarts], \A p \in Protocols : load'[p] <= starts,
           r.dev \in Tame => /\ RowOK(r.dev)'
                             /\ \A k \in Keys : owner[k] = r.dev => peer[k] = Asked(k)'
    PROVE  DevicesInv'
<1>1. /\ r.pc = "commit" /\ r \in TxRecords /\ r.dev \in Devices /\ r.new \notin Keys
      /\ r.old \in Keys \cup {NoKey} /\ RowsTyped
  BY Known, RowsAreTyped DEF CommitFrame, TxRecords, DevicesInv
<1>2. /\ dev' \in [Devices -> DevStatus] /\ dev'[r.dev] \in {dev[r.dev], s}
      /\ \A e \in Devices \ {r.dev} : dev'[e] = dev[e]
  BY <1>1, StatusSet
<1>3. r.op \notin {"provision", "enable"} => Active' \subseteq Active
  BY <1>2 DEF Active
<1>4. r.old \in Keys => cred[r.old].status # "none"
  BY DEF DevicesInv, RequestInv, RequestOK
<1>5. /\ cred' \in [Keys -> [status : DevStatus, ip : Ips \cup {0}]]
      /\ \A k \in Keys \ {r.old} : cred'[k] = cred[k]
      /\ r.old \in Keys => cred'[r.old].status # "none" /\ cred'[r.old].ip = cred[r.old].ip
  <2>1. CASE cred' = cred
    BY <1>1, <1>4, <2>1 DEF RowsTyped
  <2>2. CASE cred' = Mark(r.old, s)
    BY <1>1, <2>2, Marked
  <2> QED BY <2>1, <2>2
<1>6. /\ \A k \in Keys \ {r.old, r.new} : cred'[k] = cred[k]
      /\ r.new \in Keys => cred'[r.new].status # "none" /\ cred'[r.new].ip = r.ip
  BY <1>1, <1>5
<1>7. /\ tx' = [tx EXCEPT ![t] = NoTx]
      /\ UNCHANGED <<sub, owner, net, sweep, starts, faults, history>>
  BY DEF CommitFrame
<1> QED BY <1>1, <1>2, <1>3, <1>5, <1>6, <1>7, CommitStep

(* Where the device was alone. *)
LEMMA ChangeKnown ==
    ASSUME DevicesInv, NEW t \in Requests, NEW r, r = tx[t], CommitFrame(t),
           r.op \in {"disable", "enable", "revoke"}, r.dev \in Tame,
           NEW s \in {"active", "disabled", "revoked"}, dev' = SetStatus(r, s)
    PROVE  /\ r.dev \in Devices /\ owner' = owner /\ dev'[r.dev] = s
           /\ r.old \in Keys => owner[r.old] = r.dev /\ peer[r.old] = Done(r)
           /\ r.old \in Keys \cup {NoKey} /\ RowsTyped
           /\ KeysOf(r.dev, IF r.op = "enable" /\ r.dev \in Vless THEN "disabled" ELSE "active")
                  = {r.old} \cap Keys
           /\ \A k \in Keys : owner[k] = r.dev /\ k # r.old => peer[k] = Asked(k)
<1>1. /\ r.pc = "commit" /\ r \in TxRecords /\ r.dev \in Devices /\ r.new \notin Keys
      /\ AloneOK(r) /\ RowsTyped /\ owner' = owner
      /\ r.old \in Keys => owner[r.old] = r.dev /\ peer[r.old] = Done(r)
      /\ \A k \in Keys : owner[k] = r.dev /\ k # r.old /\ k # r.new => peer[k] = Asked(k)
  BY Known, RowsAreTyped DEF CommitFrame, DevicesInv
<1>2. dev'[r.dev] = s
  BY <1>1, StatusSet DEF AloneOK
<1>3. r.old \in Keys \cup {NoKey}
  BY <1>1 DEF TxRecords
<1> QED BY <1>1, <1>2, <1>3 DEF AloneOK

LEMMA CommitDisableStep ==
    ASSUME DevicesInv, NEW t \in Requests, NEW r, r = tx[t], r.op = "disable",
           CommitFrame(t), CommitDisable(r)
    PROVE  DevicesInv'
<1>1. /\ dev' = SetStatus(r, "disabled")
      /\ cred' = IF r.dev \in Vless THEN Mark(r.old, "disabled") ELSE cred
      /\ load' = load /\ RowsTyped
  BY RowsAreTyped DEF CommitDisable, DevicesInv
<1>2. ASSUME r.dev \in Tame
      PROVE  RowOK(r.dev)' /\ \A k \in Keys : owner[k] = r.dev => peer[k] = Asked(k)'
  <2>1. /\ r.dev \in Devices /\ owner' = owner /\ dev'[r.dev] = "disabled"
        /\ r.old \in Keys => owner[r.old] = r.dev /\ peer[r.old] = Paused(r.dev)
        /\ r.old \in Keys \cup {NoKey}
        /\ KeysOf(r.dev, "active") = {r.old} \cap Keys
        /\ \A k \in Keys : owner[k] = r.dev /\ k # r.old => peer[k] = Asked(k)
    BY <1>1, <1>2, ChangeKnown DEF Done
  <2>2. /\ \A k \in Keys \ {r.old} : cred'[k] = cred[k]
        /\ r.old \in Keys => cred'[r.old].status = IF r.dev \in Vless THEN "disabled"
                                                   ELSE cred[r.old].status
    BY <1>1, <2>1, Marked
  <2>3. /\ \A k \in Keys : owner[k] = r.dev /\ k # r.old => cred[k].status # "active"
        /\ r.old \in Keys => cred[r.old].status = "active"
    BY <2>1 DEF KeysOf
  <2>4. \A k \in KeysOf(r.dev, "active")' : k = r.old /\ r.dev \notin Vless
    BY <2>1, <2>2, <2>3 DEF KeysOf
  <2>5. RowOK(r.dev)'
    BY <2>1, <2>4 DEF RowOK
  <2>6. ASSUME NEW k \in Keys, owner[k] = r.dev PROVE peer[k] = Asked(k)'
    <3>1. CASE k = r.old
      BY <2>1, <2>2, <2>3, <2>6, <3>1 DEF Asked, Paused
    <3>2. CASE k # r.old
      BY <2>1, <2>2, <2>3, <2>6, <3>2 DEF Asked
    <3> QED BY <3>1, <3>2
  <2> QED BY <2>5, <2>6
<1>3. load' \in [Protocols -> 0 .. MaxStarts] /\ \A p \in Protocols : load'[p] <= starts
  BY <1>1 DEF RowsTyped
<1> QED BY <1>1, <1>2, <1>3, CommitChange

LEMMA CommitEnableStep ==
    ASSUME DevicesInv, NEW t \in Requests, NEW r, r = tx[t], r.op = "enable",
           CommitFrame(t), CommitEnable(r)
    PROVE  DevicesInv'
<1>1. /\ dev' = SetStatus(r, "active")
      /\ cred' = IF r.dev \in Vless THEN Mark(r.old, "active") ELSE cred
      /\ load' = load /\ RowsTyped
  BY RowsAreTyped DEF CommitEnable, DevicesInv
<1>2. ASSUME r.dev \in Tame
      PROVE  RowOK(r.dev)' /\ \A k \in Keys : owner[k] = r.dev => peer[k] = Asked(k)'
  <2>1. /\ r.dev \in Devices /\ owner' = owner /\ dev'[r.dev] = "active"
        /\ r.old \in Keys => owner[r.old] = r.dev /\ peer[r.old] = "on"
        /\ r.old \in Keys \cup {NoKey}
        /\ KeysOf(r.dev, IF r.dev \in Vless THEN "disabled" ELSE "active") = {r.old} \cap Keys
        /\ \A k \in Keys : owner[k] = r.dev /\ k # r.old => peer[k] = Asked(k)
    BY <1>1, <1>2, ChangeKnown DEF Done
  <2>2. /\ \A k \in Keys \ {r.old} : cred'[k] = cred[k]
        /\ r.old \in Keys => cred'[r.old].status = IF r.dev \in Vless THEN "active"
                                                   ELSE cred[r.old].status
    BY <1>1, <2>1, Marked
  <2>3. r.old \in Keys => cred'[r.old].status = "active"
    BY <2>1, <2>2 DEF KeysOf
  <2>4. r.dev \notin Vless =>
            \A k \in Keys : owner[k] = r.dev /\ k # r.old => cred[k].status # "active"
    BY <2>1 DEF KeysOf
  <2>5. /\ r.dev \in Vless => \A k, l \in Keys : owner[k] = r.dev /\ owner[l] = r.dev => k = l
        /\ r.dev \in Vless /\ KeysOf(r.dev, "active") # {} => dev[r.dev] = "active"
    BY <1>2 DEF DevicesInv, RowInv
  <2>6. \A k, l \in KeysOf(r.dev, "active")' : k = l
    <3>1. CASE r.dev \in Vless
      BY <2>1, <2>5, <3>1 DEF KeysOf
    <3>2. CASE r.dev \notin Vless
      BY <2>1, <2>2, <2>4, <3>2 DEF KeysOf
    <3> QED BY <3>1, <3>2
  <2>7. RowOK(r.dev)'
    BY <2>1, <2>6 DEF RowOK
  <2>8. ASSUME NEW k \in Keys, owner[k] = r.dev PROVE peer[k] = Asked(k)'
    <3>1. CASE k = r.old
      BY <2>1, <2>3, <2>8, <3>1 DEF Asked
    <3>2. CASE k # r.old /\ cred[k].status # "active"
      BY <2>1, <2>2, <2>8, <3>2 DEF Asked
    <3>3. CASE k # r.old /\ cred[k].status = "active"
      <4>1. r.dev \in Vless /\ k \in KeysOf(r.dev, "active")
        BY <2>4, <2>8, <3>3 DEF KeysOf
      <4>2. dev[r.dev] = "active"
        BY <2>5, <4>1
      <4> QED BY <2>1, <2>2, <2>8, <3>3, <4>2 DEF Asked
    <3> QED BY <3>1, <3>2, <3>3
  <2> QED BY <2>7, <2>8
<1>3. load' \in [Protocols -> 0 .. MaxStarts] /\ \A p \in Protocols : load'[p] <= starts
  BY <1>1 DEF RowsTyped
<1> QED BY <1>1, <1>2, <1>3, CommitChange

LEMMA CommitRevokeStep ==
    ASSUME DevicesInv, NEW t \in Requests, NEW r, r = tx[t], r.op = "revoke",
           CommitFrame(t), CommitRevoke(r)
    PROVE  DevicesInv'
<1>1. /\ dev' = SetStatus(r, "revoked") /\ cred' = Mark(r.old, "revoked") /\ RowsTyped
      /\ load' = IF r.old = NoKey THEN load ELSE [load EXCEPT ![Protocol(r.dev)] = r.load]
  BY RowsAreTyped DEF CommitRevoke, DevicesInv
<1>2. ASSUME r.dev \in Tame
      PROVE  RowOK(r.dev)' /\ \A k \in Keys : owner[k] = r.dev => peer[k] = Asked(k)'
  <2>1. /\ r.dev \in Devices /\ owner' = owner /\ dev'[r.dev] = "revoked"
        /\ r.old \in Keys => owner[r.old] = r.dev /\ peer[r.old] = "absent"
        /\ r.old \in Keys \cup {NoKey}
        /\ KeysOf(r.dev, "active") = {r.old} \cap Keys
        /\ \A k \in Keys : owner[k] = r.dev /\ k # r.old => peer[k] = Asked(k)
    BY <1>1, <1>2, ChangeKnown DEF Done
  <2>2. /\ \A k \in Keys \ {r.old} : cred'[k] = cred[k]
        /\ r.old \in Keys => cred'[r.old].status = "revoked"
    BY <1>1, <2>1, Marked
  <2>3. \A k \in Keys : owner[k] = r.dev /\ k # r.old => cred[k].status # "active"
    BY <2>1 DEF KeysOf
  <2>4. KeysOf(r.dev, "active")' = {}
    BY <2>1, <2>2, <2>3 DEF KeysOf
  <2>5. RowOK(r.dev)'
    BY <2>1, <2>4 DEF RowOK
  <2>6. ASSUME NEW k \in Keys, owner[k] = r.dev PROVE peer[k] = Asked(k)'
    BY <2>1, <2>2, <2>3, <2>6 DEF Asked
  <2> QED BY <2>5, <2>6
<1>3. load' \in [Protocols -> 0 .. MaxStarts] /\ \A p \in Protocols : load'[p] <= starts
  <2>1. CASE r.old = NoKey
    BY <1>1, <2>1 DEF RowsTyped
  <2>2. CASE r.old # NoKey
    BY <1>1, <2>2, LoadSet DEF DevicesInv
  <2> QED BY <2>1, <2>2
<1> QED BY <1>1, <1>2, <1>3, CommitChange

LEMMA CommitAnyStep ==
    ASSUME DevicesInv, NEW t \in Requests, Commit(t)
    PROVE  DevicesInv'
<1>1. PICK r : r = tx[t]
  OBVIOUS
<1>2. /\ CommitFrame(t)
      /\ \/ r.op = "provision" /\ CommitProvision(r)
         \/ r.op = "reissue" /\ CommitReissue(r)
         \/ r.op = "disable" /\ CommitDisable(r)
         \/ r.op = "enable" /\ CommitEnable(r)
         \/ r.op = "revoke" /\ CommitRevoke(r)
  BY <1>1 DEF Commit, CommitFrame
<1> QED BY <1>1, <1>2, CommitProvisionStep, CommitReissueStep, CommitDisableStep,
           CommitEnableStep, CommitRevokeStep

-----------------------------------------------------------------------------
(* The sweep and the renewal: no request moves. *)

LEMMA Untouched ==
    ASSUME DevicesInv, UNCHANGED <<owner, tx>>,
           \A k \in Keys : cred'[k].status = "none" <=> cred[k].status = "none"
    PROVE  /\ RequestInv'
           /\ (\A k \in Fresh : peer'[k] = "absent") => KeyInv'
<1>1. RequestInv'
  <2>1. ASSUME NEW x \in Requests PROVE RequestOK(tx[x])'
    BY DEF DevicesInv, RequestInv, RequestOK
  <2> QED BY <2>1 DEF RequestInv
<1>2. ASSUME \A k \in Fresh : peer'[k] = "absent" PROVE KeyInv'
  <2>1. ASSUME NEW x \in Requests PROVE KeyOK(tx[x])'
    BY DEF DevicesInv, KeyInv, KeyOK, Minted
  <2>2. Fresh' = Fresh
    BY DEF Fresh
  <2>3. \A k \in Fresh : k \in Keys /\ cred'[k].status = "none"
    BY DEF DevicesInv, KeyInv, Fresh
  <2> QED BY <1>2, <2>1, <2>2, <2>3 DEF DevicesInv, KeyInv
<1> QED BY <1>1, <1>2

LEMMA SweepStartStep ==
    ASSUME DevicesInv, SweepStart
    PROVE  DevicesInv'
<1> USE DEF DevicesInv
<1>1. /\ sweep.pc = "idle" /\ sub = "active" /\ starts < MaxStarts /\ starts' = starts + 1
      /\ sweep'.pc = "disable" /\ sweep'.todo = Active /\ sweep'.done = {} /\ sweep'.keys = {}
      /\ sweep'.alone = \A t \in Requests : ~Open(t)
      /\ disturbed' = disturbed \cup {d \in Active : On(d) # {}}
      /\ UNCHANGED <<sub, dev, cred, load, owner, peer, route, tx, faults, contested, relaxed,
                     lapsed>>
  BY DEF SweepStart, rows, net
<1>2. sweep.keys = {} /\ Active \subseteq Devices /\ Tame' \subseteq Tame
      /\ \A d \in Tame' \cap Active : On(d) = {}
  BY <1>1 DEF Typed, Active, Tame
<1>3. Typed'
  <2>1. starts' \in 0 .. MaxStarts /\ starts' >= starts /\ starts \in Nat
    BY <1>1, NumberAssumption DEF Typed, TypeOK
  <2>2. \A x \in Requests : tx'[x].load <= starts'
    <3>1. \A x \in Requests : tx[x].load \in Nat /\ tx[x].load <= starts
      BY TxTyped, NumberAssumption DEF Typed, TxRecords
    <3> QED BY <1>1, <2>1, <3>1
  <2>3. \A p \in Protocols : load'[p] <= starts'
    <3>1. \A p \in Protocols : load[p] \in Nat /\ load[p] <= starts
      BY NumberAssumption DEF Typed, TypeOK
    <3> QED BY <1>1, <2>1, <3>1
  <2>4. sweep' \in [pc : {"idle", "disable"}, todo : SUBSET Devices, done : SUBSET Devices,
                    keys : SUBSET Keys, alone : BOOLEAN]
    <3>1. (\A t \in Requests : ~Open(t)) \in BOOLEAN
      OBVIOUS
    <3>2. sweep' = [pc |-> "disable", todo |-> Active, done |-> {}, keys |-> {},
                    alone |-> \A t \in Requests : ~Open(t)]
      BY DEF SweepStart
    <3> QED BY <1>2, <3>1, <3>2
  <2>5. disturbed' \in SUBSET Devices
    BY <1>1, <1>2 DEF Typed, TypeOK
  <2> QED BY <1>1, <2>1, <2>2, <2>3, <2>4, <2>5 DEF Typed, TypeOK
<1>4. RequestInv' /\ KeyInv'
  <2>1. \A k \in Fresh : peer'[k] = "absent"
    BY <1>1 DEF KeyInv
  <2> QED BY <1>1, <2>1, Untouched
<1>5. LimitInv' /\ RowInv'
  BY <1>1, LimitKept, RowsKept DEF GoesOn
<1>6. AloneInv'
  <2>1. \A e, s : KeysOf(e, s)' = KeysOf(e, s)
    BY <1>1 DEF KeysOf
  <2>2. ASSUME NEW x \in Requests, tx[x].dev \in Tame' PROVE AloneOK(tx[x])'
    <3>1. AloneOK(tx[x]) /\ tx[x].dev \notin Active
      BY <1>2, <2>2 DEF AloneInv, On
    <3> QED BY <1>1, <2>1, <3>1 DEF AloneOK
  <2>3. \A x, y \in Requests : tx[x].dev \in Tame' /\ tx[y].dev = tx[x].dev => x = y
    BY <1>2 DEF AloneInv
  <2>4. \A e \in Active : dev[e] = "active"
    BY DEF Active
  <2> QED BY <1>1, <2>2, <2>3, <2>4 DEF AloneInv
<1>7. PeerInv'
  <2>1. ASSUME NEW x \in Requests, tx[x].dev \in Tame' PROVE PeerOK(tx[x])'
    <3>1. PeerOK(tx[x])
      BY <1>2, <2>1 DEF PeerInv
    <3> QED BY <1>1, <3>1 DEF PeerOK, Created, Called, Minted, Done, Paused
  <2>2. ASSUME NEW k \in Keys, owner[k] \in Tame', Quiet(k)' PROVE peer[k] = Asked(k)'
    <3>1. Quiet(k)
      BY <1>1, <1>2, <2>2 DEF Quiet, Called, Minted
    <3> QED BY <1>1, <1>2, <2>2, <3>1 DEF PeerInv, Asked, Paused
  <2> QED BY <1>1, <2>1, <2>2 DEF PeerInv, Paused
<1>8. RouteInv'
  <2>1. \A k \in Keys, i \in Ips : Holds(k, i)' => Holds(k, i)
    BY <1>1 DEF Holds, Created, Minted
  <2> QED BY <1>1, <2>1, RouteKept
<1>9. LapsedInv'
  <2>1. ~lapsed
    BY <1>1 DEF LapsedInv
  <2>2. sweep'.alone => \A t \in Requests : ~Open(t)'
    BY <1>1 DEF Open
  <2> QED BY <1>1, <2>1, <2>2 DEF LapsedInv, Active
<1>10. NoOrphanWithoutFailure'
  BY <1>1 DEF NoOrphanWithoutFailure
<1> QED BY <1>3, <1>4, <1>5, <1>6, <1>7, <1>8, <1>9, <1>10

LEMMA SweepDisableStep ==
    ASSUME DevicesInv, NEW d \in Devices, SweepDisable(d)
    PROVE  DevicesInv'
<1> USE DEF DevicesInv
<1>1. PICK k \in Subject(d, "disable") :
          /\ sweep.pc = "disable" /\ d \in sweep.todo
          /\ \/ k = NoKey /\ UNCHANGED net
             \/ k # NoKey /\ Take(k, Paused(d))
          /\ sweep' = [sweep EXCEPT !.todo = sweep.todo \ {d}, !.done = sweep.done \cup {d},
                                    !.keys = sweep.keys \cup ({k} \cap Keys)]
          /\ UNCHANGED <<sub, dev, cred, load, owner, tx, starts, faults, disturbed, contested,
                         relaxed, lapsed>>
  BY DEF SweepDisable, rows, history
<1>2. /\ k = NoKey \/ (k \in Keys /\ owner[k] = d /\ cred[k].status = "active")
      /\ d \in Tame => KeysOf(d, "active") = {k} \cap Keys
  BY SubjectFacts
<1>3. /\ sweep'.pc = "disable" /\ sweep'.todo = sweep.todo \ {d}
      /\ sweep'.done = sweep.done \cup {d} /\ sweep'.keys = sweep.keys \cup ({k} \cap Keys)
      /\ sweep'.alone = sweep.alone
      /\ sweep' \in [pc : {"idle", "disable"}, todo : SUBSET Devices, done : SUBSET Devices,
                     keys : SUBSET Keys, alone : BOOLEAN]
      /\ sweep'.todo \cup sweep'.done = sweep.todo \cup sweep.done
  <2>1. sweep \in [pc : {"idle", "disable"}, todo : SUBSET Devices, done : SUBSET Devices,
                   keys : SUBSET Keys, alone : BOOLEAN]
    BY DEF Typed, TypeOK
  <2> QED BY <1>1, <2>1
<1>4. Tame' = Tame /\ \A e, s : KeysOf(e, s)' = KeysOf(e, s)
  BY <1>1 DEF Tame, KeysOf
<1>5. /\ NetTyped' /\ \A l \in Keys \ {k} : peer'[l] = peer[l]
      /\ k \in Keys => peer'[k] = Paused(d)
      /\ RouteInv'
  <2>1. NetTyped
    BY DEF NetTyped, Typed, TypeOK
  <2>2. \A l \in Keys, i \in Ips : Holds(l, i)' => Holds(l, i)
    BY <1>1 DEF Holds, Created, Minted
  <2>3. CASE k = NoKey
    BY <1>1, <2>1, <2>2, <2>3, KeyAssumption, RouteKept DEF net, NetTyped
  <2>4. CASE k # NoKey
    <3>1. PICK how \in {"absent", "off"} : how = Paused(d)
      BY DEF Paused
    <3>2. k \in Keys /\ Take(k, how)
      BY <1>1, <1>2, <2>4, <3>1
    <3>3. /\ NetTyped' /\ Touches(k, how)
          /\ \A i \in Ips : route'[i] = IF route[i] = k THEN NoKey ELSE route[i]
      BY <2>1, <3>2, TakeTouches
    <3>4. RouteInv'
      BY <1>1, <2>2, <3>2, <3>3, RouteTaken
    <3> QED BY <3>1, <3>3, <3>4 DEF Touches
  <2> QED BY <2>3, <2>4
<1>6. Typed'
  BY <1>1, <1>3, <1>5 DEF Typed, TypeOK, NetTyped
<1>7. RequestInv' /\ KeyInv'
  <2>1. \A l \in Fresh : l \in Keys /\ l # k
    BY <1>2, DeviceAssumption, KeyAssumption DEF Fresh
  <2>2. \A l \in Fresh : peer'[l] = "absent"
    BY <1>5, <2>1 DEF KeyInv
  <2> QED BY <1>1, <2>2, Untouched
<1>8. LimitInv' /\ RowInv'
  BY <1>1, LimitKept, RowsKept DEF GoesOn
<1>9. AloneInv'
  <2>1. ASSUME NEW x \in Requests, tx[x].dev \in Tame PROVE AloneOK(tx[x])'
    <3>1. AloneOK(tx[x])
      BY <2>1 DEF AloneInv
    <3> QED BY <1>1, <1>3, <1>4, <3>1 DEF AloneOK
  <2>2. \A e \in Tame \cap sweep'.done : KeysOf(e, "active") \subseteq sweep'.keys
    BY <1>2, <1>3 DEF AloneInv
  <2>3. \A l \in sweep'.keys : /\ owner[l] \in sweep'.done /\ cred[l].status # "none"
                               /\ owner[l] \in Tame => cred[l].status = "active"
    BY <1>2, <1>3, KeyAssumption DEF AloneInv
  <2>4. /\ \A e \in Tame \cap (sweep'.todo \cup sweep'.done) : dev[e] = "active"
        /\ \A x, y \in Requests : tx[x].dev \in Tame /\ tx[y].dev = tx[x].dev => x = y
    BY <1>3 DEF AloneInv
  <2> QED BY <1>1, <1>4, <2>1, <2>2, <2>3, <2>4 DEF AloneInv
<1>10. PeerInv'
  <2>1. ASSUME NEW x \in Requests, tx[x].dev \in Tame PROVE PeerOK(tx[x])'
    <3>1. PeerOK(tx[x]) /\ tx[x].dev # d
      BY <1>1, <2>1 DEF PeerInv, AloneInv, AloneOK
    <3>2. /\ tx[x].old \in Keys => peer'[tx[x].old] = peer[tx[x].old]
          /\ Minted(tx[x]) => peer'[tx[x].new] = peer[tx[x].new]
      BY <1>2, <1>5, <3>1, KeyAssumption DEF RequestInv, RequestOK, KeyInv, KeyOK
    <3> QED BY <1>1, <3>1, <3>2 DEF PeerOK, Created, Called, Minted, Done, Paused
  <2>2. ASSUME NEW l \in sweep'.keys, owner[l] \in Tame PROVE peer'[l] = Paused(owner[l])
    <3>1. l \in Keys
      BY <1>3, <2>2
    <3>2. CASE l = k
      BY <1>2, <1>5, <3>1, <3>2, KeyAssumption
    <3>3. CASE l # k
      BY <1>3, <1>5, <2>2, <3>1, <3>3 DEF PeerInv
    <3> QED BY <3>2, <3>3
  <2>3. ASSUME NEW l \in Keys, owner[l] \in Tame, Quiet(l)' PROVE peer'[l] = Asked(l)'
    <3>1. Quiet(l) /\ l # k
      BY <1>1, <1>3, <2>3 DEF Quiet, Called, Minted
    <3> QED BY <1>1, <1>5, <2>3, <3>1 DEF PeerInv, Asked, Paused
  <2> QED BY <1>1, <1>4, <2>1, <2>2, <2>3 DEF PeerInv, Paused
<1>11. LapsedInv'
  BY <1>1, <1>3, <1>4 DEF LapsedInv, Open, Active
<1>12. NoOrphanWithoutFailure'
  <2> SUFFICES ASSUME faults' = 0, NEW l \in Keys, peer'[l] # "absent"
               PROVE  cred'[l].status # "none" \/ \E y \in Requests : tx'[y].new = l
    BY DEF NoOrphanWithoutFailure
  <2>1. CASE l = k
    BY <1>1, <1>2, <2>1, KeyAssumption
  <2>2. CASE l # k
    BY <1>1, <1>5, <2>2 DEF NoOrphanWithoutFailure
  <2> QED BY <2>1, <2>2
<1> QED BY <1>5, <1>6, <1>7, <1>8, <1>9, <1>10, <1>11, <1>12

LEMMA SweepFailsStep ==
    ASSUME DevicesInv, SweepFails
    PROVE  DevicesInv'
<1> USE DEF DevicesInv
<1>1. /\ sweep.pc = "disable" /\ disturbed' = disturbed \cup sweep.done /\ sweep' = NoSweep
      /\ UNCHANGED <<sub, dev, cred, load, owner, peer, route, tx, starts, contested, relaxed,
                     lapsed>>
  BY DEF SweepFails, rows, net
<1>2. faults' \in 0 .. MaxFaults /\ (faults' = 0 => faults = 0)
  BY NumberAssumption DEF SweepFails, Typed, TypeOK
<1>3. /\ sweep'.pc = "idle" /\ sweep'.todo = {} /\ sweep'.done = {} /\ sweep'.keys = {}
      /\ sweep' \in [pc : {"idle", "disable"}, todo : SUBSET Devices, done : SUBSET Devices,
                     keys : SUBSET Keys, alone : BOOLEAN]
  BY <1>1 DEF NoSweep
<1>4. Tame' = Tame \ sweep.done /\ \A e, s : KeysOf(e, s)' = KeysOf(e, s)
  BY <1>1 DEF Tame, KeysOf
<1>5. Typed'
  BY <1>1, <1>2, <1>3 DEF Typed, TypeOK
<1>6. RequestInv' /\ KeyInv'
  <2>1. \A k \in Fresh : peer'[k] = "absent"
    BY <1>1 DEF KeyInv
  <2> QED BY <1>1, <2>1, Untouched
<1>7. LimitInv' /\ RowInv'
  BY <1>1, LimitKept, RowsKept DEF GoesOn
<1>8. AloneInv'
  <2>1. ASSUME NEW x \in Requests, tx[x].dev \in Tame' PROVE AloneOK(tx[x])'
    <3>1. AloneOK(tx[x])
      BY <1>4, <2>1 DEF AloneInv
    <3> QED BY <1>1, <1>3, <1>4, <3>1 DEF AloneOK
  <2>2. \A x, y \in Requests : tx[x].dev \in Tame' /\ tx[y].dev = tx[x].dev => x = y
    BY <1>4 DEF AloneInv
  <2> QED BY <1>1, <1>3, <2>1, <2>2 DEF AloneInv
<1>9. PeerInv'
  <2>1. ASSUME NEW x \in Requests, tx[x].dev \in Tame' PROVE PeerOK(tx[x])'
    <3>1. PeerOK(tx[x])
      BY <1>4, <2>1 DEF PeerInv
    <3> QED BY <1>1, <3>1 DEF PeerOK, Created, Called, Minted, Done, Paused
  <2>2. ASSUME NEW k \in Keys, owner[k] \in Tame', Quiet(k)' PROVE peer[k] = Asked(k)'
    <3>1. k \notin sweep.keys /\ owner[k] \in Tame
      BY <1>4, <2>2 DEF AloneInv
    <3>2. Quiet(k)
      BY <1>1, <2>2, <3>1 DEF Quiet, Called, Minted
    <3> QED BY <1>1, <2>2, <3>1, <3>2 DEF PeerInv, Asked, Paused
  <2> QED BY <1>1, <1>3, <2>1, <2>2 DEF PeerInv, Paused
<1>10. RouteInv'
  <2>1. \A k \in Keys, i \in Ips : Holds(k, i)' => Holds(k, i)
    BY <1>1 DEF Holds, Created, Minted
  <2> QED BY <1>1, <2>1, RouteKept
<1>11. LapsedInv'
  BY <1>1, <1>3 DEF LapsedInv
<1>12. NoOrphanWithoutFailure'
  BY <1>1, <1>2 DEF NoOrphanWithoutFailure
<1> QED BY <1>5, <1>6, <1>7, <1>8, <1>9, <1>10, <1>11, <1>12

LEMMA SweepCommitStep ==
    ASSUME DevicesInv, SweepCommit
    PROVE  DevicesInv'
<1> USE DEF DevicesInv
<1>1. /\ sweep.pc = "disable" /\ sweep.todo = {} /\ sub' = "expired"
      /\ dev' = [d \in Devices |-> IF d \in sweep.done THEN "disabled" ELSE dev[d]]
      /\ cred' = [k \in Keys |-> IF k \in sweep.keys /\ owner[k] \in Vless
                                 THEN [cred[k] EXCEPT !.status = "disabled"] ELSE cred[k]]
      /\ lapsed' = sweep.alone /\ sweep' = NoSweep
      /\ UNCHANGED <<load, owner, peer, route, tx, starts, faults, disturbed, contested, relaxed>>
  BY DEF SweepCommit, net
<1>2. /\ sweep'.pc = "idle" /\ sweep'.todo = {} /\ sweep'.done = {} /\ sweep'.keys = {}
      /\ sweep' \in [pc : {"idle", "disable"}, todo : SUBSET Devices, done : SUBSET Devices,
                     keys : SUBSET Keys, alone : BOOLEAN]
      /\ sweep.done \in SUBSET Devices /\ sweep.keys \in SUBSET Keys /\ sweep.alone \in BOOLEAN
  BY <1>1 DEF NoSweep, Typed, TypeOK
<1>3. /\ dev \in [Devices -> DevStatus]
      /\ cred \in [Keys -> [status : DevStatus, ip : Ips \cup {0}]]
      /\ "disabled" \in DevStatus
  BY DEF Typed, TypeOK, DevStatus
<1>4. /\ dev' \in [Devices -> DevStatus]
      /\ \A d \in Devices : dev'[d] = IF d \in sweep.done THEN "disabled" ELSE dev[d]
  BY <1>1, <1>3
<1>5. /\ cred' \in [Keys -> [status : DevStatus, ip : Ips \cup {0}]]
      /\ \A k \in Keys : /\ cred'[k].ip = cred[k].ip
                         /\ cred'[k].status = IF k \in sweep.keys /\ owner[k] \in Vless
                                              THEN "disabled" ELSE cred[k].status
  BY <1>1, <1>3
<1>6. /\ \A k \in sweep.keys : /\ k \in Keys /\ owner[k] \in sweep.done /\ cred[k].status # "none"
                               /\ owner[k] \in Tame => cred[k].status = "active"
      /\ \A e \in Tame \cap sweep.done :
             dev[e] = "active" /\ KeysOf(e, "active") \subseteq sweep.keys
      /\ Tame' = Tame /\ Tame \subseteq Devices
  BY <1>1, <1>2 DEF AloneInv, Tame
<1>7. /\ \A k \in Keys : cred'[k].status = "none" <=> cred[k].status = "none"
      /\ \A k \in Keys : owner[k] \notin sweep.done => cred'[k].status = cred[k].status
  BY <1>5, <1>6
<1>8. \A e, s : e \notin sweep.done => KeysOf(e, s)' = KeysOf(e, s)
  BY <1>1, <1>7 DEF KeysOf
<1>9. Typed'
  BY <1>1, <1>2, <1>4, <1>5 DEF Typed, TypeOK
<1>10. RequestInv' /\ KeyInv'
  <2>1. \A k \in Fresh : peer'[k] = "absent"
    BY <1>1 DEF KeyInv
  <2> QED BY <1>1, <1>7, <2>1, Untouched
<1>11. Active' = Active \ sweep.done
  BY <1>4 DEF Active
<1>12. LimitInv'
  <2>1. /\ IsFiniteSet(Active')
        /\ Cardinality(Active) <= DeviceLimit => Cardinality(Active') <= DeviceLimit
    BY <1>11, Fits DEF LimitInv
  <2>2. \A d : Cardinality(Active \cup {d}) <= DeviceLimit =>
                   Cardinality(Active' \cup {d}) <= DeviceLimit
    <3> SUFFICES ASSUME NEW d
                 PROVE  Cardinality(Active \cup {d}) <= DeviceLimit =>
                            Cardinality(Active' \cup {d}) <= DeviceLimit
      OBVIOUS
    <3>1. IsFiniteSet(Active \cup {d})
      BY FS_AddElement DEF LimitInv
    <3>2. Active' \cup {d} \subseteq Active \cup {d}
      BY <1>11
    <3> QED BY <3>1, <3>2, Fits
  <2> QED BY <1>1, <2>1, <2>2 DEF LimitInv
<1>13. RowInv'
  <2>1. ASSUME NEW e \in Tame PROVE RowOK(e)'
    <3>1. CASE e \notin sweep.done
      <4>1. /\ KeysOf(e, "active")' = KeysOf(e, "active") /\ dev'[e] = dev[e]
            /\ dev[e] = "none" => \A k \in Keys : owner[k] = e => cred'[k].status = "none"
        BY <1>4, <1>6, <1>7, <1>8, <3>1 DEF RowInv
      <4> QED BY <1>1, <4>1 DEF RowOK, RowInv
    <3>2. CASE e \in sweep.done
      <4>1. dev'[e] = "disabled"
        BY <1>4, <1>6, <3>2
      <4>2. KeysOf(e, "active")' \subseteq KeysOf(e, "active")
        BY <1>1, <1>5 DEF KeysOf
      <4>3. e \in Vless => KeysOf(e, "active")' = {}
        <5> SUFFICES ASSUME e \in Vless, NEW k \in Keys, owner[k] = e, cred'[k].status = "active"
                     PROVE  FALSE
          BY <1>1 DEF KeysOf
        <5>1. cred[k].status = "active"
          BY <1>5
        <5>2. k \in sweep.keys
          BY <1>6, <3>2, <5>1 DEF KeysOf
        <5> QED BY <1>5, <5>2
      <4> QED BY <4>1, <4>2, <4>3 DEF RowOK, RowInv
    <3> QED BY <3>1, <3>2
  <2>2. \A e \in Tame : e \in Vless =>
            \A k, l \in Keys : owner'[k] = e /\ owner'[l] = e => k = l
    BY <1>1 DEF RowInv
  <2> QED BY <1>6, <2>1, <2>2 DEF RowInv, RowOK
<1>14. AloneInv'
  <2>1. ASSUME NEW x \in Requests, tx[x].dev \in Tame PROVE AloneOK(tx[x])'
    <3>1. AloneOK(tx[x]) /\ tx[x].dev \notin sweep.done
      BY <2>1 DEF AloneInv, AloneOK
    <3>2. dev'[tx[x].dev] = dev[tx[x].dev]
      BY <1>4, <1>6, <2>1, <3>1
    <3> QED BY <1>1, <1>2, <1>8, <3>1, <3>2 DEF AloneOK
  <2>2. \A x, y \in Requests : tx[x].dev \in Tame /\ tx[y].dev = tx[x].dev => x = y
    BY DEF AloneInv
  <2> QED BY <1>1, <1>2, <1>6, <2>1, <2>2 DEF AloneInv
<1>15. PeerInv'
  <2>1. ASSUME NEW x \in Requests, tx[x].dev \in Tame PROVE PeerOK(tx[x])'
    <3>1. PeerOK(tx[x])
      BY <2>1 DEF PeerInv
    <3> QED BY <1>1, <3>1 DEF PeerOK, Created, Called, Minted, Done, Paused
  <2>2. ASSUME NEW k \in Keys, owner[k] \in Tame, Quiet(k)' PROVE peer[k] = Asked(k)'
    <3>1. dev'[owner[k]] = IF owner[k] \in sweep.done THEN "disabled" ELSE dev[owner[k]]
      BY <1>4, <1>6, <2>2
    <3>2. CASE k \in sweep.keys
      <4>1. owner[k] \in sweep.done /\ cred[k].status = "active" /\ peer[k] = Paused(owner[k])
        BY <1>6, <2>2, <3>2 DEF PeerInv
      <4>2. CASE owner[k] \in Vless
        BY <1>5, <3>2, <4>1, <4>2 DEF Asked, Paused
      <4>3. CASE owner[k] \notin Vless
        BY <1>1, <1>5, <3>1, <3>2, <4>1, <4>3 DEF Asked, Paused
      <4> QED BY <4>2, <4>3
    <3>3. CASE k \notin sweep.keys
      <4>1. Quiet(k)
        BY <1>1, <2>2, <3>3 DEF Quiet, Called, Minted
      <4>2. peer[k] = Asked(k) /\ cred'[k].status = cred[k].status
        BY <1>5, <2>2, <3>3, <4>1 DEF PeerInv
      <4>3. owner[k] \in sweep.done => cred[k].status # "active"
        BY <1>6, <2>2, <3>3 DEF KeysOf
      <4>4. CASE owner[k] \in sweep.done
        BY <4>2, <4>3, <4>4 DEF Asked
      <4>5. CASE owner[k] \notin sweep.done
        BY <1>1, <3>1, <4>2, <4>5 DEF Asked, Paused
      <4> QED BY <4>4, <4>5
    <3> QED BY <3>2, <3>3
  <2> QED BY <1>1, <1>2, <1>6, <2>1, <2>2 DEF PeerInv, Paused
<1>16. RouteInv'
  <2>1. \A k \in Keys, i \in Ips : Holds(k, i)' => Holds(k, i)
    BY <1>1, <1>5, <1>7 DEF Holds, Created, Minted
  <2> QED BY <1>1, <2>1, RouteKept
<1>17. LapsedInv'
  <2>1. ASSUME sweep.alone
        PROVE  (\A t \in Requests : ~Open(t)') /\ Active' \cap Tame' = {}
    BY <1>1, <1>6, <1>11, <2>1 DEF LapsedInv, Open
  <2> QED BY <1>1, <1>2, <2>1 DEF LapsedInv
<1>18. NoOrphanWithoutFailure'
  BY <1>1, <1>7 DEF NoOrphanWithoutFailure
<1> QED BY <1>9, <1>10, <1>12, <1>13, <1>14, <1>15, <1>16, <1>17, <1>18

LEMMA RenewStep ==
    ASSUME DevicesInv, Renew
    PROVE  DevicesInv'
<1> USE DEF DevicesInv
<1>1. /\ sweep.pc = "idle" /\ starts < MaxStarts /\ starts' = starts + 1
      /\ sub' = "active" /\ lapsed' = FALSE
      /\ UNCHANGED <<dev, cred, load, owner, peer, route, tx, sweep, faults, disturbed,
                     contested, relaxed>>
  BY DEF Renew, net
<1>2. Typed'
  <2>1. starts' \in 0 .. MaxStarts /\ starts' >= starts /\ starts \in Nat
    BY <1>1, NumberAssumption DEF Typed, TypeOK
  <2>2. \A x \in Requests : tx'[x].load <= starts'
    <3>1. \A x \in Requests : tx[x].load \in Nat /\ tx[x].load <= starts
      BY TxTyped, NumberAssumption DEF Typed, TxRecords
    <3> QED BY <1>1, <2>1, <3>1
  <2>3. \A p \in Protocols : load'[p] <= starts'
    <3>1. \A p \in Protocols : load[p] \in Nat /\ load[p] <= starts
      BY NumberAssumption DEF Typed, TypeOK
    <3> QED BY <1>1, <2>1, <3>1
  <2> QED BY <1>1, <2>1, <2>2, <2>3 DEF Typed, TypeOK
<1>3. RequestInv' /\ KeyInv'
  <2>1. \A k \in Fresh : peer'[k] = "absent"
    BY <1>1 DEF KeyInv
  <2> QED BY <1>1, <2>1, Untouched
<1>4. LimitInv' /\ RowInv' /\ AloneInv'
  BY <1>1, LimitKept, RowsKept, AloneKept DEF GoesOn
<1>5. PeerInv'
  BY <1>1 DEF PeerInv, PeerOK, Created, Called, Minted, Done, Paused, Tame, Quiet, Asked
<1>6. RouteInv'
  <2>1. \A k \in Keys, i \in Ips : Holds(k, i)' => Holds(k, i)
    BY <1>1 DEF Holds, Created, Minted
  <2> QED BY <1>1, <2>1, RouteKept
<1>7. LapsedInv' /\ NoOrphanWithoutFailure'
  BY <1>1 DEF LapsedInv, NoOrphanWithoutFailure
<1> QED BY <1>2, <1>3, <1>4, <1>5, <1>6, <1>7

LEMMA StutterStep ==
    ASSUME DevicesInv, UNCHANGED vars
    PROVE  DevicesInv'
<1> USE DEF DevicesInv
<1>1. UNCHANGED <<sub, dev, cred, load, owner, peer, route, tx, sweep, starts, faults, disturbed,
                  contested, relaxed, lapsed>>
  BY DEF vars, rows, net, history
<1>2. Typed' /\ LapsedInv' /\ NoOrphanWithoutFailure'
  BY <1>1 DEF Typed, TypeOK, LapsedInv, Open, Active, Tame, NoOrphanWithoutFailure
<1>3. RequestInv' /\ KeyInv'
  <2>1. \A k \in Fresh : peer'[k] = "absent"
    BY <1>1 DEF KeyInv
  <2> QED BY <1>1, <2>1, Untouched
<1>4. LimitInv' /\ RowInv' /\ AloneInv'
  BY <1>1, LimitKept, RowsKept, AloneKept DEF GoesOn
<1>5. PeerInv'
  BY <1>1 DEF PeerInv, PeerOK, Created, Called, Minted, Done, Paused, Tame, Quiet, Asked
<1>6. RouteInv'
  <2>1. \A k \in Keys, i \in Ips : Holds(k, i)' => Holds(k, i)
    BY <1>1 DEF Holds, Created, Minted
  <2> QED BY <1>1, <2>1, RouteKept
<1> QED BY <1>2, <1>3, <1>4, <1>5, <1>6

-----------------------------------------------------------------------------
(* The invariant, and what follows from it. *)

LEMMA DevicesInit == Init => DevicesInv
<1> SUFFICES ASSUME Init PROVE DevicesInv
  OBVIOUS
<1> USE DEF Init
<1>1. /\ \A x \in Requests : tx[x] = NoTx
      /\ \A k \in Keys : cred[k].status = "none" /\ owner[k] = NoDevice /\ peer[k] = "absent"
      /\ \A d, s : s # "none" => KeysOf(d, s) = {}
      /\ \A k \in Keys : owner[k] \notin Tame
      /\ Active = {}
      /\ sweep.pc = "idle" /\ sweep.todo = {} /\ sweep.done = {} /\ sweep.keys = {}
  <2>1. \A d, s : s # "none" => KeysOf(d, s) = {}
    BY DEF KeysOf
  <2>2. \A k \in Keys : owner[k] \notin Tame
    BY DeviceAssumption DEF Tame
  <2> QED BY <2>1, <2>2 DEF Active, NoSweep
<1>2. Typed
  <2>1. tx \in [Requests -> TxRecords] /\ \A x \in Requests : tx[x].load <= starts
    <3>1. NoTx \in TxRecords /\ NoTx.load = 0
      BY NoTxRecord
    <3> QED BY <3>1
  <2>2. /\ dev \in [Devices -> DevStatus] /\ load \in [Protocols -> 0 .. MaxStarts]
        /\ cred \in [Keys -> [status : DevStatus, ip : Ips \cup {0}]]
        /\ \A p \in Protocols : load[p] <= starts
    BY NumberAssumption DEF DevStatus
  <2>3. /\ owner \in [Keys -> Devices \cup {NoDevice}]
        /\ peer \in [Keys -> {"absent", "off", "on"}] /\ route \in [Ips -> Keys \cup {NoKey}]
        /\ starts \in 0 .. MaxStarts /\ faults \in 0 .. MaxFaults
        /\ sweep \in [pc : {"idle", "disable"}, todo : SUBSET Devices, done : SUBSET Devices,
                      keys : SUBSET Keys, alone : BOOLEAN]
    BY NumberAssumption DEF NoSweep
  <2> QED BY <1>1, <2>1, <2>2, <2>3 DEF Typed, TypeOK, TxRecords
<1>3. RequestInv
  <2>1. RequestOK(NoTx)
    BY NoTxRecord, KeyAssumption DEF RequestOK
  <2> QED BY <1>1, <2>1 DEF RequestInv
<1>4. KeyInv
  <2>1. KeyOK(NoTx)
    BY NoTxRecord, KeyAssumption DEF KeyOK, Minted
  <2>2. \A k \in Fresh : k \in Keys
    BY DEF Fresh
  <2> QED BY <1>1, <2>1, <2>2, NoTxRecord, KeyAssumption DEF KeyInv
<1>5. LimitInv
  <2>1. IsFiniteSet(Active) /\ Cardinality(Active) = 0
    BY <1>1, FS_EmptySet
  <2> QED BY <1>1, <2>1, NoTxRecord, NumberAssumption DEF LimitInv
<1>6. RowInv
  BY <1>1 DEF RowInv
<1>7. AloneInv
  <2>1. \A x \in Requests : tx[x].dev \notin Tame
    BY <1>1, NoTxRecord, DeviceAssumption DEF Tame
  <2> QED BY <1>1, <2>1 DEF AloneInv
<1>8. PeerInv
  BY <1>1, NoTxRecord, DeviceAssumption DEF PeerInv, Tame
<1>9. RouteInv
  <2>1. ~Created(NoTx)
    BY NoTxRecord DEF Created, Minted
  <2> QED BY <1>1, <2>1 DEF RouteInv, Holds
<1>10. LapsedInv /\ NoOrphanWithoutFailure
  BY <1>1 DEF LapsedInv, NoOrphanWithoutFailure
<1> QED BY <1>2, <1>3, <1>4, <1>5, <1>6, <1>7, <1>8, <1>9, <1>10 DEF DevicesInv

LEMMA DevicesNext == DevicesInv /\ [Next]_vars => DevicesInv'
<1> SUFFICES ASSUME DevicesInv, [Next]_vars PROVE DevicesInv'
  OBVIOUS
<1>1. CASE Request
  BY <1>1, ProvisionStep, ProvisionVlessStep, ChangeStep DEF Request
<1>2. ASSUME NEW t \in Requests, Step(t) PROVE DevicesInv'
  <2>1. CASE Cleanup(t)
    <3>1. tx[t].attempt < MaxIpAttempts \/ tx[t].attempt = MaxIpAttempts
      BY <2>1 DEF Cleanup
    <3> QED BY <2>1, <3>1, CleanupStep, CleanupFailStep
  <2> QED BY <1>2, <2>1, DeleteOldPeerStep, AllocateIpStep, PoolExhaustedStep, CreatePeerStep,
             InsertPeerStep, ChangePeerStep, AgentFailsStep, CommitFailsStep, CommitAnyStep
          DEF Step
<1>3. CASE Sweep
  BY <1>3, SweepStartStep, SweepDisableStep, SweepCommitStep, SweepFailsStep DEF Sweep
<1>4. CASE Renew
  BY <1>4, RenewStep
<1>5. CASE UNCHANGED vars
  BY <1>5, StutterStep
<1> QED BY <1>1, <1>2, <1>3, <1>4, <1>5 DEF Next

(* DevicesInv is inductive: it holds in every state of every behaviour.    *)
THEOREM Invariance == Spec => []DevicesInv
<1>1. Init => DevicesInv
  BY DevicesInit
<1>2. DevicesInv /\ [Next]_vars => DevicesInv'
  BY DevicesNext
<1> QED BY <1>1, <1>2, PTL DEF Spec

(* Rows, nodes, requests and the sweep keep their types: current_load does  *)
(* not go below zero (revoke_device's max(0, ...)).                        *)
THEOREM TypeCorrect == Spec => []TypeOK
<1>1. DevicesInv => TypeOK
  BY DEF DevicesInv, Typed
<1> QED BY <1>1, Invariance, PTL

(* As long as no call fails, every peer on a node belongs to a row or to a *)
(* request in progress (_create_peer_with_retry cleans up).                *)
THEOREM NoOrphans == Spec => []NoOrphanWithoutFailure
<1>1. DevicesInv => NoOrphanWithoutFailure
  BY DEF DevicesInv
<1> QED BY <1>1, Invariance, PTL

(* max_devices holds until a disabled device is enabled again (enable_     *)
(* device does not look at it) or two provisions overlap.                  *)
THEOREM DeviceLimitKept == Spec => []LimitUnlessReenabled
<1>1. DevicesInv => LimitUnlessReenabled
  BY DEF DevicesInv, LimitInv, LimitUnlessReenabled
<1> QED BY <1>1, Invariance, PTL

(* Rows and nodes agree on every device whose requests neither overlapped  *)
(* nor failed, and an address nobody raced for is routed to its key.       *)
THEOREM NodesMatchRows == Spec => []RowsMatchNodes
<1>1. DevicesInv => RowsMatchNodes
  <2> SUFFICES ASSUME DevicesInv, NEW k \in Keys, owner[k] # NoDevice, Settled(owner[k])
               PROVE  /\ peer[k] = Expected(k)
                      /\ peer[k] = "on" /\ cred[k].ip \notin contested \cup {0} =>
                             route[cred[k].ip] = k
    BY DEF RowsMatchNodes
  <2> USE DEF DevicesInv
  <2>1. owner[k] \in Tame /\ On(owner[k]) = {} /\ owner[k] \notin sweep.done
    BY DEF Typed, TypeOK, Settled, Tame
  <2>2. k \notin sweep.keys
    BY <2>1 DEF AloneInv
  <2>3. ASSUME NEW x \in Requests PROVE ~(tx[x].new = k) /\ ~(tx[x].old = k)
    BY <2>1 DEF RequestInv, RequestOK, KeyInv, KeyOK, On
  <2>4. peer[k] = Asked(k)
    BY <2>1, <2>2, <2>3 DEF PeerInv, Quiet
  <2>5. dev[owner[k]] = "revoked" => cred[k].status # "active"
    BY <2>1 DEF RowInv, KeysOf
  <2>6. peer[k] = Expected(k)
    BY <2>4, <2>5 DEF Asked, Expected
  <2>7. ASSUME peer[k] = "on", cred[k].ip \notin contested \cup {0}
        PROVE  route[cred[k].ip] = k
    <3>1. cred[k].status # "none"
      BY <2>4, <2>7 DEF Asked
    <3>2. cred[k].ip \in Ips \ contested
      BY <2>7 DEF Typed, TypeOK
    <3>3. Holds(k, cred[k].ip)
      BY <3>1 DEF Holds
    <3> QED BY <2>7, <3>2, <3>3 DEF RouteInv
  <2> QED BY <2>6, <2>7
<1> QED BY <1>1, Invariance, PTL

(* After an expiry sweep that ran alone no device of the user is on, until *)
(* the user asks for something.                                            *)
THEOREM ExpiredIsOff == Spec => []ExpiredUserIsOff
<1>1. DevicesInv => ExpiredUserIsOff
  <2> SUFFICES ASSUME DevicesInv, lapsed, NEW k \in Keys, owner[k] \notin disturbed
               PROVE  peer[k] # "on"
    BY DEF ExpiredUserIsOff
  <2> USE DEF DevicesInv
  <2>1. CASE owner[k] = NoDevice
    BY <2>1 DEF KeyInv, Fresh
  <2>2. CASE owner[k] # NoDevice
    <3>1. owner[k] \in Tame
      BY <2>2 DEF Typed, TypeOK, Tame
    <3>2. k \notin sweep.keys /\ dev[owner[k]] # "active"
      BY <3>1 DEF LapsedInv, Typed, Active, Tame
    <3>3. \A x \in Requests : ~Minted(tx[x]) /\ ~Called(tx[x])
      BY DEF LapsedInv, Open, Minted, Called
    <3>4. peer[k] = Asked(k)
      BY <3>1, <3>2, <3>3 DEF PeerInv, Quiet
    <3> QED BY <3>2, <3>4 DEF Asked, Paused
  <2> QED BY <2>1, <2>2
<1> QED BY <1>1, Invariance, PTL
=============================================================================
