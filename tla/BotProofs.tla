------------------------------ MODULE BotProofs ------------------------------
(***************************************************************************)
(* Proofs about Bot for any devices, messages, updates and faults: what a  *)
(* prompt leads to, that the chat shows what the backend holds, that a     *)
(* revoked device stays revoked, and that the link shown works.            *)
(***************************************************************************)
EXTENDS Bot, TLAPS

DeviceActs == {"device:sublink:view", "device:sublink:rotate", "device:revoke", "device:manage",
               "device:reissue", "device:disable", "device:enable"}
Acts == Menus \cup DeviceActs \cup Prompts
        \cup {"none", "start", "device:new", "device:new:server", "device:new:proto", "plan:buy",
              "smart:mode", "smart:cat", "smart:categories", "smart:add_domain"}
Protocols == {"wireguard", "vless"}
Modes     == {"full_vpn", "smart_vpn"}
Args      == Devices \cup Servers \cup Categories \cup Plans \cup Protocols \cup Modes \cup {None}
Sending   == Mutating \cup Prompts \cup {"smart:cat"}
Minting   == {"device_name", "device:sublink:rotate"}

(* These change what a screen shows. *)
Visible == {"device:disable", "device:enable", "device:revoke", "device_name", "smart:mode",
            "smart:cat"}

Backends == [registered : BOOLEAN, mode : Modes, cats : SUBSET Categories,
             status : [Devices -> Statuses], link : [Devices -> Nat], minted : Nat]
Updates  == [kind : {"none", "tap", "command", "text"}, act : Acts, arg : Args,
             msg : Messages \cup {None}]
Runs     == [pc : {"idle", "groups", "read", "call", "show"}, upd : Updates, op : Acts, arg : Args,
             opt : Protocols \cup {"none", "on", "off"}, group : 0 .. 4,
             dev : Devices \cup {None}, token : Nat]
RequestRecords == [op : Acts, arg : Args, opt : Protocols \cup {"none", "on", "off"},
                   dev : Devices \cup {None}, token : Nat]
ScreenKinds == {"main", "text", "plain", "protocols", "devices", "manage", "link", "plans",
                "servers", "smart", "categories"}
Screens  == [kind : ScreenKinds \cup {"missing", "none"}, dev : Devices \cup {None},
             devs : SUBSET Devices, status : Statuses, mode : Modes, cats : SUBSET Categories]

Typed ==
    /\ be \in Backends /\ late \subseteq RequestRecords
    /\ awaiting \subseteq Prompts /\ pending \in Choices
    /\ msg \in [Messages -> Screens] /\ run \in Runs /\ again \in Updates
    /\ updates \in 0 .. MaxUpdates /\ faults \in 0 .. MaxFaults
    /\ sent \in [Prompts \cup {"plan:buy"} -> 0 .. 2] /\ asked \in Choices
    /\ due \in Prompts \cup {"none"} /\ outdated \subseteq Messages
    /\ last \in Messages \cup {None} /\ link \in [Devices -> Nat] /\ unsure \subseteq Devices

(* The argument of a button is one of its kind. *)
ArgOK(act, arg) ==
    /\ act \in DeviceActs => arg \in Devices
    /\ act = "smart:mode" => arg \in Modes
    /\ act = "smart:cat" => arg \in Categories
    /\ act = "device:new:server" => arg \in Servers
    /\ act = "device:new:proto" => arg \in Protocols

UpdateOK(u) ==
    /\ ArgOK(u.act, u.arg) /\ u.act \notin Prompts
    /\ u.kind = "text" => u.act = "none"
    /\ u.kind = "tap" => u.msg \in Messages
    /\ u.act \in DeviceActs => u.kind = "tap"

(* The handler of a button does what the button says, those of a text what *)
(* their group is for; a token is under way from the answer to the reply.  *)
RunOK(x) ==
    /\ UpdateOK(x.upd)
    /\ x.pc = "idle" => x = Idle
    /\ x.pc = "groups" => x.upd.kind = "text" /\ x.group \in 1 .. 4 /\ x.op = "none"
    /\ x.pc \in {"read", "call", "show"} =>
         IF x.upd.kind = "text" THEN x.group \in 1 .. 3 /\ x.op = Order[x.group]
         ELSE x.op = x.upd.act /\ x.arg = x.upd.arg
    /\ x.pc = "read" => x.op = "smart:cat"
    /\ x.pc = "call" => x.op \in Sending
    /\ x.pc # "show" => x.dev = None /\ x.token = 0
    /\ x.dev # None \/ x.token # 0 => x.op \in Minting /\ x.dev \in Devices
    /\ x.pc = "show" /\ x.op = "device_name" => x.dev \in Devices
    /\ x.pc = "show" /\ x.op = "device:sublink:rotate" => x.dev = x.arg

RunInv == /\ RunOK(run) /\ UpdateOK(again)
          /\ run.pc # "idle" => again = NoUpdate

LateOK(r) == /\ r.op \in Sending /\ ArgOK(r.op, r.arg)
             /\ r.op \in Minting => r.dev \in Devices
             /\ r.op \notin Minting => r.dev = None /\ r.token = 0

(* Every message written is one of the screens. *)
MessageOK(s) == s.kind \in {"manage", "link"} => s.dev \in Devices

ScreenInv == \A m \in Messages : MessageOK(msg[m])

(* An update, or a delivery of it, mints one token. *)
MayMint == \/ run.pc = "groups" /\ run.group = 1
           \/ run.pc = "call" /\ run.op \in Minting

MintInv ==
    /\ be.minted + (IF MayMint THEN 1 ELSE 0) + (IF again # NoUpdate THEN 1 ELSE 0)
         <= 1 + updates + faults
    /\ \A d \in Devices : be.link[d] <= be.minted
    /\ \A r \in late : LateOK(r) /\ r.token <= be.minted

(* A prompt that waits for its text, or is being shown, has led to no      *)
(* request; a payment is sent by the update that asked for it.             *)
Renews(u, k) == k # "none" /\ PromptOf(u.act) = k

PromptInv ==
    /\ \A k \in Prompts :
         /\ sent[k] <= 1
         /\ k \in awaiting \/ Renews(run.upd, k) \/ Renews(again, k) => sent[k] = 0
    /\ faults = 0 =>
         /\ sent["plan:buy"] <= 1 /\ again = NoUpdate
         /\ run.pc = "call" /\ run.op = "plan:buy" => sent["plan:buy"] = 0

(* The name prompt that waits is the one tapped last. *)
ChosenBy(u) == CASE u.act = "device:new:server" -> <<u.arg, "wireguard">>
                 [] u.act = "device:new:proto"  -> <<None, u.arg>>
                 [] OTHER                       -> asked

AskedInv ==
    /\ "device_name" \in awaiting => pending = asked
    /\ ChosenBy(run.upd) = asked /\ ChosenBy(again) = asked
    /\ CreatesWhatWasAsked

(* The prompt shown last waits, and a text under way has yet to reach the  *)
(* group that answers it.                                                  *)
DueInv ==
    /\ due # "none" => due \in awaiting
    /\ run.pc # "idle" /\ PromptOf(run.upd.act) # "none" => PromptOf(run.upd.act) \in awaiting
    /\ run.upd.kind = "text" /\ due # "none" =>
         \E g \in 1 .. 3 : /\ Order[g] = due
                           /\ IF run.pc = "groups" THEN run.group <= g ELSE run.group < g

(* The message written last is current, except while a handler that has    *)
(* changed what it shows is about to write it again.                       *)
ShownInv ==
    last # None /\ ~(run.pc = "show" /\ run.op \in Visible) =>
        msg[last] = Screen(msg[last].kind, msg[last].dev, be)

(* A message written since offers a revoked device no more, and no button  *)
(* of it is being handled.                                                 *)
Old(u) == /\ u.act \in {"device:disable", "device:enable"}
          /\ be.status[u.arg] = "revoked"
          => u.msg \in outdated

RevokedInv ==
    /\ \A m \in Messages \ outdated :
         msg[m].kind = "manage" /\ be.status[msg[m].dev] = "revoked" => msg[m].status = "revoked"
    /\ Old(run.upd) /\ Old(again)

(* The link shown last is the one that works, or the one about to be shown *)
(* is; a device that does not exist has none.                              *)
LinkInv ==
    \A d \in Devices \ (Reserved \cup unsure) :
        /\ IF run.pc = "show" /\ run.token # 0 /\ run.dev = d
           THEN be.link[d] = run.token /\ be.status[d] # "none"
           ELSE link[d] \in {0, be.link[d]}
        /\ be.status[d] = "none" => link[d] = 0

BotInv == /\ Typed /\ RunInv /\ ScreenInv /\ MintInv /\ PromptInv /\ AskedInv /\ DueInv
          /\ ShownInv /\ RevokedInv /\ LinkInv

-----------------------------------------------------------------------------
(* The operators.                                                          *)

(* A commit of request r turns backend b into c: it changes the status of   *)
(* its device, and the link of the device it made one for.                 *)
Carried(b, c, r) ==
    /\ c \in Backends
    /\ \A d \in Devices : c.link[d] = IF r.op \in Minting /\ d = r.dev THEN r.token ELSE b.link[d]
    /\ \A d \in Devices :
         \/ c.status[d] = b.status[d]
         \/ /\ r.op \in {"device:disable", "device:enable", "device:revoke"} /\ d = r.arg
            /\ c.status[d] # "none" /\ (c.status[d] = "revoked" => r.op = "device:revoke")
         \/ r.op = "device_name" /\ d = r.dev /\ c.status[d] = "active"
    /\ r.op = "device_name" => c.status[r.dev] = "active"
    /\ r.op \notin Visible => c.status = b.status /\ c.mode = b.mode /\ c.cats = b.cats

LEMMA EffectFacts ==
    ASSUME NEW b \in Backends, NEW r \in RequestRecords, LateOK(r)
    PROVE  Carried(b, Effect(b, r), r) /\ Effect(b, r).minted = b.minted
<1> DEFINE c == Effect(b, r)
<1> USE DEF Backends, RequestRecords, LateOK, ArgOK
<1>1. CASE r.op = "start"
    BY <1>1 DEF Effect, Carried, Minting, Visible
<1>2. CASE r.op \in {"device:disable", "device:enable", "device:revoke"}
  <2>1. r.arg \in Devices /\ r.op \notin Minting
    BY <1>2 DEF DeviceActs, Minting
  <2>2. PICK s \in {"disabled", "active", "revoked"} :
            c = [b EXCEPT !.status[r.arg] = s] /\ (s = "revoked" => r.op = "device:revoke")
    BY <1>2 DEF Effect
  <2>3. c \in Backends /\ c.link = b.link /\ c.minted = b.minted
        /\ c.status = [b.status EXCEPT ![r.arg] = s]
    BY <2>1, <2>2 DEF Statuses
  <2> QED
    BY <1>2, <2>1, <2>2, <2>3 DEF Carried, Visible
<1>3. CASE r.op = "device:sublink:rotate"
  <2>1. r.dev \in Devices /\ r.op \in Minting /\ r.op \notin Visible
    BY <1>3 DEF Minting, Visible
  <2>2. c = [b EXCEPT !.link[r.dev] = r.token]
    BY <1>3 DEF Effect
  <2>3. c \in Backends /\ c.link = [b.link EXCEPT ![r.dev] = r.token] /\ c.minted = b.minted
        /\ c.status = b.status /\ c.mode = b.mode /\ c.cats = b.cats
    BY <2>1, <2>2
  <2> QED
    BY <1>3, <2>1, <2>3 DEF Carried
<1>4. CASE r.op = "device_name"
  <2>1. r.dev \in Devices /\ r.op \in Minting /\ r.op \in Visible
    BY <1>4 DEF Minting, Visible
  <2>2. c = [b EXCEPT !.status[r.dev] = "active", !.link[r.dev] = r.token]
    BY <1>4 DEF Effect
  <2>3. /\ c.link = [b.link EXCEPT ![r.dev] = r.token] /\ c.minted = b.minted
        /\ c.status = [b.status EXCEPT ![r.dev] = "active"]
        /\ c.mode = b.mode /\ c.cats = b.cats /\ c.registered = b.registered
    BY <2>2
  <2>4. c.link \in [Devices -> Nat] /\ c.status \in [Devices -> Statuses]
    BY <2>1, <2>3 DEF Statuses
  <2>5. c \in Backends
    BY <2>2, <2>3, <2>4
  <2> QED
    BY <1>4, <2>1, <2>3, <2>5 DEF Carried
<1>5. CASE r.op = "smart:mode"
  <2>1. c = [b EXCEPT !.mode = r.arg] /\ r.arg \in Modes /\ r.op \notin Minting /\ r.op \in Visible
    BY <1>5 DEF Effect, Minting, Visible
  <2> QED
    BY <1>5, <2>1 DEF Carried
<1>6. CASE r.op = "smart:cat"
  <2>1. PICK s \in SUBSET Categories : c = [b EXCEPT !.cats = s]
    BY <1>6 DEF Effect
  <2> QED
    BY <1>6, <2>1 DEF Carried, Minting, Visible
<1>7. CASE r.op \notin {"start", "device:disable", "device:enable", "device:revoke",
                        "device:sublink:rotate", "device_name", "smart:mode", "smart:cat"}
  <2>1. c = b
    BY <1>7 DEF Effect
  <2> QED
    BY <1>7, <2>1 DEF Carried, Minting, Visible
<1> QED
    BY <1>1, <1>2, <1>3, <1>4, <1>5, <1>6, <1>7

(* A token the backend handed out is the greatest so far. *)
LEMMA MintedFacts ==
    ASSUME NEW b \in Backends, NEW r \in RequestRecords
    PROVE  LET c == Minted(b, r) IN
           /\ c \in Backends /\ c.status = b.status /\ c.mode = b.mode /\ c.cats = b.cats
           /\ c.link = b.link
           /\ c.minted = IF r.token > b.minted THEN r.token ELSE b.minted
    BY DEF Minted, Backends, RequestRecords

(* The same of a request that commits before it is answered. *)
LEMMA AnsweredFacts ==
    ASSUME NEW b \in Backends, NEW r \in RequestRecords, LateOK(r)
    PROVE  LET c == Minted(Effect(b, r), r) IN
           /\ Carried(b, c, r)
           /\ c.minted = IF r.token > b.minted THEN r.token ELSE b.minted
<1>1. Carried(b, Effect(b, r), r) /\ Effect(b, r).minted = b.minted
    BY EffectFacts
<1>2. Effect(b, r) \in Backends
    BY <1>1 DEF Carried
<1> QED
    BY <1>1, <1>2, MintedFacts DEF Carried

(* A screen is one of what it shows, and shows what the backend holds.     *)
LEMMA ScreenFacts ==
    ASSUME NEW b \in Backends, NEW k \in ScreenKinds, NEW d \in Devices \cup {None},
           k \in {"manage", "link"} => d \in Devices
    PROVE  LET s == Screen(k, d, b) IN
           /\ s \in Screens /\ MessageOK(s)
           /\ Screen(s.kind, s.dev, b) = s
           /\ s.kind = "manage" => s.dev \in Devices /\ s.status = b.status[s.dev]
<1> DEFINE s == Screen(k, d, b)
<1> DEFINE Form(kind, dev, devs, status, mode, cats) ==
             [kind |-> kind, dev |-> dev, devs |-> devs, status |-> status, mode |-> mode,
              cats |-> cats]
<1>1. /\ b.status \in [Devices -> Statuses] /\ b.mode \in Modes /\ b.cats \in SUBSET Categories
      /\ "none" \in Statuses /\ "full_vpn" \in Modes
    BY DEF Backends, Statuses, Modes
<1>2. CASE k = "devices"
  <2>1. PICK ds \in SUBSET Devices : s = Form(k, None, ds, "none", "full_vpn", {})
    BY <1>2 DEF Screen, Blank
  <2>2. s \in Screens
    BY <1>1, <1>2, <2>1 DEF Screens, ScreenKinds
  <2> QED
    BY <1>2, <2>1, <2>2 DEF MessageOK, Screen
<1>3. CASE k = "manage" /\ b.status[d] = "none"
  <2>1. s = Form("missing", None, {}, "none", "full_vpn", {})
    BY <1>3 DEF Screen, Blank
  <2>2. s \in Screens
    BY <1>1, <2>1 DEF Screens, ScreenKinds
  <2> QED
    BY <1>3, <2>1, <2>2 DEF MessageOK, Screen, Blank
<1>4. CASE k = "manage" /\ b.status[d] # "none"
  <2>1. s = Form(k, d, {}, b.status[d], "full_vpn", {})
    BY <1>4 DEF Screen, Blank
  <2>2. s \in Screens
    BY <1>1, <1>4, <2>1 DEF Screens, ScreenKinds
  <2> QED
    BY <1>4, <2>1, <2>2 DEF MessageOK, Screen
<1>5. CASE k = "link"
  <2>1. s = Form(k, d, {}, "none", "full_vpn", {})
    BY <1>5 DEF Screen, Blank
  <2>2. s \in Screens
    BY <1>1, <1>5, <2>1 DEF Screens, ScreenKinds
  <2> QED
    BY <1>5, <2>1, <2>2 DEF MessageOK, Screen
<1>6. CASE k = "smart"
  <2>1. s = Form(k, None, {}, "none", b.mode, {})
    BY <1>6 DEF Screen, Blank
  <2>2. s \in Screens
    BY <1>1, <1>6, <2>1 DEF Screens, ScreenKinds
  <2> QED
    BY <1>6, <2>1, <2>2 DEF MessageOK, Screen
<1>7. CASE k = "categories"
  <2>1. s = Form(k, None, {}, "none", "full_vpn", b.cats)
    BY <1>7 DEF Screen, Blank
  <2>2. s \in Screens
    BY <1>1, <1>7, <2>1 DEF Screens, ScreenKinds
  <2> QED
    BY <1>7, <2>1, <2>2 DEF MessageOK, Screen
<1>8. CASE k \notin {"devices", "manage", "link", "smart", "categories"}
  <2>1. s = Form(k, None, {}, "none", "full_vpn", {})
    BY <1>8 DEF Screen, Blank
  <2>2. s \in Screens
    BY <1>1, <1>8, <2>1 DEF Screens
  <2> QED
    BY <1>8, <2>1, <2>2 DEF MessageOK, Screen
<1> QED
    BY <1>2, <1>3, <1>4, <1>5, <1>6, <1>7, <1>8

(* Screens read the devices' status, the mode and the categories only. *)
LEMMA ScreenSame ==
    ASSUME NEW b, NEW c, NEW k, NEW d,
           c.status = b.status, c.mode = b.mode, c.cats = b.cats
    PROVE  Screen(k, d, c) = Screen(k, d, b)
    BY DEF Screen

(* What a button may say: an argument of its kind, and to enable or disable *)
(* a device only on its management screen, if it is disabled or active.    *)
LEMMA KeyboardFacts ==
    ASSUME NEW s \in Screens, MessageOK(s), NEW b \in Keyboard(s)
    PROVE  /\ b = Button(b.act, b.arg)
           /\ b.act \in Acts \ Prompts /\ b.arg \in Args /\ ArgOK(b.act, b.arg)
           /\ b.act \in {"device:disable", "device:enable"} =>
                s.kind = "manage" /\ b.arg = s.dev /\ s.status \in {"active", "disabled"}
<1> USE DEF Screens, MessageOK, Button, Acts, Args, ArgOK, Prompts, Menus, DeviceActs, Protocols,
            Modes
<1>1. CASE s.kind \in {"main", "text", "protocols"}
    BY <1>1 DEF Keyboard, MainMenu, BackToMain, ProtocolChoice
<1>2. CASE s.kind \in {"devices", "missing"}
    BY <1>2 DEF Keyboard, DevicesKeyboard, BackToMain
<1>3. CASE s.kind = "manage"
  <2>1. \/ b \in {Button("device:sublink:view", s.dev), Button("device:revoke", s.dev),
                  Button("menu:devices", None), Button("device:reissue", s.dev)}
        \/ s.status = "active" /\ b = Button("device:disable", s.dev)
        \/ s.status = "disabled" /\ b = Button("device:enable", s.dev)
    BY <1>3 DEF Keyboard, DeviceManage
  <2> QED
    BY <1>3, <2>1
<1>4. CASE s.kind = "link"
    BY <1>4 DEF Keyboard, SubscriptionLink
<1>5. CASE s.kind = "plans"
    BY <1>5 DEF Keyboard, PlansKeyboard, BackToMain
<1>6. CASE s.kind = "servers"
    BY <1>6 DEF Keyboard, ServersKeyboard, BackToMain
<1>7. CASE s.kind = "smart"
    BY <1>7 DEF Keyboard, SmartMode, BackToMain
<1>8. CASE s.kind = "categories"
    BY <1>8 DEF Keyboard, CategoriesKeyboard
<1>9. CASE s.kind \notin {"main", "text", "protocols", "devices", "missing", "manage", "link",
                          "plans", "servers", "smart", "categories"}
    BY <1>9 DEF Keyboard
<1> QED
    BY <1>1, <1>2, <1>3, <1>4, <1>5, <1>6, <1>7, <1>8, <1>9

(* The request the backend makes of the one sent. *)
LEMMA AcceptedFacts ==
    ASSUME Typed, RunInv, run.pc = "call", NEW r \in Accepted(Request)
    PROVE  /\ r \in RequestRecords /\ LateOK(r)
           /\ r.op = run.op /\ r.arg = run.arg /\ r.opt = run.opt
           /\ IF run.op \in Minting THEN r.token = be.minted + 1 ELSE r.token = 0 /\ r.dev = None
           /\ run.op = "device_name" => /\ r.dev \in Devices \ Reserved
                                        /\ be.status[r.dev] = "none"
           /\ run.op = "device:sublink:rotate" => r.dev = run.arg
           /\ ArgOK(run.op, run.arg)
           /\ r.arg \in Devices => be.status[r.arg] # "none"
<1> DEFINE q == Request
<1>0. /\ run \in Runs /\ be \in Backends /\ RunOK(run) /\ UpdateOK(run.upd)
      /\ run.op \in Sending /\ run.dev = None /\ run.token = 0
    BY DEF Typed, RunInv, RunOK
<1>1. /\ q \in RequestRecords /\ q.op = run.op /\ q.arg = run.arg /\ q.opt = run.opt
      /\ q.dev = None /\ q.token = 0
    BY <1>0 DEF Request, RequestRecords, Runs
<1>2. ArgOK(run.op, run.arg)
  <2>1. CASE run.upd.kind = "text"
    <3>1. run.op \in Prompts
      BY <1>0, <2>1 DEF RunOK, Order, Prompts
    <3> QED
      BY <3>1 DEF Prompts, ArgOK, DeviceActs
  <2>2. CASE run.upd.kind # "text"
      BY <1>0, <2>2 DEF RunOK, UpdateOK
  <2> QED
      BY <2>1, <2>2
<1>a. run.arg \in Devices => be.status[run.arg] # "none"
  <2>1. Accepted(q) # {}
    OBVIOUS
  <2> QED
    BY <1>1, <2>1 DEF Accepted
<1>3. CASE run.op = "device_name"
  <2>1. PICK d \in Free(q.opt) : r = [q EXCEPT !.dev = d, !.token = be.minted + 1]
    BY <1>1, <1>3 DEF Accepted
  <2>2. d \in Devices \ Reserved /\ be.status[d] = "none"
    BY <2>1 DEF Free
  <2>3. /\ r.op = q.op /\ r.arg = q.arg /\ r.opt = q.opt /\ r.dev = d /\ r.token = be.minted + 1
        /\ r \in RequestRecords
    <3>1. be.minted + 1 \in Nat
      BY <1>0 DEF Backends
    <3> HIDE DEF q
    <3> QED
      BY <3>1, <1>1, <2>1, <2>2 DEF RequestRecords
  <2> QED
    BY <1>0, <1>1, <1>2, <1>a, <1>3, <2>2, <2>3 DEF LateOK, Minting
<1>4. CASE run.op = "device:sublink:rotate"
  <2>1. r = [q EXCEPT !.dev = q.arg, !.token = be.minted + 1]
    BY <1>1, <1>4 DEF Accepted
  <2>2. q.arg \in Devices
    BY <1>1, <1>2, <1>4 DEF ArgOK, DeviceActs
  <2>3. /\ r.op = q.op /\ r.arg = q.arg /\ r.opt = q.opt /\ r.dev = q.arg
        /\ r.token = be.minted + 1 /\ r \in RequestRecords
    <3>1. be.minted + 1 \in Nat
      BY <1>0 DEF Backends
    <3> HIDE DEF q
    <3> QED
      BY <3>1, <1>1, <2>1, <2>2 DEF RequestRecords
  <2> QED
    BY <1>0, <1>1, <1>2, <1>a, <1>4, <2>2, <2>3 DEF LateOK, Minting
<1>5. CASE run.op \notin Minting
  <2>1. r = q
    BY <1>1, <1>5 DEF Accepted, Minting
  <2> QED
    BY <1>0, <1>1, <1>2, <1>a, <1>5, <2>1 DEF LateOK, Minting
<1> QED
    BY <1>3, <1>4, <1>5 DEF Minting

(* A handler that is done returns to the text groups or to the chat.       *)
LEMMA ReturnFacts ==
    ASSUME Typed, RunInv, run.pc \in {"call", "show"}, run' = Return
    PROVE  /\ run' \in Runs /\ RunOK(run') /\ run'.token = 0 /\ run'.dev = None
           /\ IF run.upd.kind = "text"
              THEN /\ run'.pc = "groups" /\ run'.upd = run.upd
                   /\ run.group \in 1 .. 3 /\ run'.group = run.group + 1
              ELSE run' = Idle
           /\ Idle \in Runs /\ NoUpdate \in Updates /\ RunOK(Idle)
<1>0. run \in Runs /\ RunOK(run) /\ UpdateOK(run.upd) /\ run.upd \in Updates
    BY DEF Typed, RunInv, RunOK, Runs
<1>1. NoUpdate \in Updates /\ UpdateOK(NoUpdate)
    BY DEF NoUpdate, Updates, Acts, Args, UpdateOK, ArgOK, DeviceActs, Prompts
<1>2. Idle \in Runs /\ Idle.upd = NoUpdate /\ Idle.pc = "idle" /\ Idle.token = 0
      /\ Idle.dev = None
    BY <1>1 DEF Idle, Runs, Acts, Args
<1>3. RunOK(Idle)
    BY <1>1, <1>2 DEF RunOK
<1>4. CASE run.upd.kind = "text"
  <2>1. run.group \in 1 .. 3
    BY <1>0, <1>4 DEF RunOK
  <2>2. run' = [run EXCEPT !.pc = "groups", !.op = "none", !.group = run.group + 1,
                           !.dev = None, !.token = 0]
    BY <1>4 DEF Return
  <2>3. /\ run' \in Runs /\ run'.pc = "groups" /\ run'.upd = run.upd /\ run'.group = run.group + 1
        /\ run'.dev = None /\ run'.token = 0 /\ run'.op = "none"
    <3>1. PICK g \in 0 .. 4, a \in Acts : g = run.group + 1 /\ a = "none"
      BY <2>1 DEF Acts
    <3>2. run' = [run EXCEPT !.pc = "groups", !.op = a, !.group = g, !.dev = None, !.token = 0]
      BY <2>2, <3>1
    <3>3. run' \in Runs
      <4>1. [run EXCEPT !.pc = "groups", !.op = a, !.group = g, !.dev = None, !.token = 0]
              \in Runs
        BY <1>0, <3>1 DEF Runs
      <4> QED
        BY <3>2, <4>1
    <3>4. /\ run'.pc = "groups" /\ run'.upd = run.upd /\ run'.group = g /\ run'.op = a
          /\ run'.dev = None /\ run'.token = 0
      BY <1>0, <3>2 DEF Runs
    <3> QED
      BY <3>1, <3>3, <3>4
  <2>4. RunOK(run')
    BY <1>0, <1>4, <2>1, <2>3 DEF RunOK
  <2> QED
    BY <1>1, <1>2, <1>3, <1>4, <2>1, <2>3, <2>4
<1>5. CASE run.upd.kind # "text"
    BY <1>1, <1>2, <1>3, <1>5 DEF Return
<1> QED
    BY <1>4, <1>5

-----------------------------------------------------------------------------
(* The invariant holds at first. *)

THEOREM Initially == Init => BotInv
<1> SUFFICES ASSUME Init PROVE BotInv
    OBVIOUS
<1> USE BotAssumption
<1>1. NoUpdate \in Updates /\ UpdateOK(NoUpdate) /\ NoUpdate.act = "none" /\ NoUpdate.kind = "none"
    BY DEF NoUpdate, Updates, Acts, Args, UpdateOK, ArgOK, DeviceActs, Prompts
<1>2. /\ Idle \in Runs /\ Idle.upd = NoUpdate /\ Idle.pc = "idle" /\ Idle.token = 0
      /\ Idle.dev = None /\ RunOK(Idle)
    BY <1>1 DEF Idle, Runs, Acts, Args, RunOK
<1>3. /\ run = Idle /\ again = NoUpdate /\ late = {} /\ awaiting = {} /\ updates = 0 /\ faults = 0
      /\ pending = <<None, "wireguard">> /\ asked = pending /\ due = "none" /\ outdated = {}
      /\ last = None /\ unsure = {} /\ sent = [k \in Prompts \cup {"plan:buy"} |-> 0]
    BY DEF Init
<1>4. PICK owned \in SUBSET Devices :
        /\ be.registered \in BOOLEAN /\ be.mode = "full_vpn" /\ be.cats = {} /\ be.minted = 1
        /\ be.status = [d \in Devices |-> IF d \in owned THEN "active" ELSE "none"]
        /\ be.link = [d \in Devices |-> IF d \in owned THEN 1 ELSE 0]
        /\ link = be.link
        /\ be \in Backends
    BY DEF Init, Backends, Modes, Statuses
<1>5. \A m \in Messages : msg[m] \in Screens /\ msg[m].kind \notin {"manage", "link"}
  <2>1. Blank \in Screens /\ Blank.kind = "none"
    BY DEF Blank, Screens, Statuses, Modes
  <2>2. \A k \in {"devices", "protocols", "servers"} :
          Screen(k, None, be) \in Screens /\ Screen(k, None, be).kind = k
    <3> TAKE k \in {"devices", "protocols", "servers"}
    <3>1. k \in ScreenKinds /\ k \notin {"manage", "link"}
      BY DEF ScreenKinds
    <3>2. Screen(k, None, be) \in Screens
      BY <1>4, <3>1, ScreenFacts
    <3> QED
      BY <3>2 DEF Screen, Blank
  <2>3. \A m \in Messages : msg[m] = Blank
          \/ \E k \in {"devices", "protocols", "servers"} : msg[m] = Screen(k, None, be)
    BY DEF Init
  <2> QED
    BY <2>1, <2>2, <2>3
<1>6. msg \in [Messages -> Screens]
    BY <1>5 DEF Init
<1>7. Typed
  <2>1. pending \in Choices
    BY <1>3 DEF Choices
  <2>2. sent \in [Prompts \cup {"plan:buy"} -> 0 .. 2]
    BY <1>3
  <2>3. link \in [Devices -> Nat]
    BY <1>4 DEF Backends
  <2> QED
    BY <1>1, <1>2, <1>3, <1>4, <1>6, <2>1, <2>2, <2>3 DEF Typed
<1>8. RunInv /\ ScreenInv
    BY <1>1, <1>2, <1>3, <1>5 DEF RunInv, ScreenInv, MessageOK
<1>9. MintInv
    BY <1>2, <1>3, <1>4 DEF MintInv, MayMint
<1>10. PromptInv
    BY <1>1, <1>2, <1>3 DEF PromptInv, Renews, PromptOf, Prompts
<1>11. AskedInv /\ DueInv /\ ShownInv
    BY <1>1, <1>2, <1>3 DEF AskedInv, DueInv, ShownInv, CreatesWhatWasAsked, ChosenBy
<1>12. RevokedInv /\ LinkInv
    BY <1>1, <1>2, <1>3, <1>4, <1>5 DEF RevokedInv, LinkInv, Old, Reserved
<1> QED
    BY <1>7, <1>8, <1>9, <1>10, <1>11, <1>12 DEF BotInv

-----------------------------------------------------------------------------
(* An update reaches its handler.                                          *)

LEMMA HandleFacts ==
    ASSUME BotInv, NEW u \in Updates, UpdateOK(u), Handle(u)
    PROVE  /\ run = Idle /\ Idle.pc = "idle" /\ Idle.token = 0
           /\ run' \in Runs /\ RunOK(run') /\ run'.upd = u /\ run'.op = u.act
           /\ run'.dev = None /\ run'.token = 0 /\ run'.group = 1
           /\ run'.pc = FirstStep(u)
           /\ u.act \notin Prompts
           /\ run'.pc # "groups" => u.kind # "text"
           /\ run'.pc = "groups" => u.kind = "text" /\ u.act = "none"
           /\ run'.pc = "show" => u.act \notin Visible
           /\ awaiting' \subseteq Prompts /\ pending' \in Choices
<1>1. /\ run.pc = "idle" /\ run = Idle
    BY DEF BotInv, RunInv, RunOK, Handle
<1>2. Idle.pc = "idle" /\ Idle.token = 0 /\ Idle.opt = "none" /\ Idle.dev = None
      /\ Idle.group = 1 - 1
    BY DEF Idle
<1>3. FirstStep(u) \in {"groups", "read", "call", "show"}
    BY DEF FirstStep
<1>4. PICK x \in Runs :
        /\ x = [Idle EXCEPT !.pc = FirstStep(u), !.upd = u, !.op = u.act, !.arg = u.arg,
                            !.group = 1]
        /\ x.upd = u /\ x.op = u.act /\ x.arg = u.arg /\ x.pc = FirstStep(u) /\ x.group = 1
        /\ x.dev = None /\ x.token = 0
  <2> DEFINE x == [Idle EXCEPT !.pc = FirstStep(u), !.upd = u, !.op = u.act, !.arg = u.arg,
                               !.group = 1]
  <2>1. Idle \in Runs
    BY <1>1 DEF BotInv, Typed
  <2>2. u.act \in Acts /\ u.arg \in Args
    BY DEF Updates
  <2>3. x \in Runs
    <3>1. PICK i \in Runs, p \in {"groups", "read", "call", "show"}, o \in Acts, a \in Args :
                 i = Idle /\ p = FirstStep(u) /\ o = u.act /\ a = u.arg
      BY <1>3, <2>1, <2>2
    <3>2. PICK j \in Runs : j = [i EXCEPT !.pc = p, !.upd = u]
      BY DEF Runs
    <3>3. [j EXCEPT !.op = o, !.arg = a] \in Runs
      BY DEF Runs
    <3>4. PICK k \in Runs : k = [j EXCEPT !.op = o, !.arg = a]
      BY <3>3
    <3>5. [k EXCEPT !.group = 1] \in Runs
      BY DEF Runs
    <3> QED
      BY <3>1, <3>2, <3>4, <3>5
  <2>4. /\ x.upd = u /\ x.op = u.act /\ x.arg = u.arg /\ x.pc = FirstStep(u) /\ x.group = 1
        /\ x.dev = Idle.dev /\ x.token = Idle.token
    BY <2>1 DEF Runs
  <2> QED
    BY <1>2, <2>3, <2>4
<1>5. run' = x
    BY <1>4 DEF Handle
<1>6. u.act \notin Prompts /\ (u.kind = "text" => u.act = "none")
    BY DEF UpdateOK
<1>7. /\ x.pc # "groups" => u.kind # "text"
      /\ x.pc = "groups" => u.kind = "text"
      /\ x.pc = "show" => u.act \notin Visible
      /\ x.pc = "read" => u.act = "smart:cat"
      /\ x.pc = "call" => u.act \in Mutating
    BY <1>4, <1>6 DEF FirstStep, Visible, Mutating, Prompts
<1>8. RunOK(x)
  <2>1. /\ x.pc # "idle"
    BY <1>3, <1>4
  <2>2. x.pc = "show" => x.op # "device:sublink:rotate" /\ x.op # "device_name"
    BY <1>4, <1>6, <1>7 DEF FirstStep, Mutating, Prompts
  <2> QED
    BY <1>4, <1>6, <1>7, <2>1, <2>2 DEF RunOK, Sending
<1>9. awaiting' \subseteq Prompts
  <2>1. PromptOf(u.act) \in Prompts \cup {"none"}
    BY DEF PromptOf, Prompts
  <2> QED
    BY <2>1 DEF Handle, BotInv, Typed
<1>10. pending' \in Choices
  <2>1. /\ u.act = "device:new:server" => u.arg \in Servers
        /\ u.act = "device:new:proto" => u.arg \in Protocols
    BY DEF UpdateOK, ArgOK
  <2>2. pending' = Choice(u) /\ pending \in Choices
    BY DEF Handle, BotInv, Typed
  <2> QED
    BY <2>1, <2>2 DEF Choice, Choices, Protocols
<1> QED
    BY <1>1, <1>2, <1>4, <1>5, <1>6, <1>7, <1>8, <1>9, <1>10

(* What a handler's first step leaves of the invariant, whether the update *)
(* is new or comes again.                                                  *)
LEMMA HandleStep ==
    ASSUME BotInv, NEW u \in Updates, UpdateOK(u), Old(u), Handle(u), again' = NoUpdate,
           outdated' = outdated
    PROVE  /\ RunInv' /\ ScreenInv' /\ DueInv' /\ ShownInv' /\ RevokedInv' /\ LinkInv'
           /\ \A k \in awaiting' : k \in awaiting \/ Renews(u, k)
<1>1. /\ be' = be /\ late' = late /\ msg' = msg /\ faults' = faults /\ due' = due
      /\ last' = last /\ link' = link /\ unsure' = unsure
      /\ awaiting' = awaiting \cup ({PromptOf(u.act)} \ {"none"})
    BY DEF Handle
<1>2. /\ run = Idle /\ Idle.pc = "idle" /\ Idle.token = 0
      /\ RunOK(run') /\ run'.upd = u /\ run'.op = u.act /\ run'.token = 0 /\ run'.group = 1
      /\ run'.pc = "show" => u.act \notin Visible
      /\ u.kind = "text" => run'.pc = "groups" /\ u.act = "none"
    BY HandleFacts
<1>3. NoUpdate.act = "none" /\ NoUpdate.kind = "none" /\ UpdateOK(NoUpdate)
    BY DEF NoUpdate, UpdateOK, ArgOK, DeviceActs, Prompts
<1>4. RunInv'
    BY <1>2, <1>3 DEF RunInv
<1>5. ScreenInv' /\ ShownInv'
    BY <1>1, <1>2 DEF BotInv, ScreenInv, ShownInv
<1>6. \A k \in awaiting' : k \in awaiting \/ Renews(u, k)
    BY <1>1 DEF Renews
<1>7. DueInv'
  <2>1. PromptOf("none") = "none"
    BY DEF PromptOf
  <2>2. due # "none" => \E g \in 1 .. 3 : Order[g] = due
    BY DEF BotInv, Typed, Order, Prompts
  <2>3. due # "none" => due \in awaiting
    BY DEF BotInv, DueInv
  <2>4. u.kind = "text" /\ due' # "none" =>
          \E g \in 1 .. 3 : Order[g] = due' /\ run'.pc = "groups" /\ run'.group <= g
    BY <1>1, <1>2, <2>2
  <2> QED
    BY <1>1, <1>2, <2>1, <2>3, <2>4 DEF DueInv
<1>8. RevokedInv'
  <2>1. Old(NoUpdate)'
    BY <1>3 DEF Old
  <2>2. Old(u)'
    BY <1>1 DEF Old
  <2> QED
    BY <1>1, <1>2, <2>1, <2>2 DEF BotInv, RevokedInv
<1>9. LinkInv'
    BY <1>1, <1>2 DEF BotInv, LinkInv, Reserved
<1> QED
    BY <1>4, <1>5, <1>6, <1>7, <1>8, <1>9

LEMMA ReceiveStep ==
    ASSUME BotInv, NEW u \in Updates, UpdateOK(u), Old(u), Receive(u)
    PROVE  BotInv'
<1> USE BotAssumption
<1>1. /\ Handle(u) /\ again = NoUpdate /\ again' = NoUpdate /\ updates < MaxUpdates
      /\ updates' = updates + 1
      /\ sent' = [k \in DOMAIN sent |-> IF k \in {PromptOf(u.act), u.act} THEN 0 ELSE sent[k]]
      /\ asked' = ChosenBy(u) /\ pending' = Choice(u)
      /\ awaiting' = awaiting \cup ({PromptOf(u.act)} \ {"none"})
      /\ be' = be /\ late' = late /\ msg' = msg /\ faults' = faults /\ due' = due
      /\ outdated' = outdated /\ last' = last /\ link' = link /\ unsure' = unsure
    BY DEF Receive, Handle, ChosenBy
<1>2. /\ RunInv' /\ ScreenInv' /\ DueInv' /\ ShownInv' /\ RevokedInv' /\ LinkInv'
      /\ \A k \in awaiting' : k \in awaiting \/ Renews(u, k)
    BY <1>1, HandleStep
<1>3. /\ run = Idle /\ Idle.pc = "idle"
      /\ run' \in Runs /\ RunOK(run') /\ run'.upd = u /\ run'.op = u.act
      /\ u.act \notin Prompts
      /\ run'.pc = "groups" => u.act = "none"
      /\ awaiting' \subseteq Prompts /\ pending' \in Choices
    BY <1>1, HandleFacts
<1>4. Typed
    BY DEF BotInv
<1>5. Typed'
  <2>1. updates' \in 0 .. MaxUpdates
    BY <1>1, <1>4 DEF Typed
  <2>2. DOMAIN sent = Prompts \cup {"plan:buy"} /\ sent \in [Prompts \cup {"plan:buy"} -> 0 .. 2]
    BY <1>4 DEF Typed
  <2>3. sent' \in [Prompts \cup {"plan:buy"} -> 0 .. 2]
    BY <1>1, <2>2
  <2>4. asked' \in Choices
    <3>1. /\ u.act = "device:new:server" => u.arg \in Servers
          /\ u.act = "device:new:proto" => u.arg \in Protocols
      BY DEF UpdateOK, ArgOK
    <3> QED
      BY <1>1, <1>4, <3>1 DEF ChosenBy, Choices, Protocols, Typed
  <2> QED
    BY <1>1, <1>3, <1>4, <2>1, <2>3, <2>4 DEF Typed
<1>6. MintInv'
  <2>1. ~MayMint
    BY <1>3 DEF MayMint
  <2>2. be.minted + 0 + 0 <= 1 + updates + faults
    BY <1>1, <2>1 DEF BotInv, MintInv
  <2>3. be.minted \in Nat /\ updates \in Nat /\ faults \in Nat
    BY <1>4 DEF Typed, Backends
  <2>4. be.minted + 1 + 0 <= 1 + (updates + 1) + faults
    BY <2>2, <2>3
  <2>5. be'.minted + (IF MayMint' THEN 1 ELSE 0) + (IF again' # NoUpdate THEN 1 ELSE 0)
          <= 1 + updates' + faults'
    BY <1>1, <2>2, <2>3, <2>4
  <2> QED
    BY <1>1, <2>5 DEF BotInv, MintInv
<1>7. PromptInv'
  <2>1. DOMAIN sent = Prompts \cup {"plan:buy"} /\ sent \in [Prompts \cup {"plan:buy"} -> 0 .. 2]
    BY <1>4 DEF Typed
  <2>2. \A k \in Prompts \cup {"plan:buy"} :
          sent'[k] = IF k = PromptOf(u.act) \/ k = u.act THEN 0 ELSE sent[k]
    BY <1>1, <2>1
  <2>3. \A k \in Prompts : sent'[k] = IF k = PromptOf(u.act) THEN 0 ELSE sent[k]
    BY <1>3, <2>2
  <2>4. \A k \in Prompts : ~Renews(NoUpdate, k) /\ (Renews(u, k) => k = PromptOf(u.act))
    BY DEF Renews, NoUpdate, PromptOf, Prompts
  <2>5. \A k \in Prompts : /\ sent'[k] <= 1
                           /\ k \in awaiting' \/ Renews(u, k) \/ Renews(NoUpdate, k) => sent'[k] = 0
    <3> TAKE k \in Prompts
    <3>1. sent[k] <= 1 /\ (k \in awaiting => sent[k] = 0)
      BY DEF BotInv, PromptInv
    <3> QED
      BY <1>2, <2>3, <2>4, <3>1
  <2>6. "plan:buy" # PromptOf(u.act)
    BY DEF PromptOf
  <2>7. faults = 0 => /\ sent'["plan:buy"] <= 1
                      /\ run'.op = "plan:buy" => sent'["plan:buy"] = 0
    BY <1>3, <2>2, <2>6 DEF BotInv, PromptInv
  <2> QED
    BY <1>1, <1>3, <2>5, <2>7 DEF PromptInv
<1>8. AskedInv'
  <2>1. ChosenBy(NoUpdate)' = asked'
    BY DEF ChosenBy, NoUpdate
  <2>2. ChosenBy(u)' = asked'
    BY <1>1 DEF ChosenBy
  <2>3. "device_name" \in awaiting' => pending' = asked'
    <3>1. CASE u.act \in {"device:new:server", "device:new:proto"}
      BY <1>1, <3>1 DEF Choice, ChosenBy
    <3>2. CASE u.act \notin {"device:new:server", "device:new:proto"}
      <4>1. pending' = pending /\ asked' = asked
        BY <1>1, <3>2 DEF Choice, ChosenBy
      <4>2. PromptOf(u.act) # "device_name"
        BY <3>2 DEF PromptOf
      <4> QED
        BY <1>1, <4>1, <4>2 DEF BotInv, AskedInv
    <3> QED
      BY <3>1, <3>2
  <2>4. run'.op # "device_name"
    BY <1>3 DEF Prompts
  <2> QED
    BY <1>1, <1>3, <2>1, <2>2, <2>3, <2>4 DEF AskedInv, CreatesWhatWasAsked
<1> QED
    BY <1>2, <1>5, <1>6, <1>7, <1>8 DEF BotInv

LEMMA RedeliverStep ==
    ASSUME BotInv, Redeliver
    PROVE  BotInv'
<1> USE BotAssumption
<1>0. PICK u \in Updates : u = again
    BY DEF BotInv, Typed
<1>u. UpdateOK(u) /\ Old(u) /\ Typed
    BY <1>0 DEF BotInv, RunInv, RevokedInv
<1>1. /\ Handle(u) /\ again # NoUpdate /\ again' = NoUpdate
      /\ updates' = updates /\ sent' = sent /\ asked' = asked /\ pending' = Choice(u)
      /\ awaiting' = awaiting \cup ({PromptOf(u.act)} \ {"none"})
      /\ be' = be /\ late' = late /\ msg' = msg /\ faults' = faults /\ due' = due
      /\ outdated' = outdated /\ last' = last /\ link' = link /\ unsure' = unsure
    BY <1>0 DEF Redeliver, Handle
<1>2. /\ RunInv' /\ ScreenInv' /\ DueInv' /\ ShownInv' /\ RevokedInv' /\ LinkInv'
      /\ \A k \in awaiting' : k \in awaiting \/ Renews(u, k)
    BY <1>u, <1>1, HandleStep
<1>3. /\ run = Idle /\ Idle.pc = "idle"
      /\ run' \in Runs /\ RunOK(run') /\ run'.upd = u /\ run'.op = u.act
      /\ u.act \notin Prompts
      /\ awaiting' \subseteq Prompts /\ pending' \in Choices
    BY <1>u, <1>1, HandleFacts
<1>4. NoUpdate \in Updates
    BY DEF NoUpdate, Updates, Acts, Args
<1>5. Typed'
    BY <1>u, <1>1, <1>3, <1>4 DEF Typed
<1>6. MintInv'
  <2>1. ~MayMint
    BY <1>3 DEF MayMint
  <2>2. be.minted + 0 + 1 <= 1 + updates + faults
    BY <1>1, <2>1 DEF BotInv, MintInv
  <2>3. be.minted \in Nat /\ updates \in Nat /\ faults \in Nat
    BY <1>u DEF Typed, Backends
  <2>5. be'.minted + (IF MayMint' THEN 1 ELSE 0) + (IF again' # NoUpdate THEN 1 ELSE 0)
          <= 1 + updates' + faults'
    BY <1>1, <2>2, <2>3
  <2> QED
    BY <1>1, <2>5 DEF BotInv, MintInv
<1>7. PromptInv'
  <2>1. \A k \in Prompts : ~Renews(NoUpdate, k)
    BY DEF Renews, NoUpdate, PromptOf
  <2>2. \A k \in Prompts : sent[k] <= 1 /\ (k \in awaiting \/ Renews(u, k) => sent[k] = 0)
    BY <1>0 DEF BotInv, PromptInv
  <2>3. faults # 0
    BY <1>1 DEF BotInv, PromptInv
  <2> QED
    BY <1>1, <1>2, <1>3, <2>1, <2>2, <2>3 DEF PromptInv
<1>8. AskedInv'
  <2>1. ChosenBy(NoUpdate)' = asked'
    BY DEF ChosenBy, NoUpdate
  <2>2. ChosenBy(u) = asked
    BY <1>0 DEF BotInv, AskedInv
  <2>3. ChosenBy(u)' = asked'
    BY <1>1, <2>2 DEF ChosenBy
  <2>4. "device_name" \in awaiting' => pending' = asked'
    <3>1. CASE u.act \in {"device:new:server", "device:new:proto"}
      BY <1>1, <2>2, <3>1 DEF Choice, ChosenBy
    <3>2. CASE u.act \notin {"device:new:server", "device:new:proto"}
      <4>1. pending' = pending
        BY <1>1, <3>2 DEF Choice
      <4>2. PromptOf(u.act) # "device_name"
        BY <3>2 DEF PromptOf
      <4> QED
        BY <1>1, <4>1, <4>2 DEF BotInv, AskedInv
    <3> QED
      BY <3>1, <3>2
  <2>5. run'.op # "device_name"
    BY <1>3 DEF Prompts
  <2> QED
    BY <1>1, <1>3, <2>1, <2>3, <2>4, <2>5 DEF AskedInv, CreatesWhatWasAsked
<1> QED
    BY <1>2, <1>5, <1>6, <1>7, <1>8 DEF BotInv

LEMMA TapStep ==
    ASSUME BotInv, NEW m \in Messages, Tap(m)
    PROVE  BotInv'
<1>1. msg[m] \in Screens /\ MessageOK(msg[m])
    BY DEF BotInv, Typed, ScreenInv
<1>2. PICK b \in Keyboard(msg[m]) :
             Receive([kind |-> "tap", act |-> b.act, arg |-> b.arg, msg |-> m])
    BY DEF Tap
<1>3. /\ b.act \in Acts \ Prompts /\ b.arg \in Args /\ ArgOK(b.act, b.arg)
      /\ b.act \in {"device:disable", "device:enable"} =>
           msg[m].kind = "manage" /\ b.arg = msg[m].dev /\ msg[m].status \in {"active", "disabled"}
    BY <1>1, <1>2, KeyboardFacts
<1>4. PICK u \in Updates : u = [kind |-> "tap", act |-> b.act, arg |-> b.arg, msg |-> m]
    BY <1>3 DEF Updates
<1>5. u.kind = "tap" /\ u.act = b.act /\ u.arg = b.arg /\ u.msg = m
    BY <1>4
<1>6. UpdateOK(u)
    BY <1>3, <1>5 DEF UpdateOK
<1>7. Old(u)
    BY <1>3, <1>5 DEF Old, BotInv, RevokedInv
<1> QED
    BY <1>2, <1>4, <1>6, <1>7, ReceiveStep

LEMMA CommandStep ==
    ASSUME BotInv, NEW c \in Menus \cup {"start"}, Command(c)
    PROVE  BotInv'
<1>1. PICK n \in Updates : n = NoUpdate
    BY DEF NoUpdate, Updates, Acts, Args
<1>2. c \in Acts
    BY DEF Acts
<1>3. PICK u \in Updates : u = [n EXCEPT !.kind = "command", !.act = c]
    BY <1>2 DEF Updates
<1>4. Receive(u)
    BY <1>1, <1>3 DEF Command
<1>5. u.kind = "command" /\ u.act = c /\ c \notin DeviceActs \cup Prompts
      /\ c \notin {"smart:mode", "smart:cat", "device:new:server", "device:new:proto"}
    BY <1>3 DEF Menus, DeviceActs, Prompts, Updates
<1>6. UpdateOK(u)
    BY <1>5 DEF UpdateOK, ArgOK
<1>7. Old(u)
    BY <1>5 DEF Old, DeviceActs
<1> QED
    BY <1>4, <1>6, <1>7, ReceiveStep

LEMMA TextStep ==
    ASSUME BotInv, Text
    PROVE  BotInv'
<1>1. PICK u \in Updates : u = [kind |-> "text", act |-> "none", arg |-> None, msg |-> None]
    BY DEF Updates, Acts, Args
<1>2. Receive(u)
    BY <1>1 DEF Text, NoUpdate
<1>3. u.kind = "text" /\ u.act = "none"
    BY <1>1
<1>4. UpdateOK(u) /\ Old(u)
    BY <1>3 DEF UpdateOK, ArgOK, DeviceActs, Prompts, Old
<1> QED
    BY <1>2, <1>4, ReceiveStep

-----------------------------------------------------------------------------
(* The steps of a handler.                                                 *)

LEMMA IdleFacts ==
    /\ Idle.pc = "idle" /\ Idle.upd = NoUpdate /\ Idle.op = "none" /\ Idle.dev = None
    /\ Idle.token = 0 /\ NoUpdate.act = "none" /\ NoUpdate.kind = "none"
    /\ UpdateOK(NoUpdate) /\ NoUpdate \in Updates /\ Idle \in Runs /\ RunOK(Idle)
    /\ \A k \in Prompts : ~Renews(NoUpdate, k)
<1>1. NoUpdate \in Updates /\ UpdateOK(NoUpdate) /\ NoUpdate.act = "none" /\ NoUpdate.kind = "none"
    BY DEF NoUpdate, Updates, Acts, Args, UpdateOK, ArgOK, DeviceActs, Prompts
<1>2. /\ Idle \in Runs /\ Idle.upd = NoUpdate /\ Idle.pc = "idle" /\ Idle.token = 0
      /\ Idle.dev = None /\ RunOK(Idle) /\ Idle.op = "none"
    BY <1>1 DEF Idle, Runs, Acts, Args, RunOK
<1>3. \A k \in Prompts : ~Renews(NoUpdate, k)
    BY <1>1 DEF Renews, PromptOf
<1> QED
    BY <1>1, <1>2, <1>3

(* The next text handler: it lowers its flag and has a call to make, or    *)
(* no flag is left and the text is done.                                   *)
LEMMA TextGroupStep ==
    ASSUME BotInv, TextGroup
    PROVE  BotInv'
<1> USE BotAssumption
<1>1. /\ Typed /\ run \in Runs /\ RunOK(run) /\ run.pc = "groups" /\ run.upd.kind = "text"
      /\ run.group \in 1 .. 4 /\ again = NoUpdate /\ UpdateOK(run.upd) /\ run.upd.act = "none"
      /\ run.dev = None /\ run.token = 0
    BY DEF TextGroup, BotInv, RunInv, RunOK, Typed, UpdateOK
<1>2. /\ be' = be /\ late' = late /\ msg' = msg /\ again' = again /\ updates' = updates
      /\ faults' = faults /\ asked' = asked /\ outdated' = outdated /\ last' = last
      /\ link' = link /\ unsure' = unsure
    BY DEF TextGroup
<1>3. /\ ScreenInv'
      /\ \A m \in Messages \ outdated :
           msg'[m].kind = "manage" /\ be'.status[msg'[m].dev] = "revoked"
             => msg'[m].status = "revoked"
    BY <1>2 DEF BotInv, ScreenInv, RevokedInv
<1> DEFINE gs == {g \in run.group .. 3 : Order[g] \in awaiting}
<1>4. CASE gs = {}
  <2>1. run' = Idle /\ awaiting' = awaiting /\ pending' = pending /\ sent' = sent /\ due' = due
    BY <1>4 DEF TextGroup, Wants, userData
  <2>2. due = "none"
    <3>1. due # "none" => \E g \in 1 .. 3 : Order[g] = due /\ run.group <= g /\ due \in awaiting
      BY <1>1 DEF BotInv, DueInv
    <3> QED
      BY <1>1, <1>4, <3>1
  <2>3. Typed' /\ RunInv'
    BY <1>1, <1>2, <2>1, IdleFacts DEF Typed, RunInv
  <2>4. MintInv'
    <3>1. ~MayMint'
      BY <2>1, IdleFacts DEF MayMint
    <3>2. be.minted \in Nat
      BY <1>1 DEF Typed, Backends
    <3>3. be'.minted + 0 + 0 <= 1 + updates' + faults'
      BY <1>1, <1>2, <3>2 DEF BotInv, MintInv, Typed
    <3> QED
      BY <1>1, <1>2, <3>1, <3>3 DEF BotInv, MintInv
  <2>5. PromptInv'
    BY <1>1, <1>2, <2>1, IdleFacts DEF BotInv, PromptInv
  <2>6. AskedInv'
    <3>1. ChosenBy(NoUpdate)' = asked'
      BY IdleFacts DEF ChosenBy
    <3> QED
      BY <1>1, <1>2, <2>1, <3>1, IdleFacts DEF BotInv, AskedInv, CreatesWhatWasAsked
  <2>7. DueInv' /\ ShownInv'
    BY <1>1, <1>2, <2>1, <2>2, IdleFacts DEF BotInv, DueInv, ShownInv
  <2>8. RevokedInv'
    BY <1>1, <1>2, <1>3, <2>1, IdleFacts DEF RevokedInv, Old
  <2>9. LinkInv'
    BY <1>1, <1>2, <2>1, IdleFacts DEF BotInv, LinkInv, Reserved
  <2> QED
    BY <1>3, <2>3, <2>4, <2>5, <2>6, <2>7, <2>8, <2>9 DEF BotInv
<1>5. CASE gs # {}
  <2>1. PICK g \in gs :
          /\ \A h \in gs : g <= h
          /\ awaiting' = awaiting \ {Order[g]}
          /\ pending' = IF Order[g] = "device_name" THEN <<None, "wireguard">> ELSE pending
          /\ run' = [run EXCEPT !.pc = "call", !.group = g, !.op = Order[g],
                           !.arg = IF Order[g] = "device_name" THEN pending[1] ELSE None,
                           !.opt = IF Order[g] = "device_name" THEN pending[2] ELSE "none"]
          /\ sent' = [sent EXCEPT ![Order[g]] = IF @ = 2 THEN 2 ELSE @ + 1]
          /\ due' = IF due = Order[g] THEN "none" ELSE due
    BY <1>5 DEF TextGroup, Wants, Reset
  <2> DEFINE k == Order[g]
  <2>2. /\ g \in 1 .. 3 /\ run.group <= g /\ k \in awaiting /\ k \in Prompts
        /\ (k = "device_name" => g = 1) /\ k # "none" /\ k # "plan:buy"
    BY <1>1 DEF Order, Prompts, Typed
  <2>3. PICK a \in Args, o \in Protocols \cup {"none"} :
          /\ a = IF k = "device_name" THEN pending[1] ELSE None
          /\ o = IF k = "device_name" THEN pending[2] ELSE "none"
          /\ k = "device_name" => <<a, o>> = pending
    BY <1>1 DEF Typed, Choices, Args, Protocols
  <2>4. /\ run' \in Runs /\ run'.pc = "call" /\ run'.group = g /\ run'.op = k /\ run'.arg = a
        /\ run'.opt = o /\ run'.upd = run.upd /\ run'.dev = None /\ run'.token = 0
    <3>1. k \in Acts
      BY <2>2 DEF Acts
    <3>2. PICK x \in Runs : x = [run EXCEPT !.pc = "call", !.group = g, !.op = k]
      <4>1. PICK j \in Acts : j = k
        BY <3>1
      <4>2. PICK i \in 0 .. 4 : i = g
        BY <2>2
      <4>3. [run EXCEPT !.pc = "call", !.group = i, !.op = j] \in Runs
        BY <1>1 DEF Runs
      <4> QED
        BY <4>1, <4>2, <4>3
    <3>3. PICK y \in Runs : y = [x EXCEPT !.arg = a, !.opt = o]
      BY DEF Runs
    <3>4. run' = y
      BY <2>1, <2>3, <3>2, <3>3
    <3>5. /\ y.pc = x.pc /\ y.group = x.group /\ y.op = x.op /\ y.arg = a /\ y.opt = o
          /\ y.upd = x.upd /\ y.dev = x.dev /\ y.token = x.token
      BY <3>3 DEF Runs
    <3>6. /\ x.pc = "call" /\ x.group = g /\ x.op = k /\ x.upd = run.upd /\ x.dev = run.dev
          /\ x.token = run.token
      BY <1>1, <3>2 DEF Runs
    <3> QED
      BY <1>1, <3>4, <3>5, <3>6
  <2>5. sent[k] = 0 /\ sent' \in [Prompts \cup {"plan:buy"} -> 0 .. 2]
        /\ \A j \in Prompts \cup {"plan:buy"} : sent'[j] = IF j = k THEN 1 ELSE sent[j]
    <3>1. sent[k] = 0 /\ sent \in [Prompts \cup {"plan:buy"} -> 0 .. 2]
      BY <1>1, <2>2 DEF BotInv, PromptInv, Typed
    <3>2. sent' = [sent EXCEPT ![k] = 1]
      BY <2>1, <3>1
    <3> QED
      BY <2>2, <3>1, <3>2
  <2>6. RunOK(run')
    BY <1>1, <2>2, <2>4 DEF RunOK, Sending
  <2>7. Typed'
    <3>1. pending' \in Choices
      BY <1>1, <2>1 DEF Typed, Choices
    <3>2. awaiting' \subseteq Prompts /\ due' \in Prompts \cup {"none"}
      BY <1>1, <2>1 DEF Typed
    <3> QED
      BY <1>1, <1>2, <2>4, <2>5, <3>1, <3>2 DEF Typed
  <2>8. RunInv'
    BY <1>1, <1>2, <2>4, <2>6, IdleFacts DEF RunInv
  <2>9. MintInv'
    <3>1. MayMint' => MayMint
      <4>1. "custom_domain" \notin Minting /\ "support_message" \notin Minting
        BY DEF Minting
      <4>2. MayMint' => k = "device_name"
        BY <2>2, <2>4, <4>1 DEF MayMint, Prompts
      <4> QED
        BY <1>1, <2>2, <4>2 DEF MayMint
    <3>2. be.minted \in Nat /\ updates \in Nat /\ faults \in Nat
      BY <1>1 DEF Typed, Backends
    <3>3. be.minted + (IF MayMint THEN 1 ELSE 0) + 0 <= 1 + updates + faults
      BY <1>1 DEF BotInv, MintInv
    <3>4. be.minted + (IF MayMint' THEN 1 ELSE 0) + 0 <= 1 + updates + faults
      BY <3>1, <3>2, <3>3
    <3> QED
      BY <1>1, <1>2, <3>4 DEF BotInv, MintInv
  <2>10. PromptInv'
    <3>1. \A j \in Prompts : ~Renews(run'.upd, j) /\ ~Renews(again', j)
      BY <1>1, <1>2, <2>4, IdleFacts DEF Renews, PromptOf
    <3>2. \A j \in Prompts : /\ sent'[j] <= 1
                             /\ j \in awaiting' => sent'[j] = 0
      BY <2>1, <2>5 DEF BotInv, PromptInv
    <3>3. run'.op # "plan:buy" /\ sent'["plan:buy"] = sent["plan:buy"]
      BY <2>2, <2>4, <2>5
    <3> QED
      BY <1>1, <1>2, <3>1, <3>2, <3>3 DEF BotInv, PromptInv
  <2>11. AskedInv'
    <3>1. ChosenBy(NoUpdate)' = asked' /\ ChosenBy(run.upd)' = asked'
      BY <1>1, <1>2, <2>4, IdleFacts DEF ChosenBy
    <3>2. k = "device_name" => <<a, o>> = asked
      BY <2>2, <2>3 DEF BotInv, AskedInv
    <3>3. "device_name" \in awaiting' => pending' = asked'
      BY <1>2, <2>1 DEF BotInv, AskedInv
    <3> QED
      BY <1>1, <1>2, <2>4, <3>1, <3>2, <3>3 DEF AskedInv, CreatesWhatWasAsked
  <2>12. DueInv'
    <3>1. due' # "none" => due' = due /\ due # k
      BY <2>1
    <3>2. due # "none" => due \in awaiting
                          /\ \E h \in 1 .. 3 : Order[h] = due /\ run.group <= h
      BY <1>1 DEF BotInv, DueInv
    <3>3. due' # "none" => \E h \in 1 .. 3 : Order[h] = due' /\ g < h
      <4>1. SUFFICES ASSUME due' # "none" PROVE \E h \in 1 .. 3 : Order[h] = due' /\ g < h
        OBVIOUS
      <4>2. PICK h \in 1 .. 3 : Order[h] = due /\ run.group <= h /\ due \in awaiting
        BY <3>1, <3>2, <4>1
      <4>3. h \in gs /\ h # g
        BY <1>1, <3>1, <4>1, <4>2
      <4>4. g <= h
        BY <2>1, <4>3
      <4> QED
        BY <2>2, <3>1, <4>1, <4>2, <4>3, <4>4
    <3>4. PromptOf(run'.upd.act) = "none"
      BY <1>1, <2>4 DEF PromptOf
    <3> QED
      BY <2>1, <2>4, <3>1, <3>2, <3>3, <3>4 DEF DueInv
  <2>13. ShownInv'
    BY <1>1, <1>2, <2>4 DEF BotInv, ShownInv
  <2>14. RevokedInv'
    BY <1>1, <1>2, <1>3, <2>4, IdleFacts DEF RevokedInv, Old
  <2>15. LinkInv'
    BY <1>1, <1>2, <2>4 DEF BotInv, LinkInv, Reserved
  <2> QED
    BY <1>3, <2>7, <2>8, <2>9, <2>10, <2>11, <2>12, <2>13, <2>14, <2>15 DEF BotInv
<1> QED
    BY <1>4, <1>5

(* A request commits, or its commit is left for later. *)
Committed(r) == be' = Minted(Effect(be, r), r) /\ late' = late /\ outdated' = Outdate(r)
Postponed(r) == be' = Minted(be, r) /\ late' = late \cup {r} /\ outdated' = outdated

(* What the commit of a request leaves as it was: a device stays, is       *)
(* revoked only when every message is outdated, and gets a new link only   *)
(* for a request that makes one.                                           *)
LEMMA OutcomeFacts ==
    ASSUME BotInv, run.pc = "call", NEW r \in Accepted(Request), Committed(r) \/ Postponed(r)
    PROVE  /\ be' \in Backends /\ late' \subseteq RequestRecords
           /\ outdated \subseteq outdated' /\ outdated' \subseteq Messages
           /\ be'.minted = be.minted + (IF run.op \in Minting THEN 1 ELSE 0)
           /\ \A d \in Devices : be'.link[d] <= be'.minted
           /\ \A l \in late' : LateOK(l) /\ l.token <= be'.minted
           /\ run.op \notin Visible =>
                be'.status = be.status /\ be'.mode = be.mode /\ be'.cats = be.cats
           /\ Reserved \subseteq Reserved'
           /\ \A d \in Devices \ Reserved' :
                be'.link[d] = IF run.op \in Minting /\ d = r.dev THEN r.token ELSE be.link[d]
           /\ \A d \in Devices : be'.status[d] = "none" => be.status[d] = "none"
           /\ \A d \in Devices : be'.status[d] = "revoked"
                                   => be.status[d] = "revoked" \/ outdated' = Messages
           /\ run.op \in Minting => /\ r.dev \in Devices /\ r.token = be.minted + 1
                                    /\ r.dev \in Reserved' \/ be'.status[r.dev] # "none"
           /\ run.op \notin Minting => r.dev = None /\ r.token = 0
<1>1. /\ r \in RequestRecords /\ LateOK(r) /\ r.op = run.op
      /\ IF run.op \in Minting THEN r.token = be.minted + 1 ELSE r.token = 0 /\ r.dev = None
      /\ run.op = "device_name" => r.dev \in Devices \ Reserved /\ be.status[r.dev] = "none"
      /\ run.op = "device:sublink:rotate" => r.dev = r.arg
      /\ r.arg \in Devices => be.status[r.arg] # "none"
    BY AcceptedFacts DEF BotInv
<1>2. be \in Backends /\ late \subseteq RequestRecords /\ outdated \subseteq Messages
    BY DEF BotInv, Typed
<1>3. be.minted \in Nat /\ r.token \in Nat /\ be.link \in [Devices -> Nat]
    BY <1>1, <1>2 DEF Backends, RequestRecords
<1>4. /\ \A d \in Devices : be.link[d] <= be.minted
      /\ \A l \in late : LateOK(l) /\ l.token <= be.minted /\ l.token \in Nat
    BY <1>2 DEF BotInv, MintInv, RequestRecords
<1>5. run.op \in Minting => r.dev \in Devices
    BY <1>1 DEF LateOK
<1>6. (IF r.token > be.minted THEN r.token ELSE be.minted)
         = be.minted + (IF run.op \in Minting THEN 1 ELSE 0)
    BY <1>1, <1>3
<1>7. CASE Committed(r)
  <2>1. Carried(be, be', r) /\ be'.minted = be.minted + (IF run.op \in Minting THEN 1 ELSE 0)
    BY <1>1, <1>2, <1>6, <1>7, AnsweredFacts DEF Committed
  <2>2. late' = late /\ Reserved' = Reserved /\ outdated' = Outdate(r)
    BY <1>7 DEF Committed, Reserved
  <2>3. be' \in Backends /\ outdated' \subseteq Messages /\ outdated \subseteq outdated'
        /\ (r.op = "device:revoke" => outdated' = Messages)
    BY <1>2, <2>1, <2>2 DEF Carried, Outdate
  <2>4. \A d \in Devices :
          /\ be'.link[d] = IF run.op \in Minting /\ d = r.dev THEN r.token ELSE be.link[d]
          /\ be'.status[d] = "none" => be.status[d] = "none"
          /\ be'.status[d] = "revoked" => be.status[d] = "revoked" \/ r.op = "device:revoke"
    BY <1>1, <2>1 DEF Carried
  <2>5. \A d \in Devices : be'.link[d] <= be'.minted
    BY <1>1, <1>3, <1>4, <2>1, <2>4
  <2>6. \A l \in late : l.token <= be'.minted
    BY <1>3, <1>4, <2>1
  <2>7. run.op \in Minting => be'.status[r.dev] # "none"
    BY <1>1, <1>5, <2>1, <2>4 DEF Carried, Minting
  <2>8. run.op \notin Visible => be'.status = be.status /\ be'.mode = be.mode /\ be'.cats = be.cats
    BY <1>1, <2>1 DEF Carried
  <2> QED
    BY <1>1, <1>2, <1>4, <1>5, <2>1, <2>2, <2>3, <2>4, <2>5, <2>6, <2>7, <2>8
<1>8. CASE Postponed(r)
  <2>1. /\ be' \in Backends /\ be'.status = be.status /\ be'.mode = be.mode /\ be'.cats = be.cats
        /\ be'.link = be.link
        /\ be'.minted = be.minted + (IF run.op \in Minting THEN 1 ELSE 0)
    BY <1>1, <1>2, <1>6, <1>8, MintedFacts DEF Postponed
  <2>2. late' = late \cup {r} /\ outdated' = outdated /\ Reserved' = Reserved \cup {r.dev}
    BY <1>8 DEF Postponed, Reserved
  <2>3. \A d \in Devices : be'.link[d] <= be'.minted
    BY <1>3, <1>4, <2>1
  <2>4. \A l \in late' : LateOK(l) /\ l.token <= be'.minted
    BY <1>1, <1>3, <1>4, <2>1, <2>2
  <2> QED
    BY <1>1, <1>2, <1>5, <2>1, <2>2, <2>3, <2>4
<1> QED
    BY <1>7, <1>8

(* A payment is counted as the call for it ends. *)
LEMMA CountFacts ==
    ASSUME BotInv, run.pc = "call", CountPayment
    PROVE  /\ sent' \in [Prompts \cup {"plan:buy"} -> 0 .. 2]
           /\ \A k \in Prompts : sent'[k] = sent[k]
           /\ faults = 0 => sent'["plan:buy"] <= 1
<1>1. sent \in [Prompts \cup {"plan:buy"} -> 0 .. 2]
    BY DEF BotInv, Typed
<1>2. faults = 0 => sent["plan:buy"] <= 1 /\ (run.op = "plan:buy" => sent["plan:buy"] = 0)
    BY DEF BotInv, PromptInv
<1> DEFINE n == IF run.op # "plan:buy" \/ sent["plan:buy"] = 2
                THEN sent["plan:buy"] ELSE sent["plan:buy"] + 1
<1>3. sent' = [sent EXCEPT !["plan:buy"] = n] /\ n \in 0 .. 2 /\ (faults = 0 => n <= 1)
  <2>1. sent["plan:buy"] \in 0 .. 2
    BY <1>1
  <2>2. n \in 0 .. 2 /\ (faults = 0 => n <= 1)
    BY <1>2, <2>1
  <2> QED
    BY <2>2 DEF CountPayment
<1> HIDE DEF n
<1>4. "plan:buy" \notin Prompts
    BY DEF Prompts
<1> QED
    BY <1>1, <1>2, <1>3, <1>4

(* What the call of a handler does to the invariant before it is known     *)
(* what the handler does next: the request commits or is left behind.      *)
LEMMA OutcomeStep ==
    ASSUME BotInv, run.pc = "call", NEW r \in Accepted(Request), Committed(r) \/ Postponed(r),
           msg' = msg
    PROVE  /\ ScreenInv'
           /\ \A m \in Messages \ outdated' :
                msg'[m].kind = "manage" /\ be'.status[msg'[m].dev] = "revoked"
                  => msg'[m].status = "revoked"
           /\ \A u : /\ UpdateOK(u) /\ Old(u)
                     /\ u.act \in {"device:disable", "device:enable"}
                     /\ be'.status[u.arg] = "revoked"
                     => u.msg \in outdated'
<1>1. /\ outdated \subseteq outdated'
      /\ \A d \in Devices : be'.status[d] = "revoked"
                              => be.status[d] = "revoked" \/ outdated' = Messages
    BY OutcomeFacts
<1>2. ScreenInv'
    BY DEF BotInv, ScreenInv
<1>3. ASSUME NEW m \in Messages \ outdated',
             msg'[m].kind = "manage" /\ be'.status[msg'[m].dev] = "revoked"
      PROVE  msg'[m].status = "revoked"
  <2>1. msg[m].dev \in Devices
    BY <1>3 DEF BotInv, ScreenInv, MessageOK
  <2>2. be.status[msg[m].dev] = "revoked"
    BY <1>1, <1>3, <2>1
  <2> QED
    BY <1>1, <1>3, <2>2 DEF BotInv, RevokedInv
<1>4. ASSUME NEW u, UpdateOK(u), Old(u),
             u.act \in {"device:disable", "device:enable"}, be'.status[u.arg] = "revoked"
      PROVE  u.msg \in outdated'
  <2>1. u.arg \in Devices /\ u.msg \in Messages
    BY <1>4 DEF UpdateOK, ArgOK, DeviceActs
  <2>2. be.status[u.arg] = "revoked" => u.msg \in outdated
    BY <1>4 DEF Old
  <2> QED
    BY <1>1, <1>4, <2>1, <2>2
<1> QED
    BY <1>2, <1>3, <1>4

(* The request is answered, whether it has committed or not. *)
LEMMA AnsweredStep ==
    ASSUME BotInv, run.pc = "call", NEW r \in Accepted(Request), Committed(r) \/ Postponed(r),
           run' = [run EXCEPT !.pc = "show", !.dev = r.dev, !.token = r.token],
           faults' \in faults .. MaxFaults, CountPayment,
           UNCHANGED <<userData, msg, again, updates, asked, due, last, link, unsure>>
    PROVE  BotInv'
<1> USE BotAssumption
<1>1. /\ Typed /\ run \in Runs /\ RunOK(run) /\ UpdateOK(run.upd) /\ again = NoUpdate
      /\ run.op \in Sending /\ r.dev \in Devices \cup {None} /\ r.token \in Nat
    BY AcceptedFacts DEF BotInv, Typed, RunInv, RunOK, RequestRecords
<1>2. /\ awaiting' = awaiting /\ pending' = pending /\ msg' = msg /\ again' = again
      /\ updates' = updates /\ asked' = asked /\ due' = due /\ last' = last /\ link' = link
      /\ unsure' = unsure
    BY DEF userData
<1>3. PICK x \in Runs : /\ run' = x /\ x.pc = "show" /\ x.dev = r.dev /\ x.token = r.token
                        /\ x.upd = run.upd /\ x.op = run.op /\ x.arg = run.arg
                        /\ x.group = run.group
  <2> DEFINE x == [run EXCEPT !.pc = "show", !.dev = r.dev, !.token = r.token]
  <2>1. x \in Runs
    BY <1>1 DEF Runs
  <2>2. /\ x.pc = "show" /\ x.dev = r.dev /\ x.token = r.token
        /\ x.upd = run.upd /\ x.op = run.op /\ x.arg = run.arg /\ x.group = run.group
    BY <1>1 DEF Runs
  <2> QED
    BY <2>1, <2>2
<1>4. /\ be' \in Backends /\ late' \subseteq RequestRecords /\ outdated' \subseteq Messages
      /\ be'.minted = be.minted + (IF run.op \in Minting THEN 1 ELSE 0)
      /\ \A d \in Devices : be'.link[d] <= be'.minted
      /\ \A l \in late' : LateOK(l) /\ l.token <= be'.minted
      /\ run.op \notin Visible =>
           be'.status = be.status /\ be'.mode = be.mode /\ be'.cats = be.cats
      /\ Reserved \subseteq Reserved'
      /\ \A d \in Devices \ Reserved' :
           be'.link[d] = IF run.op \in Minting /\ d = r.dev THEN r.token ELSE be.link[d]
      /\ \A d \in Devices : be'.status[d] = "none" => be.status[d] = "none"
      /\ run.op \in Minting => /\ r.dev \in Devices /\ r.token = be.minted + 1
                               /\ r.dev \in Reserved' \/ be'.status[r.dev] # "none"
      /\ run.op \notin Minting => r.dev = None /\ r.token = 0
    BY OutcomeFacts
<1>5. /\ ScreenInv'
      /\ \A m \in Messages \ outdated' :
           msg'[m].kind = "manage" /\ be'.status[msg'[m].dev] = "revoked"
             => msg'[m].status = "revoked"
      /\ \A u : /\ UpdateOK(u) /\ Old(u)
                /\ u.act \in {"device:disable", "device:enable"}
                /\ be'.status[u.arg] = "revoked"
                => u.msg \in outdated'
    BY <1>2, OutcomeStep
<1>6. /\ sent' \in [Prompts \cup {"plan:buy"} -> 0 .. 2]
      /\ \A k \in Prompts : sent'[k] = sent[k]
      /\ faults = 0 => sent'["plan:buy"] <= 1
    BY CountFacts
<1>7. be.minted \in Nat /\ updates \in Nat /\ faults \in Nat /\ faults' \in Nat /\ faults <= faults'
    BY <1>1 DEF Typed, Backends
<1>8. Typed'
    BY <1>1, <1>2, <1>3, <1>4, <1>6, <1>7 DEF Typed
<1>9. RunInv'
  <2>1. RunOK(x)
    <3>1. run.op = "device:sublink:rotate" => r.dev = run.arg
      BY AcceptedFacts DEF BotInv
    <3>2. run.op = "device_name" => r.dev \in Devices
      BY <1>4 DEF Minting
    <3>3. run.op \notin Minting => r.dev = None /\ r.token = 0
      BY <1>4
    <3> QED
      BY <1>1, <1>3, <1>4, <3>1, <3>2, <3>3 DEF RunOK
  <2> QED
    BY <1>1, <1>2, <1>3, <2>1 DEF RunInv, BotInv
<1>10. MintInv'
  <2>1. ~MayMint'
    BY <1>3 DEF MayMint
  <2>2. be.minted + (IF run.op \in Minting THEN 1 ELSE 0) + 0 <= 1 + updates + faults
    BY <1>1 DEF BotInv, MintInv, MayMint
  <2>3. be'.minted + 0 + 0 <= 1 + updates' + faults'
    BY <1>2, <1>4, <1>7, <2>2
  <2> QED
    BY <1>1, <1>2, <1>4, <2>1, <2>3 DEF MintInv
<1>11. PromptInv'
    BY <1>1, <1>2, <1>3, <1>6, <1>7 DEF BotInv, PromptInv
<1>12. AskedInv'
  <2>1. ChosenBy(run.upd)' = ChosenBy(run.upd) /\ ChosenBy(again)' = ChosenBy(again)
    BY <1>2, <1>3 DEF ChosenBy
  <2> QED
    BY <1>2, <1>3, <2>1 DEF BotInv, AskedInv, CreatesWhatWasAsked
<1>13. DueInv'
    BY <1>1, <1>2, <1>3 DEF BotInv, DueInv
<1>14. ShownInv'
  <2>1. CASE run.op \in Visible
    BY <1>3, <2>1 DEF ShownInv
  <2>2. CASE run.op \notin Visible
    BY <1>2, <1>4, <2>2, ScreenSame DEF BotInv, ShownInv
  <2> QED
    BY <2>1, <2>2
<1>15. RevokedInv'
  <2>1. Old(run.upd)' /\ Old(again)'
    BY <1>1, <1>2, <1>3, <1>5, IdleFacts DEF BotInv, RevokedInv, Old
  <2> QED
    BY <1>5, <2>1 DEF RevokedInv
<1>16. LinkInv'
  <2>1. \A d \in Devices \ (Reserved \cup unsure) :
           link[d] \in {0, be.link[d]} /\ (be.status[d] = "none" => link[d] = 0)
    BY DEF BotInv, LinkInv
  <2>2. ASSUME NEW d \in Devices \ (Reserved' \cup unsure')
        PROVE  /\ IF run'.pc = "show" /\ run'.token # 0 /\ run'.dev = d
                  THEN be'.link[d] = run'.token /\ be'.status[d] # "none"
                  ELSE link'[d] \in {0, be'.link[d]}
               /\ be'.status[d] = "none" => link'[d] = 0
    <3>1. d \in Devices \ (Reserved \cup unsure) /\ d \in Devices \ Reserved' /\ d # None
      BY <1>2, <1>4, <2>2
    <3>2. CASE run.op \in Minting /\ d = r.dev
      BY <1>2, <1>3, <1>4, <1>7, <2>1, <3>1, <3>2
    <3>3. CASE ~(run.op \in Minting /\ d = r.dev)
      <4>1. be'.link[d] = be.link[d] /\ run'.dev # d
        BY <1>3, <1>4, <3>1, <3>3
      <4> QED
        BY <1>2, <1>4, <2>1, <3>1, <4>1
    <3> QED
      BY <3>2, <3>3
  <2> QED
    BY <2>2 DEF LinkInv
<1> QED
    BY <1>5, <1>8, <1>9, <1>10, <1>11, <1>12, <1>13, <1>14, <1>15, <1>16 DEF BotInv

LEMMA CallAnsweredStep ==
    ASSUME BotInv, CallAnswered
    PROVE  BotInv'
<1>1. PICK r \in Accepted(Request) :
        /\ Committed(r)
        /\ run' = [run EXCEPT !.pc = "show", !.dev = r.dev, !.token = r.token]
    BY DEF CallAnswered, Committed
<1>2. faults' \in faults .. MaxFaults
    BY BotAssumption DEF CallAnswered, BotInv, Typed
<1> QED
    BY <1>1, <1>2, AnsweredStep DEF CallAnswered

LEMMA CallAnsweredEarlyStep ==
    ASSUME BotInv, CallAnsweredEarly
    PROVE  BotInv'
<1>1. PICK r \in Accepted(Request) :
        /\ Postponed(r)
        /\ run' = [run EXCEPT !.pc = "show", !.dev = r.dev, !.token = r.token]
    BY DEF CallAnsweredEarly, Postponed
<1>2. faults' \in faults .. MaxFaults
    BY BotAssumption DEF CallAnsweredEarly, BotInv, Typed
<1> QED
    BY <1>1, <1>2, AnsweredStep DEF CallAnsweredEarly

(* A handler that is done leaves the prompts as they were, but for the one *)
(* it has shown.                                                           *)
LEMMA ReturnStep ==
    ASSUME BotInv, run.pc \in {"call", "show"}, run' = Return,
           UNCHANGED <<userData, again, asked>>,
           \A k \in Prompts : sent'[k] = sent[k], faults = 0 => sent'["plan:buy"] <= 1,
           faults' \in Nat, faults <= faults',
           due' = due \/ (run.upd.kind # "text" /\ due' \in awaiting)
    PROVE  /\ RunInv' /\ PromptInv' /\ AskedInv' /\ DueInv'
           /\ run' \in Runs /\ run'.pc \in {"groups", "idle"} /\ run'.token = 0 /\ ~MayMint'
           /\ again' = NoUpdate /\ Old(run.upd)' /\ Old(again)'
<1>1. /\ Typed /\ RunInv /\ run \in Runs /\ RunOK(run) /\ UpdateOK(run.upd) /\ again = NoUpdate
      /\ awaiting' = awaiting /\ pending' = pending /\ again' = again /\ asked' = asked
      /\ faults \in Nat
    BY DEF BotInv, Typed, RunInv, RunOK, userData
<1>2. PICK x \in Runs :
        /\ run' = x /\ RunOK(x) /\ x.token = 0 /\ x.pc \in {"groups", "idle"} /\ x.upd.act = "none"
        /\ IF run.upd.kind = "text"
           THEN x.pc = "groups" /\ run.group \in 1 .. 3 /\ x.group = run.group + 1
           ELSE x.upd.kind = "none"
  <2>1. run.upd.kind = "text" => run.upd.act = "none"
    BY <1>1 DEF UpdateOK
  <2> QED
    BY <1>1, <2>1, ReturnFacts, IdleFacts
<1>3. RunInv'
    BY <1>1, <1>2, IdleFacts DEF RunInv
<1>4. ~MayMint'
  <2>1. x.pc = "groups" => x.group # 1
    BY <1>2, IdleFacts DEF RunOK
  <2> QED
    BY <1>2, <2>1 DEF MayMint
<1>5. PromptOf("none") = "none"
    BY DEF PromptOf
<1>6. PromptInv'
  <2>1. \A k \in Prompts : ~Renews(x.upd, k) /\ ~Renews(again, k)
    BY <1>1, <1>2, <1>5, IdleFacts DEF Renews
  <2>2. \A k \in Prompts : sent[k] <= 1 /\ (k \in awaiting => sent[k] = 0)
    BY DEF BotInv, PromptInv
  <2> QED
    BY <1>1, <1>2, <2>1, <2>2 DEF PromptInv
<1>7. AskedInv'
  <2>1. ChosenBy(run.upd)' = asked' /\ ChosenBy(again)' = asked'
    BY <1>1, <1>2, IdleFacts DEF ChosenBy
  <2> QED
    BY <1>1, <1>2, <2>1 DEF BotInv, AskedInv, CreatesWhatWasAsked
<1>8. DueInv'
  <2>1. due' # "none" => due' \in awaiting
    BY DEF BotInv, DueInv
  <2>2. CASE run.upd.kind = "text"
    <3>1. due # "none" => \E g \in 1 .. 3 : Order[g] = due /\ run.group < g
      BY <1>1, <2>2 DEF BotInv, DueInv
    <3>2. due' # "none" => \E g \in 1 .. 3 : Order[g] = due' /\ x.group <= g
      BY <1>2, <2>2, <3>1
    <3> QED
      BY <1>1, <1>2, <1>5, <2>1, <2>2, <3>2 DEF DueInv
  <2>3. CASE run.upd.kind # "text"
    BY <1>1, <1>2, <1>5, <2>1, <2>3 DEF DueInv
  <2> QED
    BY <2>2, <2>3
<1>9. Old(run.upd)' /\ Old(again)'
    BY <1>1, <1>2, IdleFacts DEF Old
<1> QED
    BY <1>1, <1>2, <1>3, <1>4, <1>6, <1>7, <1>8, <1>9

(* A message that is written shows the backend as it is. *)
LEMMA WrittenStep ==
    ASSUME BotInv, NEW m \in Messages, NEW k \in ScreenKinds, NEW d \in Devices \cup {None},
           k \in {"manage", "link"} => d \in Devices,
           msg' = [msg EXCEPT ![m] = Screen(k, d, be)], be' = be,
           outdated' = outdated \ {m}, last' = m
    PROVE  /\ msg' \in [Messages -> Screens] /\ ScreenInv' /\ ShownInv'
           /\ \A n \in Messages \ outdated' :
                msg'[n].kind = "manage" /\ be'.status[msg'[n].dev] = "revoked"
                  => msg'[n].status = "revoked"
<1>1. be \in Backends /\ msg \in [Messages -> Screens]
    BY DEF BotInv, Typed
<1>2. PICK s \in Screens : /\ s = Screen(k, d, be) /\ MessageOK(s) /\ Screen(s.kind, s.dev, be) = s
                           /\ s.kind = "manage" => s.status = be.status[s.dev]
    BY <1>1, ScreenFacts
<1>3. /\ msg' \in [Messages -> Screens]
      /\ \A n \in Messages : msg'[n] = IF n = m THEN s ELSE msg[n]
    BY <1>1, <1>2
<1>4. ScreenInv'
    BY <1>2, <1>3 DEF BotInv, ScreenInv
<1>5. ShownInv'
    BY <1>2, <1>3 DEF ShownInv
<1> QED
    BY <1>2, <1>3, <1>4, <1>5 DEF BotInv, RevokedInv

LEMMA ReadCategoryStep ==
    ASSUME BotInv, ReadCategory
    PROVE  BotInv'
<1>1. /\ Typed /\ run \in Runs /\ RunOK(run) /\ UpdateOK(run.upd) /\ again = NoUpdate
      /\ run.pc = "read" /\ run.op = "smart:cat" /\ run.dev = None /\ run.token = 0
      /\ run.upd.kind # "text"
  <2>1. /\ Typed /\ run \in Runs /\ RunOK(run) /\ UpdateOK(run.upd) /\ again = NoUpdate
        /\ run.pc = "read" /\ run.op = "smart:cat" /\ run.dev = None /\ run.token = 0
    BY DEF ReadCategory, BotInv, RunInv, RunOK, Typed
  <2>2. run.upd.kind # "text"
    BY <2>1 DEF RunOK, Order
  <2> QED
    BY <2>1, <2>2
<1>2. /\ be' = be /\ late' = late /\ awaiting' = awaiting /\ pending' = pending /\ msg' = msg
      /\ again' = again /\ updates' = updates /\ faults' = faults /\ sent' = sent
      /\ asked' = asked /\ due' = due /\ outdated' = outdated /\ last' = last /\ link' = link
      /\ unsure' = unsure
    BY DEF ReadCategory, userData, history
<1>3. PICK x \in Runs : /\ run' = x /\ RunOK(x) /\ x.token = 0 /\ x.pc \in {"call", "idle"}
                        /\ x.op \in {"smart:cat", "none"} /\ x.upd.kind # "text"
                        /\ x.upd = run.upd \/ x.upd = NoUpdate
  <2>1. CASE ~be.registered
    BY <2>1, IdleFacts DEF ReadCategory
  <2>2. CASE be.registered
    <3>1. PICK o \in {"on", "off"} : run' = [run EXCEPT !.pc = "call", !.opt = o]
      BY <2>2 DEF ReadCategory
    <3>2. PICK x \in Runs : x = [run EXCEPT !.pc = "call", !.opt = o]
      BY <1>1 DEF Runs
    <3>3. /\ x.pc = "call" /\ x.op = run.op /\ x.arg = run.arg /\ x.upd = run.upd
          /\ x.dev = run.dev /\ x.token = run.token
      BY <1>1, <3>2 DEF Runs
    <3>4. RunOK(x)
      BY <1>1, <3>3 DEF RunOK, Sending
    <3> QED
      BY <1>1, <3>1, <3>2, <3>3, <3>4
  <2> QED
    BY <2>1, <2>2
<1>4. Typed' /\ RunInv'
    BY <1>1, <1>2, <1>3, IdleFacts DEF Typed, RunInv
<1>5. ScreenInv' /\ ShownInv' /\ LinkInv'
    BY <1>1, <1>2, <1>3 DEF BotInv, ScreenInv, ShownInv, LinkInv, Reserved
<1>6. MintInv'
  <2>1. ~MayMint' /\ ~MayMint
    BY <1>1, <1>3 DEF MayMint, Minting
  <2> QED
    BY <1>2, <2>1 DEF BotInv, MintInv
<1>7. PromptInv'
  <2>1. \A k : Renews(x.upd, k) => Renews(run.upd, k)
    BY <1>3, IdleFacts DEF Renews, PromptOf
  <2> QED
    BY <1>1, <1>2, <1>3, <2>1 DEF BotInv, PromptInv
<1>8. AskedInv'
  <2>1. ChosenBy(run.upd)' = asked'
    BY <1>2, <1>3, IdleFacts DEF BotInv, AskedInv, ChosenBy
  <2>2. ChosenBy(again)' = asked'
    BY <1>1, <1>2, IdleFacts DEF ChosenBy
  <2> QED
    BY <1>2, <1>3, <2>1, <2>2 DEF BotInv, AskedInv, CreatesWhatWasAsked
<1>9. DueInv'
  <2>1. PromptOf(x.upd.act) # "none" => PromptOf(x.upd.act) \in awaiting
    BY <1>1, <1>3, IdleFacts DEF BotInv, DueInv, PromptOf
  <2> QED
    BY <1>1, <1>2, <1>3, <2>1 DEF BotInv, DueInv
<1>10. RevokedInv'
  <2>1. Old(run.upd)' /\ Old(again)'
    BY <1>1, <1>2, <1>3, IdleFacts DEF BotInv, RevokedInv, Old
  <2> QED
    BY <1>2, <2>1 DEF BotInv, RevokedInv
<1> QED
    BY <1>4, <1>5, <1>6, <1>7, <1>8, <1>9, <1>10 DEF BotInv

LEMMA CallRefusedStep ==
    ASSUME BotInv, CallRefused
    PROVE  BotInv'
<1> USE BotAssumption
<1>1. /\ Typed /\ RunOK(run) /\ UpdateOK(run.upd) /\ run.pc = "call" /\ run.token = 0
    BY DEF CallRefused, BotInv, RunInv, RunOK
<1>2. /\ run' = Return /\ CountPayment
      /\ be' = be /\ late' = late /\ awaiting' = awaiting /\ pending' = pending
      /\ again' = again /\ updates' = updates /\ faults' = faults
      /\ asked' = asked /\ due' = due /\ link' = link /\ unsure' = unsure
    BY DEF CallRefused, userData
<1>3. /\ sent' \in [Prompts \cup {"plan:buy"} -> 0 .. 2]
      /\ \A k \in Prompts : sent'[k] = sent[k]
      /\ faults = 0 => sent'["plan:buy"] <= 1
    BY <1>1, <1>2, CountFacts
<1>4. faults \in Nat /\ be.minted \in Nat /\ updates \in Nat
    BY <1>1 DEF Typed, Backends
<1>5. /\ RunInv' /\ PromptInv' /\ AskedInv' /\ DueInv'
      /\ run' \in Runs /\ run'.pc \in {"groups", "idle"} /\ run'.token = 0 /\ ~MayMint'
      /\ again' = NoUpdate /\ Old(run.upd)' /\ Old(again)'
  <2>1. UNCHANGED <<userData, again, asked>>
    BY <1>2 DEF userData
  <2> QED
    BY <1>1, <1>2, <1>3, <1>4, <2>1, ReturnStep
<1>6. /\ msg' \in [Messages -> Screens] /\ ScreenInv' /\ ShownInv'
      /\ outdated' \subseteq Messages /\ last' \in Messages \cup {None}
      /\ \A n \in Messages \ outdated' :
           msg'[n].kind = "manage" /\ be'.status[msg'[n].dev] = "revoked"
             => msg'[n].status = "revoked"
  <2>1. outdated \subseteq Messages
    BY <1>1 DEF Typed
  <2>2. CASE run.op = "device_name"
    <3>1. PICK m \in Messages : /\ msg' = [msg EXCEPT ![m] = Screen("main", None, be)]
                                /\ outdated' = outdated \ {m} /\ last' = m
      BY <2>2 DEF CallRefused
    <3> QED
      BY <1>2, <2>1, <3>1, WrittenStep DEF ScreenKinds
  <2>3. CASE run.op \in {"device:reissue", "device:sublink:rotate"}
    <3>1. PICK m \in Messages : m = run.upd.msg
      <4>1. run.upd.kind # "text"
        BY <1>1, <2>3 DEF RunOK, Order
      <4> QED
        BY <1>1, <2>3, <4>1 DEF RunOK, UpdateOK, DeviceActs
    <3>2. /\ msg' = [msg EXCEPT ![m] = Screen("plain", None, be)]
          /\ outdated' = outdated \ {m} /\ last' = m
      BY <2>3, <3>1 DEF CallRefused
    <3> QED
      BY <1>2, <2>1, <3>2, WrittenStep DEF ScreenKinds
  <2>4. CASE run.op \notin {"device_name", "device:reissue", "device:sublink:rotate"}
    <3>1. msg' = msg /\ outdated' = outdated /\ last' = last
      BY <2>4 DEF CallRefused
    <3>2. ShownInv'
      BY <1>1, <1>2, <3>1 DEF BotInv, ShownInv
    <3> QED
      BY <1>1, <1>2, <3>1, <3>2 DEF BotInv, Typed, ScreenInv, RevokedInv
  <2> QED
    BY <2>2, <2>3, <2>4
<1>7. Typed'
    BY <1>1, <1>2, <1>3, <1>5, <1>6 DEF Typed
<1>8. MintInv'
  <2>1. be.minted + 0 + 0 <= 1 + updates + faults
    BY <1>4 DEF BotInv, MintInv
  <2> QED
    BY <1>2, <1>5, <2>1 DEF BotInv, MintInv
<1>9. RevokedInv'
    BY <1>5, <1>6 DEF RevokedInv
<1>10. LinkInv'
    BY <1>1, <1>2, <1>5 DEF BotInv, LinkInv, Reserved
<1> QED
    BY <1>5, <1>6, <1>7, <1>8, <1>9, <1>10 DEF BotInv

(* No answer: the request is lost, has committed or will. *)
LEMMA CallTimedOutStep ==
    ASSUME BotInv, CallTimedOut
    PROVE  BotInv'
<1> USE BotAssumption
<1>1. /\ Typed /\ RunOK(run) /\ UpdateOK(run.upd) /\ run.pc = "call" /\ run.token = 0
      /\ run.dev = None /\ again = NoUpdate
    BY DEF CallTimedOut, BotInv, RunInv, RunOK
<1>2. /\ run' = Return /\ CountPayment /\ faults < MaxFaults /\ faults' = faults + 1
      /\ msg' = msg /\ awaiting' = awaiting /\ pending' = pending
      /\ again' = again /\ updates' = updates
      /\ asked' = asked /\ due' = due /\ link' = link
      /\ last' = None /\ unsure' = unsure \cup LinkOf
    BY DEF CallTimedOut, userData
<1>3. /\ sent' \in [Prompts \cup {"plan:buy"} -> 0 .. 2]
      /\ \A k \in Prompts : sent'[k] = sent[k]
      /\ faults = 0 => sent'["plan:buy"] <= 1
    BY <1>1, <1>2, CountFacts
<1>4. faults \in Nat /\ be.minted \in Nat /\ updates \in Nat /\ faults' \in 0 .. MaxFaults
    BY <1>1, <1>2 DEF Typed, Backends
<1>5. /\ RunInv' /\ PromptInv' /\ AskedInv' /\ DueInv'
      /\ run' \in Runs /\ run'.pc \in {"groups", "idle"} /\ run'.token = 0 /\ ~MayMint'
      /\ again' = NoUpdate /\ Old(run.upd)' /\ Old(again)'
  <2>1. UNCHANGED <<userData, again, asked>>
    BY <1>2 DEF userData
  <2>2. faults' \in Nat /\ faults <= faults'
    BY <1>2, <1>4
  <2> QED
    BY <1>1, <1>2, <1>3, <2>1, <2>2, ReturnStep
<1>6. LinkOf \subseteq Devices
  <2>1. run.op = "device:sublink:rotate" => run.arg \in Devices
    <3>1. run.op = "device:sublink:rotate" => run.upd.kind # "text"
      BY <1>1 DEF RunOK, Order
    <3> QED
      BY <1>1, <3>1 DEF RunOK, UpdateOK, ArgOK, DeviceActs
  <2> QED
    BY <1>1, <2>1 DEF LinkOf
<1>7. /\ be' \in Backends /\ late' \subseteq RequestRecords /\ outdated' \subseteq Messages
      /\ be'.minted <= be.minted + (IF run.op \in Minting THEN 1 ELSE 0)
      /\ \A d \in Devices : be'.link[d] <= be'.minted
      /\ \A l \in late' : LateOK(l) /\ l.token <= be'.minted
      /\ ScreenInv'
      /\ \A m \in Messages \ outdated' :
           msg'[m].kind = "manage" /\ be'.status[msg'[m].dev] = "revoked"
             => msg'[m].status = "revoked"
      /\ LinkInv'
  <2>1. \A d \in Devices \ (Reserved \cup unsure) :
           link[d] \in {0, be.link[d]} /\ (be.status[d] = "none" => link[d] = 0)
    BY <1>1 DEF BotInv, LinkInv
  <2>2. CASE be' = be /\ late' = late /\ outdated' = outdated
    BY <1>1, <1>2, <1>4, <1>5, <2>1, <2>2
       DEF BotInv, Typed, MintInv, ScreenInv, RevokedInv, LinkInv, Reserved
  <2>3. CASE \E r \in Accepted(Request) : Committed(r) \/ Postponed(r)
    <3>1. PICK r \in Accepted(Request) : Committed(r) \/ Postponed(r)
      BY <2>3
    <3>2. /\ be' \in Backends /\ late' \subseteq RequestRecords /\ outdated' \subseteq Messages
          /\ be'.minted = be.minted + (IF run.op \in Minting THEN 1 ELSE 0)
          /\ \A d \in Devices : be'.link[d] <= be'.minted
          /\ \A l \in late' : LateOK(l) /\ l.token <= be'.minted
          /\ Reserved \subseteq Reserved'
          /\ \A d \in Devices \ Reserved' :
               be'.link[d] = IF run.op \in Minting /\ d = r.dev THEN r.token ELSE be.link[d]
          /\ \A d \in Devices : be'.status[d] = "none" => be.status[d] = "none"
      BY <1>1, <3>1, OutcomeFacts
    <3>3. /\ ScreenInv'
          /\ \A m \in Messages \ outdated' :
               msg'[m].kind = "manage" /\ be'.status[msg'[m].dev] = "revoked"
                 => msg'[m].status = "revoked"
      BY <1>1, <1>2, <3>1, OutcomeStep
    <3>4. /\ run.op = "device_name" => be.status[r.dev] = "none"
          /\ run.op = "device:sublink:rotate" => r.dev = run.arg
      BY <1>1, <3>1, AcceptedFacts DEF BotInv
    <3>5. ASSUME NEW d \in Devices \ (Reserved' \cup unsure')
          PROVE  link[d] \in {0, be'.link[d]} /\ (be'.status[d] = "none" => link[d] = 0)
      <4>1. d \in Devices \ (Reserved \cup unsure) /\ d \notin LinkOf /\ d \notin Reserved'
        BY <1>2, <3>2, <3>5
      <4>2. CASE run.op = "device_name" /\ d = r.dev
        BY <2>1, <3>4, <4>1, <4>2
      <4>3. CASE run.op = "device:sublink:rotate"
        <5>1. d # r.dev
          BY <3>4, <4>1, <4>3 DEF LinkOf
        <5> QED
          BY <2>1, <3>2, <4>1, <5>1
      <4>4. CASE run.op \notin Minting \/ d # r.dev
        BY <2>1, <3>2, <4>1, <4>4
      <4> QED
        BY <4>2, <4>3, <4>4 DEF Minting
    <3>6. LinkInv'
      BY <1>2, <1>5, <3>5 DEF LinkInv
    <3>7. be'.minted <= be.minted + (IF run.op \in Minting THEN 1 ELSE 0)
      BY <1>4, <3>2
    <3> QED
      BY <3>2, <3>3, <3>6, <3>7
  <2> QED
    BY <2>2, <2>3 DEF CallTimedOut, Committed, Postponed
<1>8. Typed'
    BY <1>1, <1>2, <1>3, <1>4, <1>5, <1>6, <1>7 DEF Typed
<1>9. MintInv'
  <2>1. be.minted + (IF run.op \in Minting THEN 1 ELSE 0) + 0 <= 1 + updates + faults
    BY <1>1 DEF BotInv, MintInv, MayMint
  <2>2. be'.minted \in Nat
    BY <1>7 DEF Backends
  <2>3. be'.minted + 0 + 0 <= 1 + updates' + faults'
    BY <1>2, <1>4, <1>7, <2>1, <2>2
  <2> QED
    BY <1>5, <1>7, <2>3 DEF MintInv
<1>10. ShownInv' /\ RevokedInv'
    BY <1>2, <1>5, <1>7 DEF ShownInv, RevokedInv
<1> QED
    BY <1>5, <1>7, <1>8, <1>9, <1>10 DEF BotInv

(* What a handler shows is one of the screens. *)
LEMMA ShownFacts ==
    ASSUME BotInv, run.pc = "show"
    PROVE  \E k \in ScreenKinds, d \in Devices \cup {None} :
             Shown = Screen(k, d, be) /\ (k \in {"manage", "link"} => d \in Devices)
<1>1. RunOK(run) /\ UpdateOK(run.upd)
    BY DEF BotInv, RunInv, RunOK
<1>2. CASE run.op = "device_name"
    BY <1>1, <1>2 DEF Shown, RunOK, ScreenKinds
<1>3. CASE run.op = "support_message"
    BY <1>3 DEF Shown, ScreenKinds
<1>4. CASE run.op \notin {"device_name", "support_message"}
  <2>1. Shown = Screen(Shows(run.op), run.arg, be)
    BY <1>4 DEF Shown
  <2>2. Shows(run.op) \in ScreenKinds
    BY DEF Shows, ScreenKinds
  <2>3. CASE Shows(run.op) \in {"manage", "link"}
    <3>1. run.op \in DeviceActs
      BY <2>3 DEF Shows, DeviceActs
    <3>2. run.upd.kind # "text"
      BY <1>1, <3>1 DEF RunOK, Order, DeviceActs
    <3>3. run.arg \in Devices
      BY <1>1, <3>1, <3>2 DEF RunOK, UpdateOK, ArgOK
    <3> QED
      BY <2>1, <2>2, <3>3
  <2>4. CASE Shows(run.op) \notin {"manage", "link"}
    <3>1. Screen(Shows(run.op), run.arg, be) = Screen(Shows(run.op), None, be)
      BY <2>4 DEF Screen
    <3> QED
      BY <2>1, <2>2, <2>4, <3>1
  <2> QED
    BY <2>3, <2>4
<1> QED
    BY <1>2, <1>3, <1>4

LEMMA ShowStep ==
    ASSUME BotInv, Show
    PROVE  BotInv'
<1> USE BotAssumption
<1>1. /\ Typed /\ run \in Runs /\ RunOK(run) /\ UpdateOK(run.upd) /\ run.pc = "show"
    BY DEF Show, BotInv, RunInv, RunOK, Typed
<1>2. /\ run' = Return
      /\ be' = be /\ late' = late /\ awaiting' = awaiting /\ pending' = pending
      /\ again' = again /\ updates' = updates /\ faults' = faults /\ sent' = sent
      /\ asked' = asked /\ unsure' = unsure
      /\ link' = IF run.token # 0 THEN [link EXCEPT ![run.dev] = run.token] ELSE link
      /\ due' = IF PromptOf(run.op) # "none" THEN PromptOf(run.op) ELSE due
    BY DEF Show, userData
<1>3. /\ faults \in Nat /\ be.minted \in Nat /\ updates \in Nat /\ run.token \in Nat
      /\ run.token # 0 => run.dev \in Devices
    BY <1>1 DEF Typed, Backends, Runs, RunOK
<1>4. /\ due' \in Prompts \cup {"none"}
      /\ due' = due \/ (run.upd.kind # "text" /\ due' \in awaiting)
  <2>1. PromptOf(run.op) \in Prompts \cup {"none"}
    BY DEF PromptOf, Prompts
  <2>2. run.upd.kind = "text" => PromptOf(run.op) = "none"
    BY <1>1 DEF RunOK, Order, PromptOf
  <2>3. run.upd.kind # "text" /\ PromptOf(run.op) # "none" => PromptOf(run.op) \in awaiting
    BY <1>1 DEF RunOK, BotInv, DueInv
  <2> QED
    BY <1>1, <1>2, <2>1, <2>2, <2>3 DEF Typed
<1>5. /\ RunInv' /\ PromptInv' /\ AskedInv' /\ DueInv'
      /\ run' \in Runs /\ run'.pc \in {"groups", "idle"} /\ run'.token = 0 /\ ~MayMint'
      /\ again' = NoUpdate /\ Old(run.upd)' /\ Old(again)'
  <2>1. UNCHANGED <<userData, again, asked>>
    BY <1>2 DEF userData
  <2>2. /\ \A k \in Prompts : sent'[k] = sent[k]
        /\ faults = 0 => sent'["plan:buy"] <= 1
        /\ faults' \in Nat /\ faults <= faults'
    BY <1>2, <1>3 DEF BotInv, PromptInv
  <2> QED
    BY <1>1, <1>2, <1>4, <2>1, <2>2, ReturnStep
<1>6. /\ msg' \in [Messages -> Screens] /\ ScreenInv' /\ ShownInv'
      /\ outdated' \subseteq Messages /\ last' \in Messages \cup {None}
      /\ \A n \in Messages \ outdated' :
           msg'[n].kind = "manage" /\ be'.status[msg'[n].dev] = "revoked"
             => msg'[n].status = "revoked"
  <2>1. outdated \subseteq Messages
    BY <1>1 DEF Typed
  <2>2. PICK m \in Writes :
          IF m = None THEN UNCHANGED <<msg, outdated, last>>
          ELSE /\ msg' = [msg EXCEPT ![m] = Shown]
               /\ outdated' = outdated \ {m}
               /\ last' = m
    BY DEF Show
  <2>3. CASE run.op \in {"device:reissue", "custom_domain"}
    <3>1. msg' = msg /\ outdated' = outdated /\ last' = last
      <4>1. Writes = {None}
        BY <2>3 DEF Writes
      <4>2. m = None
        BY <2>2, <4>1
      <4> QED
        BY <2>2, <4>2
    <3>2. run.op \notin Visible
      BY <2>3 DEF Visible
    <3>3. ShownInv'
      BY <1>1, <1>2, <3>1, <3>2 DEF BotInv, ShownInv
    <3> QED
      BY <1>1, <1>2, <3>1, <3>3 DEF BotInv, Typed, ScreenInv, RevokedInv
  <2>4. CASE run.op \notin {"device:reissue", "custom_domain"}
    <3>1. m \in Messages /\ m # None
      BY <1>1, <2>2, <2>4 DEF Writes, UpdateOK
    <3>2. PICK k \in ScreenKinds, d \in Devices \cup {None} :
                 Shown = Screen(k, d, be) /\ (k \in {"manage", "link"} => d \in Devices)
      BY <1>1, ShownFacts
    <3>3. /\ msg' = [msg EXCEPT ![m] = Screen(k, d, be)]
          /\ outdated' = outdated \ {m} /\ last' = m
      BY <2>2, <3>1, <3>2
    <3> QED
      BY <1>2, <2>1, <3>1, <3>2, <3>3, WrittenStep
  <2> QED
    BY <2>3, <2>4
<1>7. Typed'
  <2>1. link' \in [Devices -> Nat]
    BY <1>1, <1>2, <1>3 DEF Typed
  <2> QED
    BY <1>1, <1>2, <1>4, <1>5, <1>6, <2>1 DEF Typed
<1>8. MintInv'
  <2>1. be.minted + 0 + 0 <= 1 + updates + faults
    BY <1>3 DEF BotInv, MintInv
  <2> QED
    BY <1>2, <1>5, <2>1 DEF BotInv, MintInv
<1>9. RevokedInv'
    BY <1>5, <1>6 DEF RevokedInv
<1>10. LinkInv'
  <2>1. link \in [Devices -> Nat]
    BY <1>1 DEF Typed
  <2>2. ASSUME NEW d \in Devices \ (Reserved \cup unsure)
        PROVE  link'[d] \in {0, be.link[d]} /\ (be.status[d] = "none" => link'[d] = 0)
    <3>1. CASE run.token # 0 /\ run.dev = d
      BY <1>1, <1>2, <2>1, <2>2, <3>1 DEF BotInv, LinkInv
    <3>2. CASE ~(run.token # 0 /\ run.dev = d)
      <4>1. link'[d] = link[d]
        BY <1>2, <2>1, <3>2
      <4> QED
        BY <1>1, <2>2, <3>2, <4>1 DEF BotInv, LinkInv
    <3> QED
      BY <3>1, <3>2
  <2> QED
    BY <1>2, <1>5, <2>2 DEF LinkInv, Reserved
<1> QED
    BY <1>5, <1>6, <1>7, <1>8, <1>9, <1>10 DEF BotInv

LEMMA ShowFailsStep ==
    ASSUME BotInv, ShowFails
    PROVE  BotInv'
<1> USE BotAssumption
<1>1. /\ Typed /\ run \in Runs /\ RunOK(run) /\ UpdateOK(run.upd) /\ run.pc = "show"
    BY DEF ShowFails, BotInv, RunInv, RunOK, Typed
<1>2. /\ run' = Return
      /\ be' = be /\ late' = late /\ awaiting' = awaiting /\ pending' = pending
      /\ msg' = msg /\ again' = again /\ updates' = updates /\ sent' = sent
      /\ asked' = asked /\ due' = due /\ outdated' = outdated /\ link' = link
      /\ last' = None /\ unsure' = unsure \cup LinkOf
    BY DEF ShowFails, userData
<1>3. /\ faults \in Nat /\ be.minted \in Nat /\ updates \in Nat
      /\ faults' \in 0 .. MaxFaults /\ faults <= faults'
  <2>1. faults' = faults \/ (faults < MaxFaults /\ faults' = faults + 1)
    BY DEF ShowFails
  <2> QED
    BY <1>1, <2>1 DEF Typed, Backends
<1>4. /\ RunInv' /\ PromptInv' /\ AskedInv' /\ DueInv'
      /\ run' \in Runs /\ run'.pc \in {"groups", "idle"} /\ run'.token = 0 /\ ~MayMint'
      /\ again' = NoUpdate /\ Old(run.upd)' /\ Old(again)'
  <2>1. UNCHANGED <<userData, again, asked>>
    BY <1>2 DEF userData
  <2>2. /\ \A k \in Prompts : sent'[k] = sent[k]
        /\ faults = 0 => sent'["plan:buy"] <= 1
        /\ faults' \in Nat /\ faults <= faults'
    BY <1>2, <1>3 DEF BotInv, PromptInv
  <2> QED
    BY <1>1, <1>2, <2>1, <2>2, ReturnStep
<1>5. /\ LinkOf \subseteq Devices
      /\ run.token # 0 => run.dev \in LinkOf
  <2>1. run.op = "device:sublink:rotate" => run.dev = run.arg /\ run.arg \in Devices
    <3>1. run.op = "device:sublink:rotate" => run.upd.kind # "text"
      BY <1>1 DEF RunOK, Order
    <3> QED
      BY <1>1, <3>1 DEF RunOK, UpdateOK, ArgOK, DeviceActs
  <2>2. run.dev \in Devices \cup {None} /\ (run.token # 0 => run.dev \in Devices)
    BY <1>1 DEF Runs, RunOK
  <2> QED
    BY <2>1, <2>2 DEF LinkOf
<1>6. Typed'
    BY <1>1, <1>2, <1>3, <1>4, <1>5 DEF Typed
<1>7. MintInv'
  <2>1. be.minted + 0 + 0 <= 1 + updates + faults
    BY <1>3 DEF BotInv, MintInv
  <2>2. be.minted + 0 + 0 <= 1 + updates + faults'
    BY <1>3, <2>1
  <2> QED
    BY <1>2, <1>4, <2>2 DEF BotInv, MintInv
<1>8. ScreenInv' /\ ShownInv' /\ RevokedInv'
    BY <1>2, <1>4 DEF BotInv, ScreenInv, ShownInv, RevokedInv
<1>9. LinkInv'
  <2>1. ASSUME NEW d \in Devices \ (Reserved \cup unsure')
        PROVE  link[d] \in {0, be.link[d]} /\ (be.status[d] = "none" => link[d] = 0)
    <3>1. d \in Devices \ (Reserved \cup unsure) /\ ~(run.token # 0 /\ run.dev = d)
      BY <1>2, <1>5, <2>1
    <3> QED
      BY <3>1 DEF BotInv, LinkInv
  <2> QED
    BY <1>2, <1>4, <2>1 DEF LinkInv, Reserved
<1> QED
    BY <1>4, <1>6, <1>7, <1>8, <1>9 DEF BotInv

-----------------------------------------------------------------------------
(* What happens around the chat.                                           *)

LEMMA LateCommitStep ==
    ASSUME BotInv, LateCommit
    PROVE  BotInv'
<1> USE BotAssumption
<1>1. PICK r \in late :
        /\ late' = late \ {r}
        /\ be' \in {be, Effect(be, r)}
        /\ outdated' = IF be' = be THEN outdated ELSE Outdate(r)
        /\ last' = None
        /\ unsure' = unsure \cup ({r.dev} \ {None})
        /\ UNCHANGED <<userData, msg, run, again, updates, faults, sent, asked, due, link>>
    BY DEF LateCommit
<1>2. /\ awaiting' = awaiting /\ pending' = pending /\ msg' = msg /\ run' = run /\ again' = again
      /\ updates' = updates /\ faults' = faults /\ sent' = sent /\ asked' = asked /\ due' = due
      /\ link' = link
    BY <1>1 DEF userData
<1>3. /\ Typed /\ r \in RequestRecords /\ LateOK(r) /\ r.token <= be.minted /\ r.token \in Nat
      /\ r.dev \in Devices \cup {None}
    BY DEF BotInv, Typed, MintInv, RequestRecords
<1>4. /\ be' \in Backends /\ be'.minted = be.minted
      /\ \A d \in Devices : be'.link[d] = be.link[d] \/ (d = r.dev /\ be'.link[d] = r.token)
      /\ \A d \in Devices : be'.status[d] = "none" => be.status[d] = "none"
      /\ \A d \in Devices : be'.status[d] = "revoked"
                              => be.status[d] = "revoked" \/ outdated' = Messages
      /\ outdated \subseteq outdated' /\ outdated' \subseteq Messages
  <2>1. be \in Backends /\ outdated \subseteq Messages
    BY <1>3 DEF Typed
  <2>2. CASE be' = be
    BY <1>1, <2>1, <2>2
  <2>3. CASE be' = Effect(be, r) /\ be' # be
    <3>1. Carried(be, be', r) /\ be'.minted = be.minted
      BY <1>3, <2>1, <2>3, EffectFacts
    <3>2. outdated' = Outdate(r)
      BY <1>1, <2>3
    <3> QED
      BY <2>1, <3>1, <3>2 DEF Carried, Outdate
  <2> QED
    BY <1>1, <2>2, <2>3
<1>5. Typed'
  <2>1. late' \subseteq RequestRecords /\ unsure' \subseteq Devices
    BY <1>1, <1>3 DEF Typed
  <2> QED
    BY <1>1, <1>2, <1>3, <1>4, <2>1 DEF Typed
<1>6. MintInv'
  <2>1. \A d \in Devices : be'.link[d] <= be'.minted
    BY <1>3, <1>4 DEF BotInv, MintInv
  <2>2. \A l \in late' : LateOK(l) /\ l.token <= be'.minted
    BY <1>1, <1>4 DEF BotInv, MintInv
  <2>3. MayMint' = MayMint
    BY <1>2 DEF MayMint
  <2> QED
    BY <1>2, <1>4, <2>1, <2>2, <2>3 DEF BotInv, MintInv
<1>7. RunInv' /\ ScreenInv' /\ PromptInv' /\ DueInv' /\ ShownInv'
    BY <1>1, <1>2 DEF BotInv, RunInv, ScreenInv, PromptInv, DueInv, ShownInv
<1>8. AskedInv'
    BY <1>2 DEF BotInv, AskedInv, ChosenBy, CreatesWhatWasAsked
<1>9. RevokedInv'
  <2>1. ASSUME NEW m \in Messages \ outdated',
               msg[m].kind = "manage" /\ be'.status[msg[m].dev] = "revoked"
        PROVE  msg[m].status = "revoked"
    <3>1. msg[m].dev \in Devices
      BY <2>1 DEF BotInv, ScreenInv, MessageOK
    <3> QED
      BY <1>4, <2>1, <3>1 DEF BotInv, RevokedInv
  <2>2. ASSUME NEW u, UpdateOK(u), Old(u)
        PROVE  u.act \in {"device:disable", "device:enable"} /\ be'.status[u.arg] = "revoked"
                 => u.msg \in outdated'
    <3>1. SUFFICES ASSUME u.act \in {"device:disable", "device:enable"},
                          be'.status[u.arg] = "revoked"
                   PROVE  u.msg \in outdated'
      OBVIOUS
    <3>2. u.arg \in Devices /\ u.msg \in Messages
      BY <2>2, <3>1 DEF UpdateOK, ArgOK, DeviceActs
    <3> QED
      BY <1>4, <2>2, <3>1, <3>2 DEF Old
  <2>3. Old(run.upd)'
    BY <1>2, <2>2 DEF BotInv, RunInv, RunOK, RevokedInv, Old
  <2>4. Old(again)'
    BY <1>2, <2>2 DEF BotInv, RunInv, RevokedInv, Old
  <2> QED
    BY <1>2, <2>1, <2>3, <2>4 DEF RevokedInv
<1>10. LinkInv'
  <2>1. ASSUME NEW d \in Devices \ (Reserved' \cup unsure')
        PROVE  /\ d \in Devices \ (Reserved \cup unsure) /\ be'.link[d] = be.link[d]
               /\ be'.status[d] = "none" => be.status[d] = "none"
    <3>1. d # r.dev /\ d \notin unsure
      BY <1>1, <2>1
    <3>2. d \notin Reserved
      BY <1>1, <2>1, <3>1 DEF Reserved
    <3> QED
      BY <1>4, <2>1, <3>1, <3>2
  <2> QED
    BY <1>2, <2>1 DEF BotInv, LinkInv
<1> QED
    BY <1>5, <1>6, <1>7, <1>8, <1>9, <1>10 DEF BotInv

LEMMA SweepStep ==
    ASSUME BotInv, Sweep
    PROVE  BotInv'
<1> USE BotAssumption
<1>1. /\ faults < MaxFaults /\ faults' = faults + 1 /\ last' = None
      /\ late' = late /\ awaiting' = awaiting /\ pending' = pending /\ msg' = msg /\ run' = run
      /\ again' = again /\ updates' = updates /\ sent' = sent /\ asked' = asked /\ due' = due
      /\ outdated' = outdated /\ link' = link /\ unsure' = unsure
    BY DEF Sweep, userData
<1>2. Typed /\ be \in Backends /\ faults \in Nat /\ updates \in Nat /\ be.minted \in Nat
    BY DEF BotInv, Typed, Backends
<1>3. /\ be' \in Backends /\ be'.minted = be.minted /\ be'.link = be.link
      /\ \A d \in Devices : be'.status[d] = IF be.status[d] = "active" THEN "disabled"
                                                                       ELSE be.status[d]
  <2> DEFINE st == [d \in Devices |-> IF be.status[d] = "active" THEN "disabled"
                                                                 ELSE be.status[d]]
  <2>1. st \in [Devices -> Statuses]
    BY <1>2 DEF Backends, Statuses
  <2>2. be' = [be EXCEPT !.status = st]
    BY DEF Sweep
  <2>3. \A d \in Devices : st[d] = IF be.status[d] = "active" THEN "disabled" ELSE be.status[d]
    OBVIOUS
  <2> HIDE DEF st
  <2>4. be' \in Backends /\ be'.minted = be.minted /\ be'.link = be.link /\ be'.status = st
    BY <1>2, <2>1, <2>2 DEF Backends
  <2> QED
    BY <2>3, <2>4
<1>4. \A d \in Devices : /\ be'.status[d] = "revoked" => be.status[d] = "revoked"
                         /\ be'.status[d] = "none" => be.status[d] = "none"
    BY <1>3
<1>5. Typed'
    BY <1>1, <1>2, <1>3 DEF Typed
<1>6. MintInv'
  <2>1. MayMint' = MayMint
    BY <1>1 DEF MayMint
  <2>2. be.minted + (IF MayMint THEN 1 ELSE 0) + (IF again # NoUpdate THEN 1 ELSE 0)
          <= 1 + updates + faults
    BY DEF BotInv, MintInv
  <2>3. be.minted + (IF MayMint THEN 1 ELSE 0) + (IF again # NoUpdate THEN 1 ELSE 0)
          <= 1 + updates + (faults + 1)
    BY <1>2, <2>2
  <2> QED
    BY <1>1, <1>3, <2>1, <2>3 DEF BotInv, MintInv
<1>7. RunInv' /\ ScreenInv' /\ DueInv' /\ ShownInv'
    BY <1>1 DEF BotInv, RunInv, ScreenInv, DueInv, ShownInv
<1>8. PromptInv'
    BY <1>1, <1>2 DEF BotInv, PromptInv
<1>9. AskedInv'
    BY <1>1 DEF BotInv, AskedInv, ChosenBy, CreatesWhatWasAsked
<1>10. RevokedInv'
  <2>1. \A m \in Messages : msg[m].kind = "manage" => msg[m].dev \in Devices
    BY DEF BotInv, ScreenInv, MessageOK
  <2>2. \A u : UpdateOK(u) /\ u.act \in {"device:disable", "device:enable"} => u.arg \in Devices
    BY DEF UpdateOK, ArgOK, DeviceActs
  <2>3. Old(run.upd)'
    BY <1>1, <1>4, <2>2 DEF BotInv, RunInv, RunOK, RevokedInv, Old
  <2>4. Old(again)'
    BY <1>1, <1>4, <2>2 DEF BotInv, RunInv, RevokedInv, Old
  <2> QED
    BY <1>1, <1>4, <2>1, <2>3, <2>4 DEF BotInv, RevokedInv
<1>11. LinkInv'
    BY <1>1, <1>3, <1>4 DEF BotInv, LinkInv, Reserved
<1> QED
    BY <1>5, <1>6, <1>7, <1>8, <1>9, <1>10, <1>11 DEF BotInv

LEMMA CrashStep ==
    ASSUME BotInv, Crash
    PROVE  BotInv'
<1> USE BotAssumption
<1>1. /\ faults < MaxFaults /\ faults' = faults + 1 /\ run' = Idle /\ awaiting' = {}
      /\ again' \in {again, run.upd}
      /\ pending' = <<None, "wireguard">> /\ due' = "none" /\ last' = None
      /\ unsure' = unsure \cup LinkOf
      /\ be' = be /\ late' = late /\ msg' = msg /\ updates' = updates /\ sent' = sent
      /\ asked' = asked /\ outdated' = outdated /\ link' = link
    BY DEF Crash
<1>2. /\ Typed /\ run \in Runs /\ RunOK(run) /\ UpdateOK(run.upd) /\ UpdateOK(again)
      /\ run.upd \in Updates /\ again \in Updates
      /\ faults \in Nat /\ updates \in Nat /\ be.minted \in Nat
      /\ run.pc # "idle" => again = NoUpdate
    BY DEF BotInv, RunInv, RunOK, Typed, Runs, Backends
<1>3. /\ LinkOf \subseteq Devices
      /\ run.token # 0 => run.pc = "show" /\ run.dev \in LinkOf
  <2>1. CASE run.pc \in {"idle", "groups"}
    <3>1. run.op = "none" /\ run.dev = None /\ run.token = 0
      BY <1>2, <2>1, IdleFacts DEF RunOK
    <3> QED
      BY <3>1 DEF LinkOf
  <2>2. CASE run.pc \in {"read", "call", "show"}
    <3>1. run.op = "device:sublink:rotate" =>
             run.arg \in Devices /\ (run.pc = "show" => run.dev = run.arg)
      <4>1. run.op = "device:sublink:rotate" => run.upd.kind # "text"
        BY <1>2, <2>2 DEF RunOK, Order
      <4> QED
        BY <1>2, <2>2, <4>1 DEF RunOK, UpdateOK, ArgOK, DeviceActs
    <3>2. run.dev \in Devices \cup {None}
          /\ (run.token # 0 => run.dev \in Devices /\ run.pc = "show")
      BY <1>2 DEF Runs, RunOK
    <3> QED
      BY <3>1, <3>2 DEF LinkOf
  <2> QED
    BY <1>2, <2>1, <2>2 DEF Runs
<1>4. /\ again' \in Updates /\ UpdateOK(again') /\ faults' \in 0 .. MaxFaults
  <2>1. again' = again \/ again' = run.upd
    BY <1>1
  <2> QED
    BY <1>1, <1>2, <2>1
<1>5. Typed'
  <2>1. pending' \in Choices
    BY <1>1 DEF Choices
  <2>2. unsure' \subseteq Devices
    BY <1>1, <1>2, <1>3 DEF Typed
  <2> QED
    BY <1>1, <1>2, <1>4, <2>1, <2>2, IdleFacts DEF Typed
<1>6. RunInv'
    BY <1>1, <1>4, IdleFacts DEF RunInv
<1>7. MintInv'
  <2>1. ~MayMint'
    BY <1>1, IdleFacts DEF MayMint
  <2>2. be.minted <= 1 + updates + faults
    BY <1>2 DEF BotInv, MintInv
  <2>3. /\ be.minted + 0 + 1 <= 1 + updates + (faults + 1)
        /\ be.minted + 0 + 0 <= 1 + updates + (faults + 1)
    BY <1>2, <2>2
  <2> QED
    BY <1>1, <2>1, <2>3 DEF BotInv, MintInv
<1>8. ScreenInv' /\ DueInv' /\ ShownInv'
  <2>1. PromptOf("none") = "none"
    BY DEF PromptOf
  <2> QED
    BY <1>1, <2>1, IdleFacts DEF BotInv, ScreenInv, DueInv, ShownInv
<1>9. PromptInv'
  <2>1. faults' # 0
    BY <1>1, <1>2
  <2>2. \A k \in Prompts : Renews(again', k) => Renews(run.upd, k) \/ Renews(again, k)
    BY <1>1
  <2> QED
    BY <1>1, <2>1, <2>2, IdleFacts DEF BotInv, PromptInv
<1>10. AskedInv'
  <2>1. ChosenBy(NoUpdate)' = asked'
    BY IdleFacts DEF ChosenBy
  <2>2. ChosenBy(again)' = asked'
    BY <1>1 DEF BotInv, AskedInv, ChosenBy
  <2> QED
    BY <1>1, <2>1, <2>2, IdleFacts DEF AskedInv, CreatesWhatWasAsked
<1>11. RevokedInv'
  <2>1. Old(NoUpdate)'
    BY IdleFacts DEF Old
  <2>2. Old(again)'
    BY <1>1 DEF BotInv, RevokedInv, Old
  <2> QED
    BY <1>1, <2>1, <2>2, IdleFacts DEF BotInv, RevokedInv
<1>12. LinkInv'
  <2>1. ASSUME NEW d \in Devices \ (Reserved \cup unsure')
        PROVE  link[d] \in {0, be.link[d]} /\ (be.status[d] = "none" => link[d] = 0)
    <3>1. d \in Devices \ (Reserved \cup unsure) /\ ~(run.token # 0 /\ run.dev = d)
      BY <1>1, <1>3, <2>1
    <3> QED
      BY <3>1 DEF BotInv, LinkInv
  <2> QED
    BY <1>1, <2>1, IdleFacts DEF LinkInv, Reserved
<1> QED
    BY <1>5, <1>6, <1>7, <1>8, <1>9, <1>10, <1>11, <1>12 DEF BotInv

-----------------------------------------------------------------------------
(* The theorems.                                                           *)

LEMMA Stutter ==
    ASSUME BotInv, UNCHANGED vars
    PROVE  BotInv'
<1>1. /\ be' = be /\ late' = late /\ awaiting' = awaiting /\ pending' = pending /\ msg' = msg
      /\ run' = run /\ again' = again /\ updates' = updates /\ faults' = faults /\ sent' = sent
      /\ asked' = asked /\ due' = due /\ outdated' = outdated /\ last' = last /\ link' = link
      /\ unsure' = unsure
    BY DEF vars, userData, history
<1>2. Typed' /\ RunInv' /\ ScreenInv' /\ PromptInv' /\ DueInv' /\ ShownInv'
    BY <1>1 DEF BotInv, Typed, RunInv, ScreenInv, PromptInv, DueInv, ShownInv
<1>3. MintInv' /\ AskedInv' /\ RevokedInv' /\ LinkInv'
    BY <1>1 DEF BotInv, MintInv, MayMint, AskedInv, ChosenBy, CreatesWhatWasAsked, RevokedInv, Old,
                LinkInv, Reserved
<1> QED
    BY <1>2, <1>3 DEF BotInv

LEMMA Inductive ==
    ASSUME BotInv, [Next]_vars
    PROVE  BotInv'
<1> HIDE DEF BotInv
<1>1. CASE \E m \in Messages : Tap(m)
    BY <1>1, TapStep
<1>2. CASE \E c \in Menus \cup {"start"} : Command(c)
    BY <1>2, CommandStep
<1>3. CASE Text \/ Redeliver
    BY <1>3, TextStep, RedeliverStep
<1>4. CASE TextGroup \/ ReadCategory
    BY <1>4, TextGroupStep, ReadCategoryStep
<1>5. CASE CallAnswered \/ CallAnsweredEarly \/ CallRefused \/ CallTimedOut
    BY <1>5, CallAnsweredStep, CallAnsweredEarlyStep, CallRefusedStep, CallTimedOutStep
<1>6. CASE Show \/ ShowFails
    BY <1>6, ShowStep, ShowFailsStep
<1>7. CASE LateCommit \/ Sweep \/ Crash
    BY <1>7, LateCommitStep, SweepStep, CrashStep
<1>8. CASE UNCHANGED vars
    BY <1>8, Stutter
<1> QED
    BY <1>1, <1>2, <1>3, <1>4, <1>5, <1>6, <1>7, <1>8 DEF Next, HandlerStep

(* The chat is always in a state of the invariant: every screen, update and *)
(* request is one of the program's, and the parts fit together.            *)
THEOREM Invariance == Spec => []BotInv
<1> HIDE DEF BotInv
<1> QED
    BY Initially, Inductive, PTL DEF Spec

(* The types: be and the requests hold tokens the bounds allow, the        *)
(* keyboards device ids, user_data flags and choices of the handlers.      *)
THEOREM TypeCorrect == Spec => []TypeOK
<1>1. BotInv => TypeOK
  <2> SUFFICES ASSUME BotInv PROVE TypeOK
    OBVIOUS
  <2> USE BotAssumption
  <2>1. Typed /\ be \in Backends /\ late \subseteq RequestRecords /\ run \in Runs
    BY DEF BotInv, Typed
  <2>2. be.minted \in Nat /\ be.link \in [Devices -> Nat] /\ updates \in 0 .. MaxUpdates
        /\ faults \in 0 .. MaxFaults
    BY <2>1 DEF Typed, Backends
  <2>3. be.minted <= 1 + updates + faults
    BY <2>2 DEF BotInv, MintInv
  <2>4. \A n \in Nat : n <= be.minted => n \in Tokens
    BY <2>2, <2>3 DEF Tokens
  <2>5. be.link \in [Devices -> Tokens] /\ be.minted \in Tokens
    BY <2>2, <2>4 DEF BotInv, MintInv
  <2>6. \A r \in late : r.op \in Mutating \cup Prompts \cup {"smart:cat"} /\ r.token \in Tokens
    <3>1. \A r \in late : LateOK(r) /\ r.token <= be.minted /\ r.token \in Nat
      BY <2>1 DEF BotInv, MintInv, RequestRecords
    <3> QED
      BY <2>4, <3>1 DEF LateOK, Sending
  <2>7. \A m \in Messages : msg[m].kind # "manage" \/ msg[m].dev \in Devices
    BY DEF BotInv, ScreenInv, MessageOK
  <2>8. be \in [registered : BOOLEAN, mode : {"full_vpn", "smart_vpn"}, cats : SUBSET Categories,
                status : [Devices -> Statuses], link : [Devices -> Tokens], minted : Tokens]
    BY <2>1, <2>5 DEF Backends, Modes
  <2> QED
    BY <2>1, <2>6, <2>7, <2>8 DEF TypeOK, Typed, Runs
<1> QED
    BY <1>1, Invariance, PTL

(* A prompt the user tapped is answered by at most one request, and a plan *)
(* by one payment unless something failed: device_name_message_handler and *)
(* its like lower their flag before they call the backend.                 *)
THEOREM OnePerPrompt == Spec => []OneRequestPerPrompt
<1>1. BotInv => OneRequestPerPrompt
    BY DEF BotInv, PromptInv, OneRequestPerPrompt
<1> QED
    BY <1>1, Invariance, PTL

(* A device is created with the server and the protocol of the prompt      *)
(* tapped last (device_new_callback and device_new_protocol_callback).     *)
THEOREM AsAsked == Spec => []CreatesWhatWasAsked
<1>1. BotInv => CreatesWhatWasAsked
    BY DEF BotInv, AskedInv
<1> QED
    BY <1>1, Invariance, PTL

(* The message written last shows what the backend holds: what a button    *)
(* changes is read again before the handler writes (_toggle_device).       *)
THEOREM Current == Spec => []ShownIsCurrent
<1>1. BotInv => ShownIsCurrent
    BY DEF BotInv, ShownInv, ShownIsCurrent
<1> QED
    BY <1>1, Invariance, PTL

(* The link the user was shown last works, unless an answer about it was   *)
(* lost or came before its commit (_send_subscription_link).               *)
THEOREM LinkWorks == Spec => []LinkShownWorks
<1>1. BotInv => LinkShownWorks
    BY DEF BotInv, LinkInv, LinkShownWorks
<1> QED
    BY <1>1, Invariance, PTL

(* When the bot is done with a text, the prompt shown last has been        *)
(* answered by it (the handler groups of build_application).               *)
THEOREM TextAnswers == Spec => TextAnswersPrompt
<1>1. ASSUME BotInv, [Next]_vars
      PROVE  [run.upd.kind = "text" /\ run'.pc = "idle" => due' = "none"]_vars
  <2> SUFFICES ASSUME Next, run.upd.kind = "text", run'.pc = "idle" PROVE due' = "none"
    BY <1>1
  <2>1. run.pc # "idle" /\ RunInv /\ Typed
    BY <1>1, IdleFacts DEF BotInv, RunInv, RunOK
  <2>2. Return.pc # "idle"
    <3>1. [run EXCEPT !.pc = "groups", !.op = "none", !.group = run.group + 1, !.dev = None,
                      !.token = 0].pc = "groups"
      BY <2>1 DEF Typed, Runs
    <3> QED
      BY <3>1 DEF Return
  <2>3. ~(run' = Return) /\ run' # run
    BY <2>1, <2>2
  <2>4. ASSUME NEW u, Handle(u) PROVE FALSE
    BY <2>1, <2>4 DEF Handle
  <2>5. \A m \in Messages : ~Tap(m)
    BY <2>4 DEF Tap, Receive
  <2>6. \A c : ~Command(c)
    BY <2>4 DEF Command, Receive
  <2>7. ~Text /\ ~Redeliver
    BY <2>4 DEF Text, Receive, Redeliver
  <2>8. ~CallRefused /\ ~CallTimedOut /\ ~Show /\ ~ShowFails
    BY <2>3 DEF CallRefused, CallTimedOut, Show, ShowFails
  <2>9. ~LateCommit /\ ~Sweep
    BY <2>3 DEF LateCommit, Sweep
  <2>10. ~CallAnswered /\ ~CallAnsweredEarly
    <3>1. \A r : [run EXCEPT !.pc = "show", !.dev = r.dev, !.token = r.token].pc = "show"
      BY <2>1 DEF Typed, Runs
    <3> QED
      BY <3>1 DEF CallAnswered, CallAnsweredEarly
  <2>11. ~ReadCategory
    <3>1. ReadCategory => run.pc = "read"
      BY DEF ReadCategory
    <3> QED
      BY <2>1, <3>1 DEF RunInv, RunOK, Order
  <2>12. CASE Crash
    BY <2>12 DEF Crash
  <2>13. CASE TextGroup
    <3> DEFINE gs == {g \in run.group .. 3 : Order[g] \in awaiting}
    <3>1. run.pc = "groups"
      BY <2>13 DEF TextGroup
    <3>2. CASE gs = {}
      <4>1. due' = due
        BY <2>13, <3>2 DEF TextGroup, Wants
      <4>2. due # "none" => \E g \in 1 .. 3 : Order[g] = due /\ run.group <= g /\ due \in awaiting
        BY <1>1, <3>1 DEF BotInv, DueInv
      <4>3. run.group \in 0 .. 4
        BY <2>1 DEF Typed, Runs
      <4> QED
        BY <3>2, <4>1, <4>2, <4>3
    <3>3. CASE gs # {}
      <4>1. PICK g \in gs :
              run' = [run EXCEPT !.pc = "call", !.group = g, !.op = Order[g],
                        !.arg = IF Order[g] = "device_name" THEN pending[1] ELSE None,
                        !.opt = IF Order[g] = "device_name" THEN pending[2] ELSE "none"]
        BY <2>13, <3>3 DEF TextGroup, Wants
      <4>2. run'.pc = "call"
        BY <2>1, <4>1 DEF Typed, Runs
      <4> QED
        BY <4>2
    <3> QED
      BY <3>2, <3>3
  <2> QED
    BY <2>5, <2>6, <2>7, <2>8, <2>9, <2>10, <2>11, <2>12, <2>13 DEF Next, HandlerStep
<1> QED
    BY <1>1, Invariance, PTL DEF Spec, TextAnswersPrompt

(* A revoked device comes back only through a button of a message written  *)
(* before it was revoked, or a request left behind: device_manage_keyboard *)
(* offers no way back.                                                     *)
THEOREM RevokedStays == Spec => RevokedStaysRevoked
<1> DEFINE Kept == \A d \in Devices : be.status[d] = "revoked" /\ be'.status[d] # "revoked"
                                        => run.upd.msg \in outdated \/ late' # late
<1>1. ASSUME BotInv, [Next]_vars
      PROVE  [Kept]_vars
  <2> SUFFICES ASSUME Next, NEW d \in Devices, be.status[d] = "revoked",
                      be'.status[d] # "revoked", late' = late
               PROVE  run.upd.msg \in outdated
    BY <1>1
  <2>1. /\ be' # be /\ Typed /\ RunOK(run) /\ Old(run.upd) /\ be \in Backends
    BY <1>1 DEF BotInv, RunInv, RevokedInv, Typed
  <2>2. ASSUME NEW u, Handle(u) PROVE FALSE
    BY <2>1, <2>2 DEF Handle
  <2>3. \A m \in Messages : ~Tap(m)
    BY <2>2 DEF Tap, Receive
  <2>4. \A c : ~Command(c)
    BY <2>2 DEF Command, Receive
  <2>5. ~Text /\ ~Redeliver
    BY <2>2 DEF Text, Receive, Redeliver
  <2>6. ~TextGroup /\ ~ReadCategory /\ ~CallRefused /\ ~Show /\ ~ShowFails /\ ~Crash
    BY <2>1 DEF TextGroup, ReadCategory, CallRefused, Show, ShowFails, Crash
  <2>7. ~LateCommit
    BY DEF LateCommit
  <2>8. ~Sweep
    <3>1. SUFFICES ASSUME Sweep PROVE FALSE
      OBVIOUS
    <3>2. be'.status = [e \in Devices |-> IF be.status[e] = "active" THEN "disabled"
                                                                    ELSE be.status[e]]
      BY <2>1, <3>1 DEF Sweep, Backends
    <3> QED
      BY <3>2
  <2>9. CASE CallAnswered \/ CallAnsweredEarly \/ CallTimedOut
    <3>1. PICK r \in Accepted(Request) : /\ run.pc = "call"
                                         /\ \/ be' = Minted(Effect(be, r), r)
                                            \/ be' = Minted(be, r)
      BY <2>1, <2>9 DEF CallAnswered, CallAnsweredEarly, CallTimedOut
    <3>2. /\ r \in RequestRecords /\ LateOK(r) /\ r.op = run.op /\ r.arg = run.arg
          /\ run.op = "device_name" => be.status[r.dev] = "none"
      BY <1>1, <3>1, AcceptedFacts DEF BotInv
    <3>3. be' = Minted(Effect(be, r), r)
      <4>1. Minted(be, r).status = be.status
        BY <2>1, <3>2, MintedFacts
      <4> QED
        BY <3>1, <4>1
    <3>4. Carried(be, be', r)
      BY <2>1, <3>2, <3>3, AnsweredFacts
    <3>5. r.op \in {"device:disable", "device:enable", "device:revoke"} /\ d = r.arg
      BY <3>2, <3>4 DEF Carried
    <3>6. r.op # "device:revoke"
      <4>1. SUFFICES ASSUME r.op = "device:revoke" PROVE FALSE
        OBVIOUS
      <4>2. Effect(be, r) = [be EXCEPT !.status[r.arg] = "revoked"]
        BY <4>1 DEF Effect
      <4>3. Effect(be, r).status = [be.status EXCEPT ![r.arg] = "revoked"]
            /\ Effect(be, r) \in Backends
        BY <2>1, <3>2, <3>5, <4>2, EffectFacts DEF Backends, Carried
      <4>4. be'.status = Effect(be, r).status
        BY <3>2, <3>3, <4>3, MintedFacts
      <4> QED
        BY <2>1, <3>5, <4>3, <4>4 DEF Backends
    <3>7. run.upd.kind # "text"
      BY <2>1, <3>1, <3>2, <3>5 DEF RunOK, Order
    <3>8. run.upd.act \in {"device:disable", "device:enable"} /\ run.upd.arg = d
      BY <2>1, <3>1, <3>2, <3>5, <3>6, <3>7 DEF RunOK
    <3> QED
      BY <2>1, <3>8 DEF Old
  <2> QED
    BY <2>3, <2>4, <2>5, <2>6, <2>7, <2>8, <2>9 DEF Next, HandlerStep
<1>2. [][Kept]_vars => RevokedStaysRevoked
    BY DEF RevokedStaysRevoked
<1> HIDE DEF Kept
<1> QED
    BY <1>1, <1>2, Invariance, PTL DEF Spec
=============================================================================
