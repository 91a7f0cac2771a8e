-------------------------------- MODULE Bot --------------------------------
(***************************************************************************)
(* The Telegram bot in one user's chat: the handlers of main.py, the inline *)
(* keyboards, user_data and the calls of BackendClient.                    *)
(*                                                                         *)
(* Updates are handled one at a time.  What makes the chat hard is what is *)
(* not in step with it: buttons of old messages stay, a call that timed    *)
(* out may still take effect, the backend commits after it has answered,   *)
(* the expiry sweep disables devices, and a crash loses user_data while    *)
(* Telegram delivers the interrupted update again.                         *)
(*                                                                         *)
(* The backend is what its answers show: Devices, Delivery and Routing     *)
(* model what is behind them.                                              *)
(***************************************************************************)
EXTENDS Naturals, FiniteSets

CONSTANTS
    Devices,     \* device ids
    Wireguard,   \* the ids that WireGuard devices get
    Servers,     \* servers of the "Servers" list
    Categories,  \* routing categories
    Plans,
    Messages,    \* the messages of the chat whose buttons the user may press
    None,
    MaxUpdates,  \* bound: taps, commands and texts
    MaxFaults    \* bound: timeouts, early answers, failed replies, crashes, sweeps

ASSUME BotAssumption == /\ Wireguard \subseteq Devices
                        /\ None \notin Devices \cup Servers \cup Categories \cup Plans \cup Messages
                        /\ MaxUpdates \in Nat /\ MaxFaults \in Nat

VARIABLES
    be,        \* the backend, as far as the bot can read it
    late,      \* requests the backend has not committed though the bot went on
    awaiting,  \* user_data: the awaiting_* flags
    pending,   \* user_data: pending_device_server_id and pending_device_protocol
    msg,       \* the messages: screen and what it shows
    run,       \* the update being handled
    again,     \* the update Telegram delivers again after a crash
    updates, faults,
    sent,      \* history: requests sent for each prompt since it was last tapped
    asked,     \* history: server and protocol of the last name prompt tapped
    due,       \* history: the prompt shown last and not answered, lost in a crash
    outdated,  \* history: messages written before some device was revoked
    last,      \* history: the message written last; None once something unseen changed
    link,      \* history: the last link shown for each device (0 is none)
    unsure     \* history: devices for whose link an answer was lost, late or early

userData == <<awaiting, pending>>
history  == <<sent, asked, due, outdated, last, link, unsure>>
vars     == <<be, late, userData, msg, run, again, updates, faults, history>>

Prompts == {"device_name", "custom_domain", "support_message"}
Statuses == {"none", "active", "disabled", "revoked"}
Choices == (Servers \cup {None}) \X {"wireguard", "vless"}
Tokens  == 0 .. MaxUpdates + MaxFaults + 1

Protocol(d) == IF d \in Wireguard THEN "wireguard" ELSE "vless"

Button(act, arg) == [act |-> act, arg |-> arg]
Menus == {"menu:main", "menu:servers", "menu:smart", "menu:devices", "menu:subscription",
          "menu:profile", "menu:support"}

Blank   == [kind |-> "none", dev |-> None, devs |-> {}, status |-> "none", mode |-> "full_vpn",
            cats |-> {}]
NoUpdate == [kind |-> "none", act |-> "none", arg |-> None, msg |-> None]
Idle    == [pc |-> "idle", upd |-> NoUpdate, op |-> "none", arg |-> None, opt |-> "none",
            group |-> 0, dev |-> None, token |-> 0]

-----------------------------------------------------------------------------
(* The inline keyboards. *)

MainMenu   == {Button(a, None) : a \in (Menus \ {"menu:main"}) \cup {"device:new"}}
BackToMain == {Button("menu:main", None)}

ProtocolChoice == BackToMain \cup {Button("device:new:proto", p) : p \in {"wireguard", "vless"}}

DevicesKeyboard(s) == BackToMain \cup {Button("device:new", None)}
                                 \cup {Button("device:manage", d) : d \in s.devs}

(* Mutant: every device that is not active gets the enable button. *)
DeviceManageAlwaysToggles(s) ==
    {Button("device:sublink:view", s.dev), Button("device:revoke", s.dev),
     Button("menu:devices", None),
     Button(IF s.status = "active" THEN "device:disable" ELSE "device:enable", s.dev)}

DeviceManage(s) ==
    LET When(yes, a) == IF yes THEN {Button(a, s.dev)} ELSE {}
    IN  {Button("device:sublink:view", s.dev), Button("device:revoke", s.dev),
         Button("menu:devices", None)}
        \cup When(s.dev \in Wireguard, "device:reissue")
        \cup When(s.status = "active", "device:disable")
        \cup When(s.status = "disabled", "device:enable")

SubscriptionLink(s) == {Button("device:sublink:rotate", s.dev), Button("device:manage", s.dev)}
PlansKeyboard       == BackToMain \cup {Button("plan:buy", p) : p \in Plans}
ServersKeyboard     == BackToMain \cup {Button("device:new:server", s) : s \in Servers}

SmartMode(s) == BackToMain
    \cup {Button("smart:mode", m) : m \in {"full_vpn", "smart_vpn"}}
    \cup IF s.mode = "smart_vpn"
         THEN {Button("smart:categories", None), Button("smart:add_domain", None)} ELSE {}

CategoriesKeyboard == {Button("menu:smart", None)}
                      \cup {Button("smart:cat", c) : c \in Categories}

Keyboard(s) ==
    CASE s.kind = "main"       -> MainMenu
      [] s.kind = "text"       -> BackToMain
      [] s.kind = "protocols"  -> ProtocolChoice
      [] s.kind \in {"devices", "missing"} -> DevicesKeyboard(s)
      [] s.kind = "manage"     -> DeviceManage(s)
      [] s.kind = "link"       -> SubscriptionLink(s)
      [] s.kind = "plans"      -> PlansKeyboard
      [] s.kind = "servers"    -> ServersKeyboard
      [] s.kind = "smart"      -> SmartMode(s)
      [] s.kind = "categories" -> CategoriesKeyboard
      [] OTHER                 -> {}

-----------------------------------------------------------------------------
(* What the backend answers.  Every call but /auth/telegram needs a user   *)
(* that exists, and a call on a device the device; the rest of a refusal   *)
(* (limit, subscription, an agent that does not answer) may happen to any  *)
(* request.                                                                *)

Reserved == {l.dev : l \in late}
Free(p)  == {d \in Devices \ Reserved : be.status[d] = "none" /\ Protocol(d) = p}

(* The requests the backend may make of the one the bot sends: a new       *)
(* device gets an id, a new link a fresh token.                            *)
Accepted(r) ==
    IF \/ ~be.registered /\ r.op # "start"
       \/ r.arg \in Devices /\ be.status[r.arg] = "none" THEN {} ELSE
    CASE r.op = "device_name" ->
             {[r EXCEPT !.dev = d, !.token = be.minted + 1] : d \in Free(r.opt)}
      [] r.op = "device:sublink:rotate" ->
             {[r EXCEPT !.dev = r.arg, !.token = be.minted + 1]}
      [] r.op = "device:reissue" -> {r : x \in {r.arg} \cap Wireguard}
      [] OTHER -> {r}

Minted(b, r) == [b EXCEPT !.minted = IF r.token > b.minted THEN r.token ELSE b.minted]

(* Mutant: a reissued device gets a new link nobody is told of. *)
EffectReissueRotates(b, r) ==
    CASE r.op = "device:reissue"        -> [b EXCEPT !.link[r.arg] = b.minted + 1]
      [] r.op = "device_name"           -> [b EXCEPT !.status[r.dev] = "active",
                                                     !.link[r.dev] = r.token]
      [] r.op = "start"                 -> [b EXCEPT !.registered = TRUE]
      [] OTHER                          -> b

(* What a request changes when it commits; a payment, a domain, a ticket   *)
(* and a reissued key do not show in the chat.                             *)
Effect(b, r) ==
    CASE r.op = "start"                 -> [b EXCEPT !.registered = TRUE]
      [] r.op = "device:disable"        -> [b EXCEPT !.status[r.arg] = "disabled"]
      [] r.op = "device:enable"         -> [b EXCEPT !.status[r.arg] = "active"]
      [] r.op = "device:revoke"         -> [b EXCEPT !.status[r.arg] = "revoked"]
      [] r.op = "device:sublink:rotate" -> [b EXCEPT !.link[r.dev] = r.token]
      [] r.op = "device_name"           -> [b EXCEPT !.status[r.dev] = "active",
                                                     !.link[r.dev] = r.token]
      [] r.op = "smart:mode"            -> [b EXCEPT !.mode = r.arg]
      [] r.op = "smart:cat"             -> [b EXCEPT !.cats = IF r.opt = "on" THEN @ \cup {r.arg}
                                                                              ELSE @ \ {r.arg}]
      [] OTHER                          -> b

(* The screens, read from the backend when they are written.               *)
Screen(kind, d, b) ==
    CASE kind = "devices" ->
             [Blank EXCEPT !.kind = kind,
                           !.devs = {x \in Devices : b.status[x] \in {"active", "disabled"}}]
      [] kind = "manage" -> IF b.status[d] = "none" THEN [Blank EXCEPT !.kind = "missing"] ELSE
                            [Blank EXCEPT !.kind = kind, !.dev = d, !.status = b.status[d]]
      [] kind = "link"   -> [Blank EXCEPT !.kind = kind, !.dev = d]
      [] kind = "smart"  -> [Blank EXCEPT !.kind = kind, !.mode = b.mode]
      [] kind = "categories" -> [Blank EXCEPT !.kind = kind, !.cats = b.cats]
      [] OTHER -> [Blank EXCEPT !.kind = kind]

(* The screen each button and command ends in.                             *)
Shows(act) ==
    CASE act \in {"start", "menu:main"}                                -> "main"
      [] act \in {"menu:devices", "device:revoke"}                     -> "devices"
      [] act \in {"device:manage", "device:disable", "device:enable"}  -> "manage"
      [] act \in {"device:sublink:view", "device:sublink:rotate"}      -> "link"
      [] act \in {"menu:smart", "smart:mode"}                          -> "smart"
      [] act \in {"smart:categories", "smart:cat"}                     -> "categories"
      [] act \in {"menu:profile", "menu:support", "plan:buy"}          -> "text"
      [] act = "menu:subscription"                                     -> "plans"
      [] act = "menu:servers"                                          -> "servers"
      [] act = "device:new"                                            -> "protocols"
      [] OTHER                                                         -> "plain"

(* The buttons that ask for a text and the flag each sets.                 *)
PromptOf(act) == CASE act \in {"device:new:server", "device:new:proto"} -> "device_name"
                   [] act = "smart:add_domain"                          -> "custom_domain"
                   [] act = "menu:support"                              -> "support_message"
                   [] OTHER                                             -> "none"

(* These do not ask the backend. *)
Local(act) == act = "device:new" \/ PromptOf(act) # "none"

Mutating == {"start", "device:reissue", "device:disable", "device:enable", "device:revoke",
             "device:sublink:rotate", "plan:buy", "smart:mode"}

-----------------------------------------------------------------------------
(* An update reaches its handler.                                          *)

(* Mutant: the wrong part of the callback data is taken for the protocol. *)
ChoiceWrongPart(u) == CASE u.act = "device:new:server" -> <<u.arg, "wireguard">>
                        [] u.act = "device:new:proto"  -> <<None, "proto">>
                        [] OTHER                       -> pending

(* Mutant: picking a server leaves the protocol of an earlier choice. *)
ChoiceKeepsProtocol(u) == CASE u.act = "device:new:server" -> <<u.arg, pending[2]>>
                            [] u.act = "device:new:proto"  -> <<None, u.arg>>
                            [] OTHER                       -> pending

Choice(u) == CASE u.act = "device:new:server" -> <<u.arg, "wireguard">>
               [] u.act = "device:new:proto"  -> <<None, u.arg>>
               [] OTHER                       -> pending

FirstStep(u) == CASE u.kind = "text"       -> "groups"
                  [] u.act = "smart:cat"   -> "read"
                  [] u.act \in Mutating    -> "call"
                  [] OTHER                 -> "show"

Handle(u) ==
    /\ run.pc = "idle"
    /\ run' = [Idle EXCEPT !.pc = FirstStep(u), !.upd = u, !.op = u.act, !.arg = u.arg,
                           !.group = 1]
    /\ awaiting' = awaiting \cup ({PromptOf(u.act)} \ {"none"})
    /\ pending' = Choice(u)
    /\ UNCHANGED <<be, late, msg, faults, due, outdated, last, link, unsure>>

(* The user does something: it renews the prompt it taps.                  *)
Receive(u) ==
    /\ again = NoUpdate /\ updates < MaxUpdates
    /\ updates' = updates + 1
    /\ Handle(u)
    /\ sent' = [k \in DOMAIN sent |-> IF k \in {PromptOf(u.act), u.act} THEN 0 ELSE sent[k]]
    /\ asked' = CASE u.act = "device:new:server" -> <<u.arg, "wireguard">>
                  [] u.act = "device:new:proto"  -> <<None, u.arg>>
                  [] OTHER                       -> asked
    /\ UNCHANGED again

Tap(m) == \E b \in Keyboard(msg[m]) :
              Receive([kind |-> "tap", act |-> b.act, arg |-> b.arg, msg |-> m])
Command(c) == Receive([NoUpdate EXCEPT !.kind = "command", !.act = c])
Text       == Receive([NoUpdate EXCEPT !.kind = "text"])

(* Telegram delivers again what the crashed bot had not acknowledged.      *)
Redeliver == /\ again # NoUpdate /\ again' = NoUpdate
             /\ Handle(again)
             /\ UNCHANGED <<updates, sent, asked>>

-----------------------------------------------------------------------------
(* The steps of a handler.                                                 *)

Order == <<"device_name", "custom_domain", "support_message">>

Return == IF run.upd.kind = "text"
          THEN [run EXCEPT !.pc = "groups", !.op = "none", !.group = @ + 1, !.dev = None,
                           !.token = 0]
          ELSE Idle

(* Mutant: the flag stays up. *)
ResetKeepsFlag(k) == awaiting

Reset(k) == awaiting \ {k}

(* Mutant: one group, in which only the first handler sees a text. *)
WantsFirstOnly(g) == g = 1 /\ Order[g] \in awaiting

Wants(g) == Order[g] \in awaiting

(* The text handlers, each in a group of its own: the next one whose flag  *)
(* is set lowers it and makes its call; after the last the text is done.   *)
TextGroup ==
    /\ run.pc = "groups"
    /\ LET gs == {g \in run.group .. 3 : Wants(g)} IN
       IF gs = {}
       THEN run' = Idle /\ UNCHANGED <<userData, sent, due>>
       ELSE \E g \in gs :
              LET k == Order[g] IN
              /\ \A h \in gs : g <= h
              /\ awaiting' = Reset(k)
              /\ pending' = IF k = "device_name" THEN <<None, "wireguard">> ELSE pending
              /\ run' = [run EXCEPT !.pc = "call", !.group = g, !.op = k,
                                    !.arg = IF k = "device_name" THEN pending[1] ELSE None,
                                    !.opt = IF k = "device_name" THEN pending[2] ELSE "none"]
              /\ sent' = [sent EXCEPT ![k] = IF @ = 2 THEN 2 ELSE @ + 1]
              /\ due' = IF due = k THEN "none" ELSE due
    /\ UNCHANGED <<be, late, msg, again, updates, faults, asked, outdated, last, link, unsure>>

(* Toggling a category: the settings are read, then the opposite written.  *)
ReadCategory ==
    /\ run.pc = "read"
    /\ run' = IF be.registered
              THEN [run EXCEPT !.pc = "call", !.opt = IF run.arg \in be.cats THEN "off" ELSE "on"]
              ELSE Idle
    /\ UNCHANGED <<be, late, userData, msg, again, updates, faults, history>>

Request == [op |-> run.op, arg |-> run.arg, opt |-> run.opt, dev |-> None, token |-> 0]

(* The device whose link the handler is making. *)
LinkOf       == (IF run.op = "device:sublink:rotate" THEN {run.arg} ELSE {run.dev}) \ {None}
Outdate(r)   == IF r.op = "device:revoke" THEN Messages ELSE outdated
CountPayment == sent' = [sent EXCEPT !["plan:buy"] = IF run.op # "plan:buy" \/ @ = 2
                                                     THEN @ ELSE @ + 1]

(* The request is carried out and answered. *)
CallAnswered ==
    /\ run.pc = "call"
    /\ \E r \in Accepted(Request) :
          /\ be' = Minted(Effect(be, r), r)
          /\ run' = [run EXCEPT !.pc = "show", !.dev = r.dev, !.token = r.token]
          /\ outdated' = Outdate(r)
    /\ CountPayment
    /\ UNCHANGED <<late, userData, msg, again, updates, faults, asked, due, last, link, unsure>>

(* The request is answered, and committed only later: get_db commits when  *)
(* the response has been sent.                                             *)
CallAnsweredEarly ==
    /\ run.pc = "call" /\ faults < MaxFaults
    /\ \E r \in Accepted(Request) :
          /\ be' = Minted(be, r)
          /\ late' = late \cup {r}
          /\ run' = [run EXCEPT !.pc = "show", !.dev = r.dev, !.token = r.token]
    /\ faults' = faults + 1
    /\ CountPayment
    /\ UNCHANGED <<userData, msg, again, updates, asked, due, outdated, last, link, unsure>>

(* BackendError.  Three handlers catch it and say so; the others leave it  *)
(* to on_error, which writes a message without buttons.                    *)
CallRefused ==
    /\ run.pc = "call"
    /\ run' = Return
    /\ CASE run.op = "device_name" ->
              \E m \in Messages : /\ msg' = [msg EXCEPT ![m] = Screen("main", None, be)]
                                  /\ outdated' = outdated \ {m} /\ last' = m
         [] run.op \in {"device:reissue", "device:sublink:rotate"} ->
              /\ msg' = [msg EXCEPT ![run.upd.msg] = Screen("plain", None, be)]
              /\ outdated' = outdated \ {run.upd.msg} /\ last' = run.upd.msg
         [] OTHER -> UNCHANGED <<msg, outdated, last>>
    /\ CountPayment
    /\ UNCHANGED <<be, late, userData, again, updates, faults, asked, due, link, unsure>>

(* No answer within request_timeout_seconds: not a BackendError, so        *)
(* on_error it is.  The request was lost, or takes effect now or later.    *)
CallTimedOut ==
    /\ run.pc = "call" /\ faults < MaxFaults
    /\ \/ be' = be /\ UNCHANGED <<late, outdated>>
       \/ \E r \in Accepted(Request) :
            \/ be' = Minted(Effect(be, r), r) /\ outdated' = Outdate(r) /\ UNCHANGED late
            \/ be' = Minted(be, r) /\ late' = late \cup {r} /\ UNCHANGED outdated
    /\ run' = Return
    /\ faults' = faults + 1
    /\ last' = None
    /\ unsure' = unsure \cup LinkOf
    /\ CountPayment
    /\ UNCHANGED <<userData, msg, again, updates, asked, due, link>>

(* Mutant: a toggle is acknowledged, and its message left as it was. *)
WritesNoToggle ==
    IF run.op \in {"device:reissue", "custom_domain", "device:disable", "device:enable"} THEN {None}
    ELSE IF run.upd.kind = "tap" /\ run.op # "device:sublink:rotate" THEN {run.upd.msg}
    ELSE Messages

(* A button edits its message; anything else is a new message, which takes *)
(* the place of one the user no longer looks at.                           *)
Writes == IF run.op \in {"device:reissue", "custom_domain"} THEN {None}
          ELSE IF run.upd.kind = "tap" /\ run.op # "device:sublink:rotate" THEN {run.upd.msg}
          ELSE Messages

Shown == CASE run.op = "device_name"     -> Screen("link", run.dev, be)
           [] run.op = "support_message" -> Screen("text", None, be)
           [] OTHER                      -> Screen(Shows(run.op), run.arg, be)

(* Looking at the link of a device that does not exist is an error, its    *)
(* management screen says so itself.                                       *)
Readable == \/ Local(run.op)
            \/ be.registered /\ (run.op = "device:sublink:view" => be.status[run.arg] # "none")

(* The handler reads what it shows and replies. *)
Show ==
    /\ run.pc = "show"
    /\ Readable
    /\ \E m \in Writes :
          IF m = None THEN UNCHANGED <<msg, outdated, last>>
          ELSE /\ msg' = [msg EXCEPT ![m] = Shown]
               /\ outdated' = outdated \ {m}
               /\ last' = m
    /\ link' = IF run.token # 0 THEN [link EXCEPT ![run.dev] = run.token] ELSE link
    /\ due' = IF PromptOf(run.op) # "none" THEN PromptOf(run.op) ELSE due
    /\ run' = Return
    /\ UNCHANGED <<be, late, userData, again, updates, faults, sent, asked, unsure>>

(* Reading or replying fails: on_error.                                    *)
ShowFails ==
    /\ run.pc = "show"
    /\ \/ ~Readable /\ UNCHANGED faults
       \/ faults < MaxFaults /\ faults' = faults + 1
    /\ run' = Return
    /\ last' = None
    /\ unsure' = unsure \cup LinkOf
    /\ UNCHANGED <<be, late, userData, msg, again, updates, sent, asked, due, outdated, link>>

-----------------------------------------------------------------------------
(* What happens around the chat.                                           *)

(* A request left behind commits, or is rolled back.                       *)
LateCommit ==
    \E r \in late :
        /\ late' = late \ {r}
        /\ be' \in {be, Effect(be, r)}
        /\ outdated' = IF be' = be THEN outdated ELSE Outdate(r)
        /\ last' = None
        /\ unsure' = unsure \cup ({r.dev} \ {None})
        /\ UNCHANGED <<userData, msg, run, again, updates, faults, sent, asked, due, link>>

(* The expiry worker disables the user's devices. *)
Sweep ==
    /\ faults < MaxFaults /\ faults' = faults + 1
    /\ \E d \in Devices : be.status[d] = "active"
    /\ be' = [be EXCEPT !.status = [d \in Devices |-> IF @[d] = "active" THEN "disabled" ELSE @[d]]]
    /\ last' = None
    /\ UNCHANGED <<late, userData, msg, run, again, updates, sent, asked, due, outdated, link,
                   unsure>>

(* The bot process dies and is started again: user_data is gone, and the   *)
(* update it was handling comes again unless it was acknowledged.          *)
Crash ==
    /\ faults < MaxFaults /\ faults' = faults + 1
    /\ run' = Idle
    /\ again' \in {again, run.upd}
    /\ awaiting' = {} /\ pending' = <<None, "wireguard">>
    /\ due' = "none"
    /\ last' = None
    /\ unsure' = unsure \cup LinkOf
    /\ UNCHANGED <<be, late, msg, updates, sent, asked, outdated, link>>

-----------------------------------------------------------------------------
(* A user with some devices, or someone the backend does not know; a bot   *)
(* that has just started, in a chat that may hold menus it once wrote.     *)
Init ==
    /\ \E known \in BOOLEAN, owned \in SUBSET Devices :
          /\ known \/ owned = {}
          /\ be = [registered |-> known, mode |-> "full_vpn", cats |-> {},
                   status |-> [d \in Devices |-> IF d \in owned THEN "active" ELSE "none"],
                   link |-> [d \in Devices |-> IF d \in owned THEN 1 ELSE 0], minted |-> 1]
          /\ link = [d \in Devices |-> IF d \in owned THEN 1 ELSE 0]
    /\ late = {} /\ awaiting = {} /\ pending = <<None, "wireguard">>
    /\ msg \in [Messages -> {Blank} \cup {Screen(k, None, be) : k \in {"devices", "protocols",
                                                                        "servers"}}]
    /\ run = Idle /\ again = NoUpdate
    /\ updates = 0 /\ faults = 0
    /\ sent = [k \in Prompts \cup {"plan:buy"} |-> 0]
    /\ asked = <<None, "wireguard">> /\ due = "none"
    /\ outdated = {} /\ last = None /\ unsure = {}

HandlerStep == TextGroup \/ ReadCategory \/ CallAnswered \/ CallAnsweredEarly \/ CallRefused
               \/ CallTimedOut \/ Show \/ ShowFails

Next == \/ \E m \in Messages : Tap(m)
        \/ \E c \in Menus \cup {"start"} : Command(c)
        \/ Text \/ Redeliver
        \/ HandlerStep
        \/ LateCommit \/ Sweep \/ Crash

Spec == Init /\ [][Next]_vars

-----------------------------------------------------------------------------
(* Types: the chat's keyboards, user_data and the requests the handlers    *)
(* make of BackendClient.                                                  *)
TypeOK ==
    /\ be \in [registered : BOOLEAN, mode : {"full_vpn", "smart_vpn"}, cats : SUBSET Categories,
               status : [Devices -> Statuses], link : [Devices -> Tokens], minted : Tokens]
    /\ \A r \in late : r.op \in Mutating \cup Prompts \cup {"smart:cat"} /\ r.token \in Tokens
    /\ awaiting \subseteq Prompts /\ pending \in Choices
    /\ \A m \in Messages : msg[m].kind # "manage" \/ msg[m].dev \in Devices
    /\ run.pc \in {"idle", "groups", "read", "call", "show"}
    /\ outdated \subseteq Messages /\ last \in Messages \cup {None}

(* A prompt the user tapped is answered by at most one request (one device, *)
(* one domain, one ticket), and a plan by one payment unless the bot died   *)
(* in between: the message handlers lower their flag before they call the  *)
(* backend, so neither a timeout nor a crash makes a later or redelivered  *)
(* text create a second one.                                               *)
OneRequestPerPrompt == /\ \A k \in Prompts : sent[k] <= 1
                       /\ faults = 0 => sent["plan:buy"] <= 1

(* A device is created with the server and the protocol of the name prompt *)
(* tapped last, whatever prompts were left unanswered before it            *)
(* (device_new_callback and device_new_protocol_callback).                 *)
CreatesWhatWasAsked ==
    run.pc = "call" /\ run.op = "device_name" => <<run.arg, run.opt>> = asked

(* When the bot is done with a text, the prompt shown last has been        *)
(* answered by it: no other flag hides it (the groups of build_application).*)
TextAnswersPrompt == [][run.upd.kind = "text" /\ run'.pc = "idle" => due' = "none"]_vars

(* The message written last shows what the backend holds, until a call is  *)
(* left unanswered or something else changes the backend: a toggle, a      *)
(* revocation, a mode or a category is read back after it was changed.     *)
ShownIsCurrent ==
    run.pc = "idle" /\ last # None =>
        msg[last] = Screen(msg[last].kind, msg[last].dev, be)

(* A revoked device comes back only through a button of a message written  *)
(* before it was revoked, or a request that was left behind: no screen     *)
(* written since offers to enable or disable it (device_manage_keyboard).  *)
RevokedStaysRevoked ==
    [][\A d \in Devices : be.status[d] = "revoked" /\ be'.status[d] # "revoked"
                              => run.upd.msg \in outdated \/ late' # late]_vars

(* The link the user was shown last is the one that works, as long as no   *)
(* answer about it was lost or came before its commit                      *)
(* (_send_subscription_link: a link cannot be shown again later).          *)
LinkShownWorks ==
    run.pc = "idle" => \A d \in Devices \ (Reserved \cup unsure) : link[d] \in {0, be.link[d]}
=============================================================================
