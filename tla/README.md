# A TLA+ development for the VPN service

The service sells VPN access through a Telegram bot. A FastAPI **backend** on
PostgreSQL decides which devices may use which server; an agent on every node carries
that out: **vpn-agent** on a WireGuard node, **xray-agent** on a VLESS node. Admins watch
over it from a browser panel. This directory models the parts in which several actors change
shared state, checks them with TLC on small instances, and proves with TLAPS the safety
properties of every component, and that vpn-agent implements its abstract specification, for
all values of the constants.

## 1. Inventory

| Part | State | Operations | Interacts with | What is hard | Correct when |
|---|---|---|---|---|---|
| xray-agent (`xray-agent/app`) | SQLite table of desired users; Xray's in-memory user list | create, remove, rotate; a reconciliation pass at startup and on a timer | Xray over gRPC; the backend over HTTP | a handler is several awaits and nothing serialises handlers or the pass; either process may crash; Xray forgets everything | acknowledged requests last; the live list converges to the table |
| its backend client (`services/vless`) | attempt counter | `_request` with retry | xray-agent | a timed-out attempt may still run while the next is sent | a retry does no harm |
| vpn-agent (`vpn/app`) | SQLite peer table; `wg0`; `wg0.conf` | create, delete, disable, enable; startup pass | `wg`, `wg-quick`; the backend | three stores written one after the other; saves of wg0.conf overtake each other; crash or reboot in between; an address belongs to one peer | acknowledged requests last; startup restores |
| payments, promo codes (`payment_service.py`) | `payments`, `promo_codes`, redemptions | create, webhook, refund | payment provider | READ COMMITTED without locks; webhooks duplicated, reordered | one period per payment; limits of a code |
| subscriptions (`subscription_service.py`) | `subscriptions` | create_pending, activate, cancel, expire | payments, sweep, devices | status written from a stale read | paid time is granted and not taken away |
| expiry sweep (`workers/`) | none of its own | list, expire and disable, commit | devices, both agents, bot | one transaction around calls to many nodes | overdue access ends; nothing else does |
| devices (`device_service.py`) | `devices`, `vpn_peers`, `vless_credentials`, `vpn_servers.current_load` | provision, reissue, disable, enable, revoke | both agents inside an open transaction | limit and address are checked, then used; no compensation | rows and nodes agree |
| links and delivery (`subscription_link_service.py`, `subscription_delivery/`) | `subscription_links` | create or rotate, revoke, fetch | devices, subscriptions, routing | a fetch races a rotation or a revocation; a token is answered before it is committed | a dead link delivers nothing, the token handed out works |
| routing (`routing_service.py`, `routing/`) | settings, rules, custom domains, `vpn_profiles` | regenerate, set mode, category, domain | DNS, devices | lookups take seconds and fail; concurrent regenerations | one current profile, exactly what was asked |
| authentication, users, tickets, audit (`core/deps.py`, `admin_auth_service.py`, `support_service.py`) | `admin_users`, `users.status`, `support_tickets`, `audit_logs` | sign in, bootstrap, block, start, ask, reply, close | panel, bot | count, then insert; status written from a stale read | one first admin; the log explains every status |
| panel (`frontend`) | the session cookie, each page's list | sign in and out, fetch, toggle | backend API | tabs share the cookie; answers arrive late and out of order | a session ends with its token; a list never goes back |
| bot (`bot/app`) | `user_data` flags; the buttons in the chat | commands, buttons, three text prompts | backend API, Telegram | old buttons stay; calls time out, commit late; crashes and redelivered updates | each prompt answered once; the chat shows what the backend holds |
| rate limiting, middleware | Redis counters of a library | – | – | – | not modelled |
| infrastructure | – | provisioning | – | – | not modelled |

`PROJECT.json` lists every part with its status, and under `hazards` each place where the
code is exposed to something a test hardly reaches.

## 2. Modules

| Module | Models | Variables and code |
|---|---|---|
| `XrayAgent` | xray-agent and `HttpXrayAgentProvider` | `store` the `users` table, `live` the inbound (email to uuid), `pc` the await each handler is at, `rec` the pass (`desired`, `toAdd`, `toRemove`), `call` the client's retry loop, `agent`/`xray` the processes |
| `MCXrayAgent` | instances of it | the device of each uuid |
| `VpnAgent` | vpn-agent and `WireGuardProvider` | `row`/`ip` the peer table, `live` wg0, `saved` wg0.conf, `snap` what each running `wg-quick save` has read, `boot` the startup loop, `call` requests with the await they are at |
| `MCVpnAgent` | instances of it | symmetry |
| `Billing` | `PaymentService`, `SubscriptionService`, the sweep's database half | `pay`, `sub`, `usedCount`, `redeemed` the rows; `tx` the open transactions with what each has read; `sweep`; `events` what the provider has signed |
| `MCBilling` | instances of it | owners, symmetry |
| `Devices` | `DeviceService`, the sweep's calls to the agents | `dev`, `cred`, `load`, `sub` the rows; `peer` and `route` what both nodes carry; `tx` the open requests with what each has read; `sweep` |
| `MCDevices` | instances of it | two WireGuard devices and a VLESS one, symmetry |
| `PeerAccess` | what the backend may rely on from a WireGuard node; `VpnAgent` implements it | `access` what was acknowledged about each peer, `reachable` the peers on the interface, `unsaved` the answers a reboot may undo, `serving` |
| `Routing` | `RoutingService`, the engine, the resolver | `saved`, `mode`, `prefs`, `rules`, `custom` the settings tables; `rows` the profiles; `job` the open regenerations with what each has read |
| `Delivery` | `SubscriptionLinkService`, `SubscriptionDeliveryService`; extends `Routing` | `linkRow` the link; `device`, `cred`, `sub`, `over` what a fetch checks; `linkTx` and `fetch` the open requests |
| `Bot` | the bot in one chat | `awaiting`, `pending` are `user_data`; `msg` the messages and so their buttons; `run` the handler's step; `be` what the backend would answer; `late` requests it has not committed |
| `Admin` | the panel, sign-in, users, tickets, audit | `cookie`, `tab` the browser; `req` the requests in flight with what each has read; `admins`, `user`, `ticket`, `audit` the rows |
| `MCRouting`, `MCDelivery`, `MCBot`, `MCAdmin` | instances of them | symmetry; the databases `Admin` starts from |
| `XrayAgentProofs`, `VpnAgentProofs`, `BillingProofs`, `DevicesProofs`, `RoutingProofs`, `DeliveryProofs`, `BotProofs`, `AdminProofs` | the theorems about each, section 5 | no state of their own; the inductive invariants are defined there |

One action stands for the code between two awaits (agents) or between two statements of a
transaction (backend), or between two awaits of a handler (bot, panel). Agents' awaits end in a
store write or a command, so an action is that call with the branch that follows it. In the
backend a transaction's writes become visible at commit, where SQLAlchemy writes the attributes
that differ from what was read; the actions called `...Commit` do exactly that, over whatever
was committed in between.

**How the modules fit.** `Delivery` conjoins its actions with those of `Routing`, whose
profile a fetch reads, and takes from `Devices` and `Billing` only what a fetch can see: whether the
device, its credential and its subscription are live. `Devices` takes a node's peers as one set per
node, which is what `PeerAccess` promises. `Bot` takes the backend as what its answers show,
with the order of answer and commit left open, and `Admin` shares `users.status` between the panel's
block button and the bot's start.

Variables marked *history* never influence a step. They record which requests ran
without overlapping another one about the same object (`solo`, `disturbed`, `shared`), and
what such a request was told (`settled`, `revoked`, `applied`, `handed`), what overlapped
(`raced`, `tangled`, `crowded`), or that an older wg0.conf was yet to be written (`stale`).

### Choices a reader should know

* **Xray's semantics.** What `AddUserOperation` does to a live email and
  `RemoveUserOperation` to an absent one is not established (docs/xray-agent.md, "Known
  limitations"). `AddExisting` and `RemoveAbsent` range over rejecting, ignoring and replacing;
  the passing runs allow all of them at every call, the violation runs use the gentlest (those
  of the tests' fake client), so that they do not depend on a harsh Xray.
* **Failed gRPC calls** may have been applied: the timeout can fire on either side.
* **`apply_to_live`** is true in both agents (production); otherwise nothing happens on
  the node.
* **wg-quick** with `SaveConfig = true` saves on a clean shutdown, hence `Reboot(saved)` and
  `Reboot(live)`. `wg-quick save` itself is two steps, since the agent only awaits the
  subprocess: it reads wg0 (`Save`), and renames what it wrote to wg0.conf (`Rename`). Two
  handlers' saves may cross. It dies with the agent's control group.
* **The provider** may report a failure before a success, and delivers what it has
  signed any number of times, in any order, possibly before `create_payment` commits.
* **Amounts** and the validity window of a code are left out: no property is about them.
* **PaymentStatus.CANCELLED** is never assigned by the code and has no counterpart.
* **Devices.** An agent call is one step (the agents have their own modules) and may fail before
  or after it was obeyed. `current_load` is kept but guards nothing: a request may name its
  server and then skips the capacity check. `devices.public_key` and `assigned_ip` are copies of
  the peer row. Row locks are left out except the one that matters, an insert waiting for an
  uncommitted duplicate address; without the others the model has more interleavings.
* **Answer before commit.** The dependency `get_db` commits when the handler's response is already on its way,
  so in `Delivery` (link requests and fetches), `Bot` and `Admin` an answer may reach its
  client before the commit, and the commit may fail after it.
* **Routing.** An address stands for its domain: no property is about the aggregation of
  networks. Row locks matter here and are modelled: `UPDATE ... WHERE is_current` finds its rows
  by its snapshot, waits, and looks at them again.
* **Bot.** `Application.process_update` handles one update at a time (the builder does not enable
  concurrent updates); text handlers sit in three groups, so one text reaches all three. An
  update interrupted by a crash is delivered again unless it was acknowledged. A new
  message may take the place of one whose buttons the user no longer presses: `Messages` bounds
  how many he still does.
* **Admin.** `admin_users` rows are never changed once made, so a guard and the handler's first
  read are one step. A full navigation drops what the page waits for; `router.push` and the
  sidebar's links only unmount it: its requests go on, a 401 among their answers still ends the
  session, but they no longer disable a button or reload a list.

## 3. Runs

| Run | Expect | Instance | Shows |
|---|---|---|---|
| `xray_agent` | pass | 3 uuids of 2 devices, 2 calls of 2 attempts, 1 fault | acknowledged creations and removals last in the table, an undisturbed pass converges; `EmailsConverge` |
| `xray_revoked_credential` | violation | no fault at all | a stale pass re-adds a rotated-away uuid for ever |
| `vpn_safety` | pass | 2 keys, 2 addresses, 4 requests, 2 faults | acknowledged requests last through crashes and reboots; startup gives every enabled peer its address back; the agent implements `PeerAccess` |
| `vpn_save_race` | violation | 2 keys, 3 requests, 1 reboot | an older wg0.conf brings a removed peer back |
| `billing_safety` | pass | 2 payments of 2 users, 2 transactions at once, 3 requests, 1 rollback | idempotence, refunds, expiry, the uses of a code, without overlap on one payment |
| `billing_replay` | violation | 1 payment, 2 deliveries | overlapping deliveries extend twice |
| `devices_safety` | pass | 3 devices, limit 2, 4 keys, 2 addresses, 2 requests and a sweep at once, 5 requests, 1 failed call | rows and nodes agree where nothing overlapped or failed; a lost race for an address leaves no orphan; the limit holds until a device is enabled again; expiry takes every device off |
| `bot_safety` | pass | 2 devices (one per protocol), 1 server, category and plan, 2 messages, 4 updates, 2 faults | a prompt leads to one request, with the choice made last, by the handler asked for; what is shown is current; a revoked device comes back only through an old button; the link shown works |
| `delivery` | pass | both protocols; 2 domains, 3 regenerations, 3 changes or failures; or 2 fetches, 2 regenerations, a link request, 2 other changes or lost commits; or 4 link requests and a fetch; 2 of each at once | a current profile always, one without overlap; an undisturbed regeneration is exact; a dead link delivers nothing; accesses are counted; the token handed out opens the link |
| `routing_flaky_dns` | violation | 1 regeneration at a time, 1 failing lookup | a routed domain is dropped |
| `admin_safety` | pass | 1 account to begin with or none, 2 accounts of 2 roles in all, 2 tabs, 2 requests at once, 2 sign-ins, 2 writes, 3 together | sessions, audit, the first account, closed tickets, lists |
| `admin_bootstrap` | violation | no account, 2 requests | two bootstraps both succeed |

**Bounds.** Two credentials of one device are the least with which a rotation exists; a second
device makes the pass both add and remove. Two calls of two attempts put up to four handlers beside the
pass, the retry of one next to the other call; a third call would not fit beside the liveness
property, and the theorems about xray-agent have no such bound. `MAX_ATTEMPTS` is 2
instead of 3: the second attempt is the one that finds the effects of another. Two keys and
two addresses let an address be contested or not; four requests reach create, disable, enable
and a concurrent one. Two transactions are what a race needs; three webhook, refund or
cancel requests reach success, refund, replay. Three devices exceed a limit of two;
four keys over two addresses let a reissue race a provision, its loser retry, and the pool run
out; five requests reach provision, provision, sweep, renew, enable. Two messages are an old
one and a current one; four updates reach prompt, second prompt, text and text again, or
disable, revoke from an old message and enable. Two regenerations overlap, a third one meets
what they left; two domains separate the catalogue from the user's own. Two fetches crowd, two
link requests tangle, and two other changes reach disable and enable, expiry, or a lost
commit. Two tabs share
a cookie; two requests race, and two sign-ins give an old token and a new one. Every fault is
counted (`MaxFaults`, `MaxFailures`). In each passing run the counterexamples of its mutants
fit well inside the bounds.

The run `delivery` spends its bounds in one of three ways, by the constraint `Focus` of
`MCDelivery`: on settings and regenerations, on fetches, or on the link. What a fetch and a link
request read of `Routing` is only which profiles are current, so settings need not change while
they run. In the same way `Focus` of `MCAdmin` leaves the second sign-in or the second write unused:
what races a sign-in takes at most one of either.

**Deadlock** is checked in `Admin`, where somebody can always reload a page. Elsewhere calls
are one-shot and budgets are finite, so the model may stop; the agents' liveness is a property
instead. The safety runs of the bot, the panel and the backend assume no fairness: their
clients may walk away at any time.

**Conditions.** Several properties except what overlapped, was lost or was late
(`~raced`, `~tangled`, `disturbed`, `shared`, `stale`, `unsure`, ...): they say what the code
guarantees, and the exception is an observation about it. A document may promise more than
that. For the webhook (`WebhookIsIdempotent`), for wg0.conf (`RemovalSurvivesReboot`) and for the
bootstrap (`BootstrapOnce`) the promise is a property of its own, which a violation run shows
broken; the others are named at the end of section 4. A hazard that every property excepts is
listed in `PROJECT.json` without a property, and a note says which exception hides it: a promo code
carried by two payments, an access that is not counted, the provider
refunding twice, the sweep overwriting what was paid meanwhile, the device limit passed by
concurrent requests, a rotation beside a revocation that hands out a dead token, a late 401
that ends a session begun after it, a reply that reopens a ticket, a button of an old message.

**Refinement.** `VpnAgent` defines `Access`, the instance of `PeerAccess` whose `access` is what
undisturbed requests were told, whose `reachable` is `live`, whose `unsaved` is `stale` and which
serves when the agent is up; `ImplementsPeerAccess` is checked as a property of `vpn_safety`. What
the abstract node promises: nothing but a stop takes an answered peer away from where it should be,
a stop only those whose answer was not safely saved, and of those the ones that
should be on are back before the node serves. The ones that should be off are not taken off again.

**Fairness** (`XrayAgent!FairSpec`): weak fairness of every handler and client (asyncio
resumes a ready coroutine, and every gRPC and HTTP call has a timeout), of the pass (an
infinite loop that logs and survives exceptions, `main.py:25`), and of both restarts
(`Restart=on-failure` in the unit files). Starting a call and a fault are never fair. Faults
are finitely many, which is what "once they stop" means.

## 4. Disagreements between code and documents

Each of these is a violation run and a `findings` entry with the quoted line.

1. *A revoked credential can stay live*: reconciliation compares emails, rotation keeps
   the email.
2. *The webhook is idempotent only for deliveries that do not overlap.*
3. *A flaky lookup does drop a domain*: the fallback exists in `resolve()` and nothing passes it.
4. *A removed WireGuard peer can survive a reboot*: saves of wg0.conf are not serialised.
5. *The bootstrap can succeed twice*: it counts, then inserts.

The models show these too; they have no run of their own.

* *A user can redeem a code twice* (`models/promo_code.py:27`): it is checked at creation and
  recorded at payment, so two payments can carry it. `PromoOnceUnlessShared` excepts that.
* *A revoked VLESS credential may be only disabled* (docs/vless.md:157), and then `enable()` revives it:
  `_revoke_vless_credentials` lists the active ones.
* *Not every fetch is counted* (docs/subscription-delivery.md:109): overlapping ones lose a count,
  and a commit can fail after the response. `AccessCounted` excepts both.
* *A fetch can fail with a 500* after overlapping regenerations (`FailFetch`), instead of the 404 of
  `api/sub.py:9`.

Further limits met while modelling, within what the runs allow: the retry of a rotation
that was carried out is answered 404 (`xray_agent_provider.py:8` calls it idempotent);
vpn-agent's startup only adds peers, so one disabled just before a crash stays on wg0
(`Access` calls it open); docs/routing.md:61 has the bot refresh the profile after a change of categories,
which it never does; `api/v1/vpn.py` speaks of pushing a refreshed profile to the peer, which the
next fetch of the link does instead; deleting a server whose devices are active makes
their disabling fail, and with it the whole expiry sweep.

## 5. Proofs

Every `...Proofs` module has the same plan: the inductive invariant as a conjunction of named
parts, lemmas about the operators, one lemma per action with a step for each part it can disturb,
`Invariance == Spec => []...`, and then the theorems. Each inductive invariant went through
TLC on the instance of the component's run before it was proved. Together the theorems state all
the invariants and action properties of the passing runs, and the refinement; `EmailsConverge`
is the one property that is only checked. `PromoOnceUnlessShared` is only proved: it
needs a user with two payments and a code with two uses, which no run has.

**Assumptions.** The named ASSUMEs of the modules, evaluated by TLC in every run: types of the
constants; `MaxAttempts` positive; `MaxTime` positive, as the clock starts at 1; `Domains` finite
(a table); `MaxGens` positive in `Delivery` (provisioning has made the first profile); `None` and
`"none"` are not ids. Nothing is assumed about Xray beyond the two sets of outcomes.

* **xray-agent.** `TypeInv` adds to `TypeOK` that a call that has started names its
  credentials and a handler is only at a step of its call's operation. `PassInv` says what an
  undisturbed pass knows at each label: the live emails are the stored ones minus those to add,
  plus those to remove; any other action that touches either leaves `quiet` false (`QuietPass`).
  `StoreInv` is about undisturbed calls: `OwnInv`, nobody else works on their credentials;
  `ProgressInv`, the row each step of the handler has already written or deleted; `AckInv`, what
  was acknowledged is in the table. It gives `SettledStays` and `RevokedStaysOut`. All of
  it holds for every choice of `AddExisting` and `RemoveAbsent`.
* **vpn-agent.** `IInv` is the types, `CallInv` and `ProgressInv` as above over three stores,
  `AckInv` and `BootInv`: the startup loop has yet to reach the peers that are enabled and not
  on `wg0`. `AckInv` speaks of the running saves too: what they have read agrees with every
  answered peer that is not `stale`. It gives `RevokedStaysOff`, `SettledStaysOn` and `StartupRestores`.
  `Refinement` shows `Spec => Access!Spec` step by step: each step of the agent asks, acknowledges,
  moves peers, stops or serves, or changes nothing that `PeerAccess` sees.
* **Billing.** `LedgerInv` ties each payment without overlap to its subscription: how far its
  transaction has come (`Progress`) and what was granted for it. `TxInv` keeps what an open
  transaction has read, `Bounded` that no counter passes the requests
  started and no longer spending and that times stay within what was paid for, and `PromoInv`
  counts: the uses of a code plus what open transactions will still spend stay within what it
  allows unless deliveries overlapped. An event that arrives while the payment is being created
  works on nothing yet, so `Progress` is about requests after that (`Asking`). `PaidOnce`,
  `RefundOnce`, `SweepTakesNothing`, `PromoUses` and `PromoOnce` follow.
* **Devices.** Everything is said of *tame* devices, whose requests neither overlapped nor
  failed: `RequestInv` and `KeyInv` (which key a request works on), `RowInv` (at most one
  live credential), `PeerInv` (the node carries what was last asked of it), `RouteInv` (addresses
  nobody raced for), `AloneInv` and `LapsedInv` (what an undisturbed sweep has switched off) and
  `LimitInv` (active devices plus provisions under way). `NodesMatchRows`, `NoOrphans`,
  `DeviceLimitKept` and `ExpiredIsOff` follow. `AllocateIp` is written with a quantifier, not with
  `Min`, to be reasoned about.
* **Routing.** Ids and versions of profiles are unique (`IdInv`, `VersionInv`); `CurrentInv`
  says which rows an open regeneration has found and which it will mark, so that a device with
  profiles always has a current one, and one only if nothing overlapped; `FreshInv` compares an
  undisturbed regeneration with the settings it has read so far. `OneCurrent`, `FreshExact`.
* **Delivery** keeps `RoutingInv` and adds `DeadInv` (what a fetch would find dead stays
  dead until the fetch ends or somebody revives it), `TokenInv`, `AccessInv` (the counter is the
  number of deliveries, less the one delivered and not yet committed, where fetches did not crowd).
* **Bot.** `RunInv` has a handler do what its button says, and nothing waits to be
  delivered again while one runs. `PromptInv`: a prompt whose flag is up, or whose button is being
  handled or comes again, has not led to a request. `DueInv`: a text under way has yet
  to reach the group that answers the prompt shown last. `ShownInv` excepts the moment between a
  call that changes what a screen shows and the reply; `RevokedInv` says that messages written
  since, and taps on them, offer a revoked device nothing; `LinkInv` follows a link from the
  answer to the screen; `MintInv` counts tokens against updates and faults.
* **Admin.** `RaceInv`: of requests nobody raced with at most one is open, and it has read what
  is there. `SessionInv`: without a new sign-in the cookie is gone or is the token of the request
  that was refused. `ListInv`: a tab waits for one list, not older than the one it shows.
  `CountInv` bounds the writes. They give `SessionsAreKept`, `AuditAccounts`, `FirstAccount`,
  `TicketsStayClosed` and `ListsAdvance`.

What the proofs found wrong with the models: a few guards of `CASE` expressions overlapped
(where a button's reply goes in `Bot`, 401 before 403 in `Admin`, what a node should carry in
`Devices`). TLC takes the first branch, the logic leaves the choice open; they are exclusive now.

**Only model-checked.** `EmailsConverge`, since liveness under fairness is out of the
prover's reach, and the violation runs.

## 6. Not modelled

* *Rate limiting and middleware*: SlowAPI's counters decide, the code names limits; the middleware adds
  headers and metrics.
* *Infrastructure*: playbooks and compose files. Restart policies enter as fairness.
* *Plans, referrals, statistics, the server registry*: one row created, read or updated at a time.
* *The formatters' text*, QR codes, schemas, metrics, logging, migrations, generated gRPC stubs.
* *Cryptography*: signatures, hashes and passwords are right or wrong.
* *The panel's other pages*: they use the same `request()` and `useApiData` on other lists.

## 7. Plan

1. (done) `XrayAgent` with its proofs, `VpnAgent`, `Billing`, `Devices`.
2. (done) `Routing`, `Delivery` over it, `Bot`, `Admin`, `PeerAccess` implemented by `VpnAgent`.
3. (done) Proofs of every safety invariant and action property of the passing runs, and of
   the refinement of `PeerAccess`.
4. Several subscriptions of one user in the sweep, two sweeps at once (docs/deployment.md), and
   `Devices` over `PeerAccess` instead of its own nodes.
