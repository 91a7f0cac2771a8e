------------------------------- MODULE Admin -------------------------------
(***************************************************************************)
(* The admin panel and the handlers behind it: sign-in, the list of users  *)
(* with its block button, the support tickets, and the first account.      *)
(*                                                                         *)
(* All tabs of a browser share one cookie, the access token.  A request    *)
(* takes the cookie's token when it is sent; its handler reads, flushes    *)
(* (which locks the row it updates), answers, and commits after that.  An  *)
(* answer of 401 clears whatever cookie there is by then.                  *)
(***************************************************************************)
EXTENDS Integers, Sequences

CONSTANTS
    Admins,      \* e-mail addresses of accounts
    Roles,       \* the roles they may have
    Databases,   \* what the database may hold to begin with
    Tabs,        \* tabs of one browser
    Requests,    \* requests in flight at once
    MaxLogins,   \* bound: tokens issued
    MaxWrites    \* bound: requests other than sign-ins and lists

ASSUME AdminAssumption == /\ Roles \subseteq {"viewer", "support", "superadmin"}
                          /\ Databases \subseteq [admins : [Admins -> Roles \cup {"none"}],
                                                  user : {"none", "active"},
                                                  ticket : {"none", "open"}]
                          /\ MaxLogins \in Nat /\ MaxWrites \in Nat
                          /\ "none" \notin Tabs

VARIABLES
    admins,    \* admin_users: the role of the row, "none" without one
    user,      \* the status of a user's row, "none" without one
    ticket,    \* the status of a ticket of this user, "none" without one
    audit,     \* audit_logs: the last status recorded for the user, what was done to the ticket
    owner,     \* owner[n]: the account the n-th token was issued to
    expired,   \* the tokens older than 30 minutes
    cookie,    \* admin_token: a token, 0 without one
    tab,       \* tab[t]: its page, the list it shows, and whether it is to fetch the list
    req,       \* the requests in flight
    writes,
    version,   \* history: commits that changed the user's status
    raced,     \* history: what overlapping transactions, or a sign-in, have touched
    ended,     \* history: a valid session was ended by an answer
    notFirst   \* history: a bootstrap committed although there was an account

database == <<admins, user, ticket, audit, version, notFirst>>
browser  == <<cookie, tab, ended>>
vars     == <<database, browser, owner, expired, req, writes, raced>>

Toggles  == {"blocked", "active"}   \* PATCH /users/{id}/status, named for the new status
PanelOps == Toggles \cup {"list"}
Replies  == {"reply", "close"}      \* POST /support/{id}/reply and /close
Accounts == {"bootstrap", "create"} \* POST /auth/admin/bootstrap and the create_admin script
UserOps  == {"start", "ask"}        \* POST /auth/telegram and POST /support, from the bot
Session  == {"login"}

NoSnapshot == [status |-> "none", version |-> -1]
NoRequest  == [pc |-> "none", op |-> "none", tab |-> "none", who |-> "none", token |-> 0,
               seen |-> "none", version |-> -1, reply |-> "none", current |-> FALSE]

Open(r) == req[r].pc \in {"read", "flushed"}

(* current: the page that sent a request of the panel is still mounted,    *)
(* and, for a list, has not fetched again.                                 *)
(* A request is over once its handler is and nobody waits for the answer.  *)
(* A list that was cancelled is awaited only for a 401.                    *)
Settled(x) == IF /\ x.pc = "done"
                 /\ \/ x.reply = "none" \/ x.tab = "none"
                    \/ x.op \in PanelOps /\ x.reply = "ok" /\ ~x.current
              THEN NoRequest ELSE x

-----------------------------------------------------------------------------
(* The panel.                                                              *)

Send(r, op, t, who) ==
    /\ req[r].pc = "none"
    /\ req' = [req EXCEPT ![r] = [NoRequest EXCEPT !.pc = "sent", !.op = op, !.tab = t,
                                                   !.who = who, !.token = cookie,
                                                   !.current = op # "login"]]

(* After a full navigation nothing in the tab listens any more. *)
Abandoned(t, f) == [r \in Requests |-> IF f[r].tab = t THEN Settled([f[r] EXCEPT !.tab = "none"])
                                       ELSE f[r]]

(* The clean-up of the effect: the page unmounts, or fetches its list      *)
(* again.  The state of a page that has unmounted is gone.                 *)
Cancelled(t, f, ops) == [r \in Requests |-> IF f[r].tab = t /\ f[r].op \in ops
                                            THEN Settled([f[r] EXCEPT !.current = FALSE])
                                            ELSE f[r]]

Page(name) == [page |-> name, shown |-> NoSnapshot, fetch |-> name = "users"]

(* Opening or reloading a page: the proxy looks for the cookie only. *)
Navigate(t) ==
    /\ tab' = [tab EXCEPT ![t] = Page(IF cookie = 0 THEN "login" ELSE "users")]
    /\ req' = Abandoned(t, req)
    /\ UNCHANGED <<database, cookie, ended, owner, expired, writes, raced>>

SignIn(t, r, a) ==
    /\ tab[t].page = "login" /\ Len(owner) < MaxLogins
    /\ \A q \in Requests : ~(req[q].tab = t /\ req[q].op = "login")
    /\ Send(r, "login", t, a)
    /\ UNCHANGED <<database, browser, owner, expired, writes, raced>>

SignOut(t) ==
    /\ tab[t].page = "users"
    /\ cookie' = 0 /\ tab' = [tab EXCEPT ![t] = Page("login")]
    /\ req' = Cancelled(t, req, PanelOps)
    /\ UNCHANGED <<database, ended, owner, expired, writes, raced>>

(* Another page of the panel, and back, by the links of the sidebar.  The  *)
(* router may ask the proxy, or hold the page already.                     *)
Remount(t) ==
    /\ tab[t].page = "users"
    /\ \E name \in {"users"} \cup (IF cookie = 0 THEN {"login"} ELSE {}) :
          tab' = [tab EXCEPT ![t] = Page(name)]
    /\ req' = Cancelled(t, req, PanelOps)
    /\ UNCHANGED <<database, cookie, ended, owner, expired, writes, raced>>

(* Mutant: the effect that fetches again has no clean-up. *)
FetchListUncancelled(t, r) ==
    /\ tab[t].fetch
    /\ tab' = [tab EXCEPT ![t].fetch = FALSE]
    /\ Send(r, "list", t, "none")
    /\ UNCHANGED <<database, cookie, ended, owner, expired, writes, raced>>

(* The effect of useApiData, on mount and after reload(). *)
FetchList(t, r) ==
    /\ tab[t].fetch /\ req[r].pc = "none"
    /\ tab' = [tab EXCEPT ![t].fetch = FALSE]
    /\ req' = [Cancelled(t, req, {"list"}) EXCEPT ![r] = [NoRequest EXCEPT !.pc = "sent", !.op = "list",
                                                    !.tab = t, !.token = cookie, !.current = TRUE]]
    /\ UNCHANGED <<database, cookie, ended, owner, expired, writes, raced>>

(* toggleBlock: the new status is the other one of that shown.  The button *)
(* is disabled until the answer, by state of the page that is mounted.     *)
Toggle(t, r) ==
    /\ tab[t].page = "users" /\ tab[t].shown.status # "none" /\ writes < MaxWrites
    /\ \A q \in Requests : ~(req[q].tab = t /\ req[q].op \in Toggles /\ req[q].current)
    /\ Send(r, IF tab[t].shown.status = "active" THEN "blocked" ELSE "active", t, "none")
    /\ writes' = writes + 1
    /\ UNCHANGED <<database, browser, owner, expired, raced>>

(* Mutant: any refusal ends the session. *)
SessionOverOnRefusal(code) == code \in {"401", "403"}

SessionOver(code) == code = "401"

Answered(r) == [req EXCEPT ![r] = Settled([@ EXCEPT !.reply = "none"])]

(* An answer reaches its tab.  request() handles 401 before its caller.    *)
ArriveUnauthorized(r) ==
    LET x == req[r] IN
    /\ x.tab # "none" /\ SessionOver(x.reply) /\ x.op # "login"
    /\ ended' = (ended \/ cookie \in (1 .. Len(owner)) \ expired)
    /\ cookie' = 0 /\ tab' = [tab EXCEPT ![x.tab] = Page("login")]
    /\ req' = Abandoned(x.tab, Answered(r))
    /\ UNCHANGED <<database, owner, expired, writes, raced>>

(* A sign-in races what is in flight with another token. *)
ArriveLogin(r) ==
    LET x == req[r] IN
    /\ x.tab # "none" /\ x.op = "login" /\ x.reply # "none"
    /\ req' = Answered(r)
    /\ IF x.reply = "ok"
       THEN /\ cookie' = x.token
            /\ tab' = [tab EXCEPT ![x.tab] = Page("users")]
            /\ raced' = IF \E q \in Requests : req[q].tab # "none" /\ req[q].op \in PanelOps
                        THEN raced \cup {Session} ELSE raced
       ELSE UNCHANGED <<cookie, tab, raced>>
    /\ UNCHANGED <<database, ended, owner, expired, writes>>

ArriveList(r) ==
    LET x == req[r] IN
    /\ x.tab # "none" /\ x.op = "list" /\ x.reply = "ok" /\ x.current
    /\ req' = Answered(r)
    /\ tab' = [tab EXCEPT ![x.tab].shown = [status |-> x.seen, version |-> x.version]]
    /\ UNCHANGED <<database, cookie, ended, owner, expired, writes, raced>>

(* A status change that succeeded fetches the list again, if the page that *)
(* asked for it is still there.                                            *)
ArriveToggle(r) ==
    LET x == req[r] IN
    /\ x.tab # "none" /\ x.op \in Toggles /\ x.reply # "none" /\ ~SessionOver(x.reply)
    /\ req' = Answered(r)
    /\ tab' = [tab EXCEPT ![x.tab].fetch = @ \/ (x.reply = "ok" /\ x.current)]
    /\ UNCHANGED <<database, cookie, ended, owner, expired, writes, raced>>

(* The JWT lives for 30 minutes, the cookie for 8 hours.  What becomes of  *)
(* a token that is nowhere any more does not matter.                       *)
TokenExpires(n) ==
    /\ n \in {cookie} \cup {req[r].token : r \in Requests}
    /\ n \in 1 .. Len(owner) /\ expired' = expired \cup {n}
    /\ UNCHANGED <<database, browser, owner, req, writes, raced>>
CookieExpires ==
    /\ cookie \in expired /\ cookie' = 0
    /\ UNCHANGED <<database, tab, ended, owner, expired, req, writes, raced>>

-----------------------------------------------------------------------------
(* The handlers.                                                           *)

SignedIn(x) == x.token # 0 /\ x.token \notin expired
RoleOf(x)   == IF x.op \in PanelOps THEN admins[owner[x.token]] ELSE admins[x.who]
Anonymous(x) == x.op \in PanelOps /\ ~SignedIn(x)
Viewer(x)   == ~Anonymous(x) /\ RoleOf(x) = "viewer"

(* Mutant: authenticate lets an unknown address through. *)
VerdictAnyEmail(x) ==
    CASE x.op = "login"                                                 -> "ok"
      [] Anonymous(x)                                                   -> "401"
      [] x.op \in Toggles \cup Replies /\ Viewer(x)                      -> "403"
      [] x.op = "ask" /\ user # "active"                                -> "403"
      [] x.op = "bootstrap" /\ \E a \in Admins : admins[a] # "none"      -> "409"
      [] OTHER                                                          -> "ok"

(* Mutant: bootstrap looks for an account of the same address. *)
VerdictOwnEmail(x) ==
    CASE x.op = "login" /\ admins[x.who] = "none"                       -> "401"
      [] Anonymous(x)                                                   -> "401"
      [] x.op \in Toggles \cup Replies /\ Viewer(x)                      -> "403"
      [] x.op = "ask" /\ user # "active"                                -> "403"
      [] x.op = "bootstrap" /\ admins[x.who] # "none"                   -> "409"
      [] OTHER                                                          -> "ok"

(* What the dependencies and the handler's first reads answer.  Rows of    *)
(* admin_users never change, so the two of them are one step.              *)
Verdict(x) ==
    CASE x.op = "login" /\ admins[x.who] = "none"                       -> "401"
      [] Anonymous(x)                                                   -> "401"
      [] x.op \in Toggles \cup Replies /\ Viewer(x)                      -> "403"
      [] x.op = "ask" /\ user # "active"                                -> "403"
      [] x.op = "bootstrap" /\ \E a \in Admins : admins[a] # "none"      -> "409"
      [] OTHER                                                          -> "ok"

Finish(r, code) == req' = [req EXCEPT ![r] = Settled([@ EXCEPT !.pc = "done", !.reply = code])]

(* A wrong password is refused like an unknown address. *)
Refuse(r) ==
    /\ req[r].pc = "sent" /\ (Verdict(req[r]) # "ok" \/ req[r].op = "login")
    /\ Finish(r, IF req[r].op = "login" THEN "401" ELSE Verdict(req[r]))
    /\ UNCHANGED <<database, browser, owner, expired, writes, raced>>

IssueToken(r) ==
    /\ req[r].pc = "sent" /\ req[r].op = "login" /\ Verdict(req[r]) = "ok"
    /\ Len(owner) < MaxLogins
    /\ owner' = Append(owner, req[r].who)
    /\ req' = [req EXCEPT ![r] = Settled([@ EXCEPT !.pc = "done", !.reply = "ok",
                                                   !.token = Len(owner')])]
    /\ UNCHANGED <<database, browser, expired, writes, raced>>

ListUsers(r) ==
    /\ req[r].pc = "sent" /\ req[r].op = "list" /\ Verdict(req[r]) = "ok"
    /\ req' = [req EXCEPT ![r] = Settled([@ EXCEPT !.pc = "done", !.reply = "ok", !.seen = user,
                                                   !.version = version])]
    /\ UNCHANGED <<database, browser, owner, expired, writes, raced>>

Groups == {Toggles, Replies, Accounts}
SameRow(x, y) == \E g \in Groups : {x.op, y.op} \subseteq g

(* The handler reads the row it will change.  Two handlers between their   *)
(* first read and their commit have raced for it.                          *)
Reading(x) == [x EXCEPT !.pc = "read", !.seen = CASE x.op \in Toggles \cup {"start"} -> user
                                                  [] x.op \in Replies -> ticket
                                                  [] OTHER -> "none"]
Overlaps(x) == {g \in Groups : \E q \in Requests : Open(q) /\ {x.op, req[q].op} \subseteq g}

Read(r) ==
    /\ req[r].pc = "sent" /\ req[r].op \in Toggles /\ Verdict(req[r]) = "ok"
    /\ req' = [req EXCEPT ![r] = Reading(@)]
    /\ raced' = raced \cup Overlaps(req[r])
    /\ UNCHANGED <<database, browser, owner, expired, writes>>

(* A request that does not come from the panel: of another admin, of the   *)
(* script, of the bot for the user.  It is there once its handler reads;   *)
(* one that is refused changes nothing.                                    *)
Accept(r, op, a) ==
    LET x == [NoRequest EXCEPT !.op = op, !.who = IF op \in UserOps THEN "none" ELSE a] IN
    /\ req[r].pc = "none" /\ writes < MaxWrites /\ writes' = writes + 1
    /\ op \in Replies => ticket # "none" /\ admins[a] # "none"
    (* The model has one ticket. *)
    /\ op = "ask" => ticket = "none" /\ \A q \in Requests : req[q].op # "ask"
    /\ Verdict(x) = "ok"
    /\ req' = [req EXCEPT ![r] = Reading(x)]
    /\ raced' = raced \cup Overlaps(x)
    /\ UNCHANGED <<database, browser, owner, expired>>

(* Mutant: a reply always marks the ticket as pending. *)
ReplyReopens(x) == CASE x.op \in Toggles -> x.op [] x.op = "reply" -> "pending"
                     [] x.op = "close" -> "closed" [] OTHER -> x.seen

(* The status the handler leaves in its object. *)
NewStatus(x) == CASE x.op \in Toggles -> x.op
                  [] x.op = "reply" /\ x.seen = "open" -> "pending"
                  [] x.op = "close" -> "closed"
                  [] OTHER -> x.seen

(* An attribute that was set to what was read is not part of an UPDATE. *)
Writes(x) == x.op \in Toggles \cup Replies /\ NewStatus(x) # x.seen

(* The key a row is unique by: the address, or the Telegram id. *)
SameKey(x, y) == (x.op \in Accounts /\ y.op \in Accounts /\ x.who = y.who)
                 \/ (x.op = "start" /\ y.op = "start" /\ x.seen = "none" /\ y.seen = "none")
Taken(x) == \/ x.op \in Accounts /\ admins[x.who] # "none"
            \/ x.op = "start" /\ x.seen = "none" /\ user # "none"

Blocked(r) == \E q \in Requests \ {r} :
                 /\ req[q].pc = "flushed"
                 /\ \/ Writes(req[r]) /\ Writes(req[q]) /\ SameRow(req[r], req[q])
                    \/ SameKey(req[r], req[q])

(* The flush, and the answer.  A unique key that is taken fails it. *)
Flush(r) ==
    /\ req[r].pc = "read" /\ ~Blocked(r)
    /\ IF Taken(req[r]) THEN Finish(r, "500")
       ELSE req' = [req EXCEPT ![r].pc = "flushed",
                               ![r].reply = IF req[r].tab = "none" THEN "none" ELSE "ok"]
    /\ UNCHANGED <<database, browser, owner, expired, writes, raced>>

(* Mutant: the user who starts the bot again is active again. *)
StatusAfterReset(x) == IF x.op = "start" THEN "active" ELSE IF Writes(x) THEN NewStatus(x) ELSE user

(* get_or_create_from_telegram leaves the status of a user it finds. *)
StatusAfter(x) == IF x.op = "start" /\ x.seen = "none" THEN "active"
                  ELSE IF x.op \in Toggles /\ Writes(x) THEN NewStatus(x) ELSE user

Commit(r) ==
    LET x == req[r] IN
    /\ x.pc = "flushed"
    /\ user' = StatusAfter(x)
    /\ version' = IF user' = user THEN version ELSE version + 1
    /\ ticket' = IF x.op = "ask" THEN "open"
                 ELSE IF x.op \in Replies /\ Writes(x) THEN NewStatus(x) ELSE ticket
    /\ audit' = CASE x.op \in Toggles -> [audit EXCEPT !.user = x.op]
                  [] x.op \in Replies -> [audit EXCEPT !.ticket = @ \cup {x.op}]
                  [] OTHER -> audit
    /\ notFirst' = (notFirst \/ (x.op = "bootstrap" /\ \E a \in Admins : admins[a] # "none"))
    /\ IF x.op \in Accounts
       THEN \E role \in Roles : /\ x.op = "bootstrap" => role = "superadmin"
                                /\ admins' = [admins EXCEPT ![x.who] = role]
       ELSE UNCHANGED admins
    /\ req' = [req EXCEPT ![r] = Settled([@ EXCEPT !.pc = "done"])]
    /\ UNCHANGED <<browser, owner, expired, writes, raced>>

(* The commit fails, or the process dies before it. *)
Lose(r) ==
    /\ req[r].pc = "flushed"
    /\ req' = [req EXCEPT ![r] = Settled([@ EXCEPT !.pc = "done"])]
    /\ UNCHANGED <<database, browser, owner, expired, writes, raced>>

-----------------------------------------------------------------------------
(* Nobody is signed in. *)
Init ==
    /\ \E d \in Databases : admins = d.admins /\ user = d.user /\ ticket = d.ticket
    /\ audit = [user |-> "none", ticket |-> {}]
    /\ owner = <<>> /\ expired = {} /\ cookie = 0
    /\ tab = [t \in Tabs |-> Page("login")]
    /\ req = [r \in Requests |-> NoRequest]
    /\ writes = 0 /\ version = 0 /\ raced = {} /\ ended = FALSE /\ notFirst = FALSE

Panel   == \E t \in Tabs :
              \/ Navigate(t) \/ SignOut(t) \/ Remount(t)
              \/ \E r \in Requests : \/ FetchList(t, r) \/ Toggle(t, r)
                                     \/ \E a \in Admins : SignIn(t, r, a)
Answer  == \E r \in Requests : \/ ArriveUnauthorized(r) \/ ArriveLogin(r)
                                \/ ArriveList(r) \/ ArriveToggle(r)
Others  == \E r \in Requests, a \in Admins :
              \E op \in Replies \cup Accounts \cup UserOps : Accept(r, op, a)
Handler == \E r \in Requests : \/ Refuse(r) \/ IssueToken(r) \/ ListUsers(r)
                                \/ Read(r) \/ Flush(r) \/ Commit(r) \/ Lose(r)
Expiry  == CookieExpires \/ \E n \in 1 .. MaxLogins : TokenExpires(n)

Next == Panel \/ Answer \/ Others \/ Handler \/ Expiry
Spec == Init /\ [][Next]_vars

-----------------------------------------------------------------------------
(* Properties.                                                             *)

Statuses == {"none", "active", "blocked"}

(* Every variable has its type, a token belongs to an account that exists, *)
(* and a row is locked by one transaction.                                 *)
TypeOK ==
    /\ admins \in [Admins -> Roles \cup {"none"}]
    /\ user \in Statuses /\ ticket \in {"none", "open", "pending", "closed"}
    /\ audit \in [user : Toggles \cup {"none"}, ticket : SUBSET Replies]
    /\ owner \in Seq(Admins) /\ Len(owner) <= MaxLogins
    /\ \A n \in 1 .. Len(owner) : admins[owner[n]] # "none"
    /\ expired \subseteq 1 .. Len(owner) /\ cookie \in 0 .. Len(owner)
    /\ tab \in [Tabs -> [page : {"login", "users"}, fetch : BOOLEAN,
                         shown : [status : Statuses, version : -1 .. MaxWrites]]]
    /\ \A r \in Requests :
         /\ req[r].pc \in {"none", "sent", "read", "flushed", "done"}
         /\ req[r].reply \in {"none", "ok", "401", "403", "409", "500"}
         /\ req[r].tab \in Tabs \cup {"none"} /\ req[r].token \in 0 .. Len(owner)
    /\ writes \in 0 .. MaxWrites /\ version \in 0 .. MaxWrites
    /\ raced \subseteq Groups \cup {Session} /\ ended \in BOOLEAN /\ notFirst \in BOOLEAN

(* get_current_admin and request(): an answer ends a session only because  *)
(* its token is over, unless somebody signed in while a request with       *)
(* another token was under way.                                            *)
SessionEndsWithItsToken == ended => Session \in raced

(* The audit record is in the transaction of the change: whatever is lost, *)
(* retried or done by several people, the log says why a ticket is not     *)
(* open any more, and its last word on a user is the user's status - the   *)
(* latter as long as no two admins change the user at once.                *)
AuditAccountsForStatus ==
    /\ ticket = "pending" => "reply" \in audit.ticket
    /\ ticket = "closed" => "close" \in audit.ticket
    /\ Toggles \notin raced =>
         user = audit.user \/ (audit.user = "none" /\ user = "active")

(* Nobody reopens a ticket: only a reply that read it before it was closed *)
(* can.                                                                    *)
ClosedStaysClosed ==
    [][ticket = "closed" => ticket' = "closed" \/ Replies \in raced]_vars

(* bootstrap_first_admin makes the first account or none, unless it runs   *)
(* beside another request that makes one.                                  *)
BootstrapMakesTheFirst == notFirst => Accounts \in raced

(* What the service and docs/security.md promise without that condition:   *)
(* the bootstrap refuses if any admin already exists, so it makes the very *)
(* first one and succeeds once.                                            *)
BootstrapOnce == ~notFirst

(* The cancelled flag of useApiData: a list that was fetched earlier never *)
(* replaces one fetched later.                                             *)
ListNeverGoesBack ==
    [][\A t \in Tabs : tab'[t].shown # NoSnapshot
                          => tab'[t].shown.version >= tab[t].shown.version]_vars
=============================================================================
