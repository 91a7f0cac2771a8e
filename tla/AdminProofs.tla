----------------------------- MODULE AdminProofs -----------------------------
(***************************************************************************)
(* Proofs about Admin for any accounts, tabs, requests and bounds: whose   *)
(* session an answer ends, what the audit log accounts for, the first      *)
(* account, closed tickets, and the order of the lists.                    *)
(***************************************************************************)
EXTENDS Admin, FiniteSetTheorems, TLAPS

Ops         == PanelOps \cup Replies \cup Accounts \cup UserOps \cup Session
WriteOps    == Toggles \cup Replies \cup Accounts \cup UserOps
TicketStates == {"none", "open", "pending", "closed"}

RequestRecords ==
    [pc : {"none", "sent", "read", "flushed", "done"}, op : Ops \cup {"none"},
     tab : Tabs \cup {"none"}, who : Admins \cup {"none"}, token : Nat,
     seen : Statuses \cup TicketStates, version : -1 .. MaxWrites,
     reply : {"none", "ok", "401", "403", "409", "500"}, current : BOOLEAN]

TabRecords == [page : {"login", "users"}, fetch : BOOLEAN,
               shown : [status : Statuses, version : -1 .. MaxWrites]]

Typed == TypeOK /\ req \in [Requests -> RequestRecords]

(* The handler has yet to run or is running; it has read its row.          *)
Live(x)    == x.pc \in {"sent", "read", "flushed"}
Working(x) == x.pc \in {"read", "flushed"}

(* What a request is about, and what is known while it is under way. *)
RequestOK(x) ==
    /\ x.pc = "none" => x = NoRequest
    /\ x.tab # "none" => x.op \in PanelOps \cup Session
    /\ Working(x) => x.op \in WriteOps
    /\ x.op \in Accounts \cup Session => x.who \in Admins
    /\ x.token \in 0 .. Len(owner)
    /\ x.op \in PanelOps /\ x.reply = "401" => ~SignedIn(x)
    /\ x.op = "list" => /\ x.seen \in Statuses /\ x.version <= version
                        /\ x.seen # "none" => user # "none"
    /\ Live(x) => /\ x.op \in Toggles => user # "none"
                  /\ x.op \in Replies => ticket # "none"
    /\ Working(x) /\ x.op = "ask" => ticket = "none"

RequestInv == \A r \in Requests : RequestOK(req[r])

(* Of a group nobody raced in one transaction at most is open, and it has  *)
(* read what is there.                                                     *)
In(g)   == {r \in Requests : Working(req[r]) /\ req[r].op \in g}
Alone(g, now) == g \notin raced => /\ \A r, q \in In(g) : r = q
                                   /\ \A r \in In(g) : req[r].seen = now

RaceInv == Alone(Toggles, user) /\ Alone(Replies, ticket) /\ Alone(Accounts, "none")

(* One start at a time has made the user's row. *)
Starting == {r \in Requests : req[r].pc = "flushed" /\ req[r].op = "start" /\ req[r].seen = "none"}

UserInv ==
    /\ Toggles \notin raced => user = audit.user \/ (audit.user = "none" /\ user = "active")
    /\ \A r, q \in Starting : r = q
    /\ Starting # {} => user = "none"

Asking == {r \in Requests : Working(req[r]) /\ req[r].op = "ask"}

TicketInv ==
    /\ ticket = "pending" => "reply" \in audit.ticket
    /\ ticket = "closed" => "close" \in audit.ticket
    /\ \A r, q \in Asking : r = q

AccountInv ==
    Accounts \notin raced =>
        /\ ~notFirst
        /\ \A r \in In(Accounts) : req[r].op = "bootstrap" => \A a \in Admins : admins[a] = "none"

(* Without a sign-in meanwhile, the cookie is gone or the request's token. *)
SessionInv ==
    Session \notin raced =>
        /\ ~ended
        /\ \A r \in Requests : req[r].tab # "none" /\ req[r].op \in PanelOps =>
               cookie \in {0, req[r].token}

(* A tab waits for one list, which is not older than the one it shows. *)
Awaited(t) == {r \in Requests : req[r].tab = t /\ req[r].op = "list" /\ req[r].current}

ListInv ==
    \A t \in Tabs :
        /\ \A r, q \in Awaited(t) : r = q
        /\ \A r \in Awaited(t) : req[r].reply = "ok" => tab[t].shown.version <= req[r].version
        /\ tab[t].shown.version <= version
        /\ tab[t].shown.status # "none" => user # "none"

(* Every commit was a request that is counted. *)
Pending == {r \in Requests : Live(req[r]) /\ req[r].op \in WriteOps}

CountInv == IsFiniteSet(Pending) /\ version + Cardinality(Pending) <= writes

AdminInv == /\ Typed /\ RequestInv /\ RaceInv /\ UserInv /\ TicketInv /\ AccountInv
            /\ SessionInv /\ ListInv /\ CountInv

-----------------------------------------------------------------------------
(* What a step does to the requests. *)

(* It reads or writes nothing for it: an answer arrives, or nobody waits   *)
(* for one any more.                                                       *)
Fade(y, x) ==
    \/ y = NoRequest /\ x.pc = "done"
    \/ /\ y.pc = x.pc /\ y.op = x.op /\ y.who = x.who /\ y.token = x.token /\ y.seen = x.seen
       /\ y.version = x.version /\ y.tab \in {x.tab, "none"} /\ y.reply \in {x.reply, "none"}
       /\ y.current \in {x.current, FALSE}

LEMMA NoRequestRecord ==
    /\ NoRequest \in RequestRecords /\ NoRequest.pc = "none" /\ NoRequest.op = "none"
    /\ NoRequest.tab = "none" /\ NoRequest.who = "none" /\ NoRequest.token = 0
    /\ NoRequest.seen = "none" /\ NoRequest.version = -1 /\ NoRequest.reply = "none"
    /\ NoRequest.current = FALSE
<1>1. -1 \in -1 .. MaxWrites /\ 0 \in Nat
  BY AdminAssumption
<1> QED BY <1>1 DEF NoRequest, RequestRecords, Statuses

LEMMA SettledFacts ==
    ASSUME NEW x
    PROVE  Settled(x) = x \/ (Settled(x) = NoRequest /\ x.pc = "done")
  BY DEF Settled

(* The requests of a tab, abandoned or cancelled. *)
LEMMA AbandonedFacts ==
    ASSUME NEW f \in [Requests -> RequestRecords], NEW t
    PROVE  /\ Abandoned(t, f) \in [Requests -> RequestRecords]
           /\ \A r \in Requests : /\ Fade(Abandoned(t, f)[r], f[r])
                                  /\ t # "none" => Abandoned(t, f)[r].tab # t
<1> SUFFICES ASSUME NEW r \in Requests
             PROVE  /\ Abandoned(t, f)[r] \in RequestRecords /\ Fade(Abandoned(t, f)[r], f[r])
                    /\ t # "none" => Abandoned(t, f)[r].tab # t
  BY DEF Abandoned
<1>1. f[r] \in RequestRecords
  OBVIOUS
<1>2. CASE f[r].tab # t
  BY <1>1, <1>2 DEF Abandoned, Fade
<1>3. CASE f[r].tab = t
  <2>1. PICK y : y = [f[r] EXCEPT !.tab = "none"]
    OBVIOUS
  <2>2. y \in RequestRecords /\ Fade(y, f[r]) /\ y.tab = "none" /\ y.pc = f[r].pc
    BY <1>1, <2>1 DEF RequestRecords, Fade
  <2>3. Abandoned(t, f)[r] = Settled(y)
    BY <1>3, <2>1 DEF Abandoned
  <2> QED BY <2>2, <2>3, SettledFacts, NoRequestRecord DEF Fade
<1> QED BY <1>2, <1>3

LEMMA CancelledFacts ==
    ASSUME NEW f \in [Requests -> RequestRecords], NEW t, NEW ops
    PROVE  /\ Cancelled(t, f, ops) \in [Requests -> RequestRecords]
           /\ \A r \in Requests :
                 LET y == Cancelled(t, f, ops)[r] IN
                 /\ Fade(y, f[r])
                 /\ "list" \in ops /\ y.tab = t /\ y.op = "list" => ~y.current
<1> DEFINE C == Cancelled(t, f, ops)
<1> SUFFICES ASSUME NEW r \in Requests
             PROVE  /\ C[r] \in RequestRecords /\ Fade(C[r], f[r])
                    /\ "list" \in ops /\ C[r].tab = t /\ C[r].op = "list" => ~C[r].current
  BY DEF Cancelled
<1>1. f[r] \in RequestRecords
  OBVIOUS
<1>2. CASE ~(f[r].tab = t /\ f[r].op \in ops)
  BY <1>1, <1>2 DEF Cancelled, Fade
<1>3. CASE f[r].tab = t /\ f[r].op \in ops
  <2>1. PICK y : y = [f[r] EXCEPT !.current = FALSE]
    OBVIOUS
  <2>2. y \in RequestRecords /\ Fade(y, f[r]) /\ y.current = FALSE /\ y.pc = f[r].pc
    BY <1>1, <2>1 DEF RequestRecords, Fade
  <2>3. C[r] = Settled(y)
    BY <1>3, <2>1 DEF Cancelled
  <2> HIDE DEF C
  <2> QED BY <2>2, <2>3, SettledFacts, NoRequestRecord DEF Fade
<1> QED BY <1>2, <1>3

LEMMA AnsweredFacts ==
    ASSUME Typed, NEW r \in Requests
    PROVE  /\ Answered(r) \in [Requests -> RequestRecords]
           /\ \A q \in Requests \ {r} : Answered(r)[q] = req[q]
           /\ \A q \in Requests : Fade(Answered(r)[q], req[q])
           /\ req[r].pc = "done" => Answered(r)[r] = NoRequest
<1>1. req \in [Requests -> RequestRecords]
  BY DEF Typed
<1>2. PICK y : y = [req[r] EXCEPT !.reply = "none"]
  OBVIOUS
<1>3. y \in RequestRecords /\ Fade(y, req[r]) /\ y.reply = "none" /\ y.pc = req[r].pc
  BY <1>1, <1>2 DEF RequestRecords, Fade
<1>4. Settled(y) \in RequestRecords /\ Fade(Settled(y), req[r])
  BY <1>3, SettledFacts, NoRequestRecord DEF Fade
<1>5. Answered(r) = [req EXCEPT ![r] = Settled(y)]
  BY <1>1, <1>2 DEF Answered
<1>6. req[r].pc = "done" => Settled(y) = NoRequest
  BY <1>3 DEF Settled
<1>7. \A q \in Requests : Fade(req[q], req[q])
  BY DEF Fade
<1> QED BY <1>1, <1>4, <1>5, <1>6, <1>7

-----------------------------------------------------------------------------
(* What is kept of each part by the steps that leave the database alone.   *)

LEMMA FadeOK ==
    ASSUME Typed, NEW q \in Requests, RequestOK(req[q]), Fade(req[q]', req[q]),
           req[q]' \in RequestRecords, version' \in Nat, version <= version',
           owner' \in Seq(Admins),
           Len(owner) <= Len(owner'), expired \subseteq expired',
           user # "none" => user' # "none", ticket # "none" => ticket' # "none",
           Working(req[q]) /\ req[q].op = "ask" => ticket' = "none"
    PROVE  RequestOK(req[q])'
<1>1. req[q] \in RequestRecords
  BY DEF Typed
<1>2. CASE req[q]' = NoRequest
  <2>1. 0 \in 0 .. Len(owner')
    OBVIOUS
  <2>2. /\ NoRequest.op \notin Ops /\ ~Working(NoRequest) /\ ~Live(NoRequest)
    BY NoRequestRecord DEF Ops, Toggles, Replies, PanelOps, Accounts, UserOps, Session,
          Working, Live
  <2> QED BY <1>2, <2>1, <2>2, NoRequestRecord
        DEF RequestOK, Ops, PanelOps
<1>3. CASE req[q]' # NoRequest
  <2>1. PICK y : y = req[q]'
    OBVIOUS
  <2>2. PICK x \in RequestRecords : x = req[q]
    BY <1>1
  <2>3. /\ y.pc = x.pc /\ y.op = x.op /\ y.who = x.who /\ y.token = x.token /\ y.seen = x.seen
        /\ y.version = x.version /\ y.tab \in {x.tab, "none"} /\ y.reply \in {x.reply, "none"}
    BY <1>3, <2>1, <2>2 DEF Fade
  <2>4. y.pc # "none"
    <3> SUFFICES ASSUME x.pc = "none" PROVE FALSE
      BY <2>3
    <3>1. x = NoRequest
      BY <2>2 DEF RequestOK
    <3>2. y \in RequestRecords /\ NoRequest \in RequestRecords
      BY <2>1, NoRequestRecord
    <3>3. y = [pc |-> "none", op |-> "none", tab |-> "none", who |-> "none", token |-> 0,
               seen |-> "none", version |-> -1, reply |-> "none", current |-> FALSE]
      <4>1. /\ y.pc = "none" /\ y.op = "none" /\ y.tab = "none" /\ y.who = "none" /\ y.token = 0
            /\ y.seen = "none" /\ y.version = -1 /\ y.reply = "none" /\ y.current = FALSE
        BY <1>3, <2>1, <2>2, <2>3, <3>1, NoRequestRecord DEF Fade
      <4> QED BY <3>2, <4>1 DEF RequestRecords
    <3> QED BY <1>3, <2>1, <3>3 DEF NoRequest
  <2>5. x.token \in 0 .. Len(owner) /\ x.version \in -1 .. MaxWrites /\ version \in 0 .. MaxWrites
        /\ owner \in Seq(Admins)
    BY <2>2 DEF RequestOK, Typed, TypeOK, RequestRecords
  <2>6. x.token \in 0 .. Len(owner') /\ (x.version <= version => x.version <= version')
    BY <2>5, AdminAssumption
  <2>7. y.op \in PanelOps /\ y.reply = "401" => ~(y.token # 0 /\ y.token \notin expired')
    BY <2>2, <2>3 DEF RequestOK, SignedIn
  <2>8. Working(y) <=> Working(x)
    BY <2>3 DEF Working
  <2>9. Live(y) <=> Live(x)
    BY <2>3 DEF Live
  <2>a. y.tab # "none" => y.op \in PanelOps \cup Session
    BY <2>2, <2>3 DEF RequestOK
  <2>b. /\ Working(y) => y.op \in WriteOps
        /\ y.op \in Accounts \cup Session => y.who \in Admins
    BY <2>2, <2>3, <2>8 DEF RequestOK
  <2>c. y.op = "list" => /\ y.seen \in Statuses /\ y.version <= version'
                         /\ y.seen # "none" => user' # "none"
    BY <2>2, <2>3, <2>6 DEF RequestOK
  <2>d. Live(y) => /\ y.op \in Toggles => user' # "none"
                   /\ y.op \in Replies => ticket' # "none"
    BY <2>2, <2>3, <2>9 DEF RequestOK
  <2>e. Working(y) /\ y.op = "ask" => ticket' = "none"
    BY <2>2, <2>3, <2>8
  <2> QED BY <2>1, <2>4, <2>6, <2>3, <2>7, <2>a, <2>b, <2>c, <2>d, <2>e
        DEF RequestOK, SignedIn, Live, Working
<1> QED BY <1>2, <1>3

(* A transaction at work after the step was at work before it, on the same *)
(* row: nothing that is raced for has changed.                             *)
Kept(y, x) == Working(x) /\ y.op = x.op /\ y.seen = x.seen /\ y.who = x.who

LEMMA FadeWorks ==
    ASSUME NEW q, Working(req[q]'), Fade(req[q]', req[q])
    PROVE  Kept(req[q]', req[q]) /\ req[q]'.pc = req[q].pc
<1>1. req[q]' # NoRequest
  BY NoRequestRecord DEF Working
<1> QED BY <1>1 DEF Fade, Kept, Working

LEMMA RacesKept ==
    ASSUME AdminInv, UNCHANGED database, raced \subseteq raced',
           \A q \in Requests : Working(req[q]') => Kept(req[q]', req[q]),
           \A q, p \in Starting' : q = p, Starting' # {} => user = "none"
    PROVE  RaceInv' /\ UserInv' /\ TicketInv' /\ AccountInv'
<1>1. UNCHANGED <<admins, user, ticket, audit, notFirst>>
  BY DEF database
<1>2. ASSUME NEW g, NEW r \in Requests, r \in In(g)'
      PROVE  r \in In(g) /\ req[r]'.seen = req[r].seen /\ req[r]'.op = req[r].op
  BY <1>2 DEF In, Kept, Working
<1>3. ASSUME NEW g, NEW now, Alone(g, now) PROVE Alone(g, now)'
  <2>1. g \notin raced' => g \notin raced
    OBVIOUS
  <2>2. \A r \in In(g)' : r \in Requests
    BY DEF In
  <2> QED BY <1>2, <1>3, <2>1, <2>2 DEF Alone
<1>4. RaceInv'
  <2>1. /\ Alone(Toggles, user) /\ Alone(Replies, ticket) /\ Alone(Accounts, "none")
    BY DEF AdminInv, RaceInv
  <2>2. PICK u, t : u = user /\ t = ticket
    OBVIOUS
  <2>3. Alone(Toggles, u)' /\ Alone(Replies, t)' /\ Alone(Accounts, "none")'
    BY <1>3, <2>1, <2>2
  <2> QED BY <1>1, <2>2, <2>3 DEF RaceInv, Alone
<1>5. UserInv'
  <2>1. UserInv
    BY DEF AdminInv
  <2> QED BY <1>1, <2>1 DEF UserInv
<1>6. TicketInv'
  <2>1. TicketInv
    BY DEF AdminInv
  <2>2. \A r \in Asking' : r \in Asking
    BY DEF Asking, Kept, Working
  <2> QED BY <1>1, <2>1, <2>2 DEF TicketInv
<1>7. AccountInv'
  <2>1. AccountInv
    BY DEF AdminInv
  <2>2. \A r \in In(Accounts)' : r \in In(Accounts) /\ req[r]'.op = req[r].op
    BY <1>2 DEF In
  <2> QED BY <1>1, <2>1, <2>2 DEF AccountInv
<1> QED BY <1>4, <1>5, <1>6, <1>7

(* Requests that wait, and commits, are counted. *)
LEMMA CountKept ==
    ASSUME AdminInv, UNCHANGED version, writes' \in Nat, writes <= writes',
           \A q \in Requests : q \in Pending' => q \in Pending
    PROVE  CountInv'
<1>1. IsFiniteSet(Pending) /\ version + Cardinality(Pending) <= writes
  BY DEF AdminInv, CountInv
<1>2. Pending' \in SUBSET Pending
  BY DEF Pending
<1>3. IsFiniteSet(Pending') /\ Cardinality(Pending') <= Cardinality(Pending)
  BY <1>1, <1>2, FS_Subset
<1>4. Cardinality(Pending) \in Nat /\ Cardinality(Pending') \in Nat
  BY <1>1, <1>3, FS_CardinalityType
<1>5. version \in Nat /\ writes \in Nat
  BY AdminAssumption DEF AdminInv, Typed, TypeOK
<1>6. version' + Cardinality(Pending') <= writes'
  BY <1>1, <1>3, <1>4, <1>5
<1> QED BY <1>3, <1>6 DEF CountInv

LEMMA CountAdds ==
    ASSUME AdminInv, UNCHANGED version, writes' = writes + 1, NEW r \in Requests,
           \A q \in Requests : q \in Pending' => q \in Pending \/ q = r
    PROVE  CountInv'
<1>1. IsFiniteSet(Pending) /\ version + Cardinality(Pending) <= writes
  BY DEF AdminInv, CountInv
<1>2. Pending' \in SUBSET (Pending \cup {r})
  BY DEF Pending
<1>3. /\ IsFiniteSet(Pending \cup {r})
      /\ Cardinality(Pending \cup {r}) = IF r \in Pending THEN Cardinality(Pending)
                                         ELSE Cardinality(Pending) + 1
  BY <1>1, FS_AddElement
<1>4. IsFiniteSet(Pending') /\ Cardinality(Pending') <= Cardinality(Pending \cup {r})
  BY <1>2, <1>3, FS_Subset
<1>5. Cardinality(Pending) \in Nat /\ Cardinality(Pending') \in Nat
  BY <1>1, <1>4, FS_CardinalityType
<1>6. version \in Nat /\ writes \in Nat
  BY AdminAssumption DEF AdminInv, Typed, TypeOK
<1>7. version' + Cardinality(Pending') <= writes'
  BY <1>1, <1>3, <1>4, <1>5, <1>6
<1> QED BY <1>4, <1>7 DEF CountInv

LEMMA CountMoves ==
    ASSUME AdminInv, NEW r \in Pending, version' \in {version, version + 1}, UNCHANGED writes,
           \A q \in Requests : q \in Pending' => q \in Pending /\ q # r
    PROVE  CountInv'
<1>1. IsFiniteSet(Pending) /\ version + Cardinality(Pending) <= writes
  BY DEF AdminInv, CountInv
<1>2. Pending' \in SUBSET (Pending \ {r})
  BY DEF Pending
<1>3. IsFiniteSet(Pending \ {r}) /\ Cardinality(Pending \ {r}) = Cardinality(Pending) - 1
  BY <1>1, FS_RemoveElement
<1>4. IsFiniteSet(Pending') /\ Cardinality(Pending') <= Cardinality(Pending \ {r})
  BY <1>2, <1>3, FS_Subset
<1>5. Cardinality(Pending) \in Nat /\ Cardinality(Pending') \in Nat
  BY <1>1, <1>4, FS_CardinalityType
<1>6. version \in Nat /\ writes \in Nat
  BY AdminAssumption DEF AdminInv, Typed, TypeOK
<1>7. version' + Cardinality(Pending') <= writes'
  BY <1>1, <1>3, <1>4, <1>5, <1>6
<1> QED BY <1>4, <1>7 DEF CountInv

LEMMA SessionKept ==
    ASSUME AdminInv, cookie' \in {0, cookie}, UNCHANGED ended, raced \subseteq raced',
           \A q \in Requests : req[q]'.tab # "none" /\ req[q]'.op \in PanelOps
               => \/ req[q]'.token = cookie
                  \/ req[q].tab # "none" /\ req[q].op \in PanelOps /\ req[q]'.token = req[q].token
    PROVE  SessionInv'
<1>1. SessionInv
  BY DEF AdminInv
<1> QED BY <1>1 DEF SessionInv

LEMMA ListKept ==
    ASSUME AdminInv, UNCHANGED <<user, version>>, tab' \in [Tabs -> TabRecords],
           req' \in [Requests -> RequestRecords],
           \A t \in Tabs : tab[t]'.shown \in {tab[t].shown, NoSnapshot},
           \A q \in Requests : req[q]'.tab # "none" /\ req[q]'.op = "list" /\ req[q]'.current
               => /\ req[q]'.tab = req[q].tab /\ req[q].op = "list" /\ req[q].current
                  /\ req[q]'.reply = "ok" =>
                       \/ req[q].reply = "ok" /\ req[q]'.version = req[q].version
                       \/ req[q]'.version = version
    PROVE  ListInv'
<1> SUFFICES ASSUME NEW t \in Tabs
             PROVE  /\ \A r, q \in Awaited(t)' : r = q
                    /\ \A r \in Awaited(t)' : req[r]'.reply = "ok"
                                                 => tab[t]'.shown.version <= req[r]'.version
                    /\ tab[t]'.shown.version <= version'
                    /\ tab[t]'.shown.status # "none" => user' # "none"
  BY DEF ListInv, Awaited
<1>1. /\ \A r, q \in Awaited(t) : r = q
      /\ \A r \in Awaited(t) : req[r].reply = "ok" => tab[t].shown.version <= req[r].version
      /\ tab[t].shown.version <= version
      /\ tab[t].shown.status # "none" => user # "none"
  BY DEF AdminInv, ListInv
<1>2. t # "none"
  BY AdminAssumption
<1>3. ASSUME NEW r \in Awaited(t)'
      PROVE  /\ r \in Requests /\ r \in Awaited(t)
             /\ req[r]'.reply = "ok" => \/ req[r].reply = "ok" /\ req[r]'.version = req[r].version
                                        \/ req[r]'.version = version
  BY <1>2 DEF Awaited
<1>4. NoSnapshot.version = -1 /\ NoSnapshot.status = "none"
  BY DEF NoSnapshot
<1>5. version \in Nat /\ tab[t].shown.version \in -1 .. MaxWrites /\ -1 <= version
  BY AdminAssumption DEF AdminInv, Typed, TypeOK, TabRecords
<1>6. tab[t]'.shown = tab[t].shown \/ tab[t]'.shown = NoSnapshot
  OBVIOUS
<1>7. tab[t]'.shown.version <= version'
  BY <1>1, <1>4, <1>5, <1>6
<1>8. tab[t]'.shown.status # "none" => user' # "none"
  BY <1>1, <1>4, <1>6
<1>9. ASSUME NEW r \in Awaited(t)', req[r]'.reply = "ok"
      PROVE  tab[t]'.shown.version <= req[r]'.version
  <2>1. CASE req[r]'.version = version
    BY <1>7, <2>1
  <2>2. CASE req[r].reply = "ok" /\ req[r]'.version = req[r].version
    <3>1. tab[t].shown.version <= req[r].version
      BY <1>1, <1>3, <2>2
    <3>2. req[r]'.version \in -1 .. MaxWrites
      BY <1>3 DEF RequestRecords
    <3>3. -1 <= req[r]'.version
      BY <3>2, AdminAssumption
    <3> QED BY <1>4, <1>6, <2>2, <3>1, <3>3
  <2> QED BY <1>3, <1>9, <2>1, <2>2
<1> QED BY <1>1, <1>3, <1>7, <1>8, <1>9

(* A step that leaves the database alone keeps types, and what is known of *)
(* requests it does not change. *)
LEMMA FrameStep ==
    ASSUME AdminInv, UNCHANGED database, req' \in [Requests -> RequestRecords],
           \/ UNCHANGED owner
           \/ \E a \in Admins : /\ owner' = Append(owner, a) /\ admins[a] # "none"
                                /\ Len(owner) < MaxLogins,
           expired \subseteq expired', expired' \subseteq 1 .. Len(owner'),
           cookie' \in 0 .. Len(owner'), tab' \in [Tabs -> TabRecords], ended' \in BOOLEAN,
           writes' \in 0 .. MaxWrites, raced \subseteq raced',
           raced' \subseteq Groups \cup {Session},
           \A q \in Requests : Fade(req[q]', req[q]) \/ RequestOK(req[q])'
    PROVE  Typed' /\ RequestInv'
<1>1. UNCHANGED <<admins, user, ticket, audit, version, notFirst>>
  BY DEF database
<1>2. Typed /\ RequestInv
  BY DEF AdminInv
<1>3. /\ owner' \in Seq(Admins) /\ Len(owner') <= MaxLogins /\ Len(owner) <= Len(owner')
      /\ \A n \in 1 .. Len(owner') : admins'[owner'[n]] # "none"
  <2>1. /\ owner \in Seq(Admins) /\ Len(owner) <= MaxLogins /\ Len(owner) \in Nat
        /\ \A n \in 1 .. Len(owner) : admins[owner[n]] # "none"
    BY <1>2 DEF Typed, TypeOK
  <2>2. CASE UNCHANGED owner
    BY <1>1, <2>1, <2>2
  <2>3. ASSUME NEW a \in Admins, owner' = Append(owner, a), admins[a] # "none",
               Len(owner) < MaxLogins
        PROVE  /\ owner' \in Seq(Admins) /\ Len(owner') <= MaxLogins /\ Len(owner) <= Len(owner')
               /\ \A n \in 1 .. Len(owner') : admins'[owner'[n]] # "none"
    <3>1. owner' \in Seq(Admins) /\ Len(owner') = Len(owner) + 1
      BY <2>1, <2>3
    <3>2. Len(owner') <= MaxLogins /\ Len(owner) <= Len(owner')
      BY <2>1, <2>3, <3>1, AdminAssumption
    <3>3. ASSUME NEW n \in 1 .. Len(owner') PROVE admins'[owner'[n]] # "none"
      <4>1. owner'[n] = IF n = Len(owner) + 1 THEN a ELSE owner[n]
        BY <2>1, <2>3, <3>1
      <4>2. n = Len(owner) + 1 \/ n \in 1 .. Len(owner)
        BY <2>1, <3>1
      <4>3. ~(Len(owner) + 1 \in 1 .. Len(owner))
        BY <2>1
      <4> QED BY <1>1, <2>1, <2>3, <4>1, <4>2, <4>3
    <3> QED BY <3>1, <3>2, <3>3
  <2> QED BY <2>2, <2>3
<1>4. RequestInv'
  <2> SUFFICES ASSUME NEW q \in Requests PROVE RequestOK(req[q])'
    BY DEF RequestInv
  <2>1. CASE RequestOK(req[q])'
    BY <2>1
  <2>2. CASE Fade(req[q]', req[q])
    <3>1. RequestOK(req[q])
      BY <1>2 DEF RequestInv
    <3>2. version' \in Nat /\ version <= version'
      BY <1>1, <1>2, AdminAssumption DEF Typed, TypeOK
    <3>3. Working(req[q]) /\ req[q].op = "ask" => ticket' = "none"
      BY <1>1, <3>1 DEF RequestOK
    <3>4. req[q]' \in RequestRecords
      OBVIOUS
    <3> QED BY <1>1, <1>2, <1>3, <2>2, <3>1, <3>2, <3>3, <3>4, FadeOK
  <2> QED BY <2>1, <2>2
<1>5. Typed'
  <2>1. \A r \in Requests : /\ req'[r].pc \in {"none", "sent", "read", "flushed", "done"}
                            /\ req'[r].reply \in {"none", "ok", "401", "403", "409", "500"}
                            /\ req'[r].tab \in Tabs \cup {"none"}
    BY DEF RequestRecords
  <2>2. \A r \in Requests : req'[r].token \in 0 .. Len(owner')
    BY <1>4 DEF RequestInv, RequestOK
  <2> QED BY <1>1, <1>2, <1>3, <2>1, <2>2 DEF Typed, TypeOK, TabRecords
<1> QED BY <1>4, <1>5

(* ... and keeps the rest if it starts no transaction. *)
LEMMA QuietStep ==
    ASSUME AdminInv, UNCHANGED database, req' \in [Requests -> RequestRecords],
           \/ UNCHANGED owner
           \/ \E a \in Admins : /\ owner' = Append(owner, a) /\ admins[a] # "none"
                                /\ Len(owner) < MaxLogins,
           expired \subseteq expired', expired' \subseteq 1 .. Len(owner'),
           cookie' \in 0 .. Len(owner'), tab' \in [Tabs -> TabRecords], ended' \in BOOLEAN,
           writes' \in 0 .. MaxWrites, raced \subseteq raced',
           raced' \subseteq Groups \cup {Session},
           \A q \in Requests : \/ Fade(req[q]', req[q])
                               \/ ~Working(req[q]') /\ RequestOK(req[q])',
           SessionInv', ListInv', CountInv'
    PROVE  AdminInv'
<1>1. Typed' /\ RequestInv'
  BY FrameStep
<1>6. \A q \in Requests : Working(req[q]') => Kept(req[q]', req[q]) /\ req[q]'.pc = req[q].pc
  BY FadeWorks
<1>7. \A q \in Starting' : q \in Starting
  BY <1>6 DEF Starting, Working, Kept
<1>8. /\ \A q, p \in Starting' : q = p
      /\ Starting' # {} => user = "none"
  BY <1>7 DEF AdminInv, UserInv
<1>9. RaceInv' /\ UserInv' /\ TicketInv' /\ AccountInv'
  BY <1>6, <1>8, RacesKept
<1> QED BY <1>1, <1>9 DEF AdminInv

LEMMA Fading ==
    ASSUME NEW q \in Requests, Fade(req[q]', req[q])
    PROVE  /\ req[q]'.tab # "none" /\ req[q]'.op \in PanelOps
                => /\ req[q].tab # "none" /\ req[q].op \in PanelOps
                   /\ req[q]'.token = req[q].token
           /\ req[q]'.tab # "none" /\ req[q]'.op = "list" /\ req[q]'.current
                => /\ req[q]'.tab = req[q].tab /\ req[q].op = "list" /\ req[q].current
                   /\ req[q]'.reply = "ok" => /\ req[q].reply = "ok"
                                              /\ req[q]'.version = req[q].version
           /\ q \in Pending' => q \in Pending
<1>1. CASE req[q]' = NoRequest
  BY <1>1, NoRequestRecord DEF Pending, Live
<1>2. CASE req[q]' # NoRequest
  BY <1>2 DEF Fade, Pending, Live
<1> QED BY <1>1, <1>2

(* A step of the panel or of an answer that changes requests only so.      *)
LEMMA FadeStep ==
    ASSUME AdminInv, UNCHANGED <<database, owner, writes>>, req' \in [Requests -> RequestRecords],
           \A q \in Requests : Fade(req[q]', req[q]),
           expired \subseteq expired', expired' \subseteq 1 .. Len(owner),
           cookie' \in 0 .. Len(owner), tab' \in [Tabs -> TabRecords], ended' \in BOOLEAN,
           raced \subseteq raced', raced' \subseteq Groups \cup {Session},
           SessionInv', ListInv'
    PROVE  AdminInv'
<1>1. UNCHANGED version /\ writes' \in 0 .. MaxWrites /\ writes' \in Nat /\ writes <= writes'
  BY AdminAssumption DEF AdminInv, Typed, TypeOK, database
<1>2. CountInv'
  BY <1>1, CountKept, Fading
<1>3. Len(owner') = Len(owner)
  OBVIOUS
<1> QED BY <1>1, <1>2, <1>3, QuietStep

LEMMA FadeQuiet ==
    ASSUME AdminInv, UNCHANGED <<database, owner, writes, ended, raced>>,
           req' \in [Requests -> RequestRecords],
           \A q \in Requests : Fade(req[q]', req[q]),
           expired \subseteq expired', expired' \subseteq 1 .. Len(owner),
           cookie' \in {0, cookie}, tab' \in [Tabs -> TabRecords],
           \A t \in Tabs : tab[t]'.shown \in {tab[t].shown, NoSnapshot}
    PROVE  AdminInv'
<1>1. SessionInv'
  BY Fading, SessionKept
<1>2. UNCHANGED <<user, version>>
  BY DEF database
<1>3. ListInv'
  BY <1>2, Fading, ListKept
<1>4. /\ cookie' \in 0 .. Len(owner) /\ ended' \in BOOLEAN
      /\ raced' \subseteq Groups \cup {Session}
  BY DEF AdminInv, Typed, TypeOK
<1> QED BY <1>1, <1>3, <1>4, FadeStep

LEMMA PageRecord ==
    ASSUME NEW p \in {"login", "users"}
    PROVE  Page(p) \in TabRecords /\ Page(p).shown = NoSnapshot
<1>1. -1 \in -1 .. MaxWrites
  BY AdminAssumption
<1> QED BY <1>1 DEF Page, TabRecords, NoSnapshot, Statuses

-----------------------------------------------------------------------------
(* The panel. *)

LEMMA Expire ==
    ASSUME AdminInv, CookieExpires \/ \E n \in 1 .. MaxLogins : TokenExpires(n)
    PROVE  AdminInv'
<1>1. /\ req \in [Requests -> RequestRecords] /\ tab \in [Tabs -> TabRecords]
      /\ expired \subseteq 1 .. Len(owner)
  BY DEF AdminInv, Typed, TypeOK, TabRecords
<1>2. \A q \in Requests : Fade(req[q], req[q])
  BY DEF Fade
<1>3. CASE CookieExpires
  BY <1>1, <1>2, <1>3, FadeQuiet DEF CookieExpires
<1>4. ASSUME NEW n, TokenExpires(n) PROVE AdminInv'
  <2>1. expired \subseteq expired' /\ expired' \subseteq 1 .. Len(owner)
    BY <1>1, <1>4 DEF TokenExpires
  <2>2. UNCHANGED <<database, owner, writes, ended, raced, cookie, tab, req>>
    BY <1>4 DEF TokenExpires, browser
  <2> QED BY <1>1, <1>2, <2>1, <2>2, FadeQuiet
<1> QED BY <1>3, <1>4

LEMMA NavigateStep ==
    ASSUME AdminInv, NEW t \in Tabs, Navigate(t)
    PROVE  AdminInv'
<1>1. /\ req \in [Requests -> RequestRecords] /\ tab \in [Tabs -> TabRecords]
      /\ expired \subseteq 1 .. Len(owner)
  BY DEF AdminInv, Typed, TypeOK, TabRecords
<1>2. PICK p \in {"login", "users"} : tab' = [tab EXCEPT ![t] = Page(p)]
  BY DEF Navigate
<1>3. req' = Abandoned(t, req)
     /\ UNCHANGED <<database, owner, writes, ended, raced, cookie, expired>>
  BY DEF Navigate
<1>4. req' \in [Requests -> RequestRecords] /\ \A q \in Requests : Fade(req[q]', req[q])
  BY <1>1, <1>3, AbandonedFacts
<1>5. /\ tab' \in [Tabs -> TabRecords]
      /\ \A u \in Tabs : tab[u]'.shown \in {tab[u].shown, NoSnapshot}
  BY <1>1, <1>2, PageRecord
<1> QED BY <1>1, <1>3, <1>4, <1>5, FadeQuiet

LEMMA UnmountStep ==
    ASSUME AdminInv, NEW t \in Tabs, SignOut(t) \/ Remount(t)
    PROVE  AdminInv'
<1>1. /\ req \in [Requests -> RequestRecords] /\ tab \in [Tabs -> TabRecords]
      /\ expired \subseteq 1 .. Len(owner)
  BY DEF AdminInv, Typed, TypeOK, TabRecords
<1>2. PICK p \in {"login", "users"} : tab' = [tab EXCEPT ![t] = Page(p)]
  BY DEF SignOut, Remount
<1>3. /\ req' = Cancelled(t, req, PanelOps) /\ cookie' \in {0, cookie}
      /\ UNCHANGED <<database, owner, writes, ended, raced, expired>>
  BY DEF SignOut, Remount
<1>4. req' \in [Requests -> RequestRecords] /\ \A q \in Requests : Fade(req[q]', req[q])
  BY <1>1, <1>3, CancelledFacts
<1>5. /\ tab' \in [Tabs -> TabRecords]
      /\ \A u \in Tabs : tab[u]'.shown \in {tab[u].shown, NoSnapshot}
  BY <1>1, <1>2, PageRecord
<1> QED BY <1>1, <1>3, <1>4, <1>5, FadeQuiet

(* A request leaves the panel with the cookie's token. *)
SentAs(z, op, t, who) ==
    /\ z.pc = "sent" /\ z.op = op /\ z.tab = t /\ z.who = who /\ z.token = cookie
    /\ z.seen = "none" /\ z.version = -1 /\ z.reply = "none"

LEMMA SentFacts ==
    ASSUME Typed, NEW op \in PanelOps \cup Session, NEW t \in Tabs,
           NEW who \in Admins \cup {"none"}, NEW c \in BOOLEAN, NEW z,
           \/ z = [NoRequest EXCEPT !.pc = "sent", !.op = op, !.tab = t, !.who = who,
                                    !.token = cookie, !.current = c]
           \/ /\ who = "none"
              /\ z = [NoRequest EXCEPT !.pc = "sent", !.op = op, !.tab = t,
                                       !.token = cookie, !.current = c]
    PROVE  z \in RequestRecords /\ SentAs(z, op, t, who)
<1>1. op \in Ops \cup {"none"} /\ cookie \in Nat /\ -1 \in -1 .. MaxWrites
  BY AdminAssumption DEF Ops, Typed, TypeOK
<1>2. CASE z = [NoRequest EXCEPT !.pc = "sent", !.op = op, !.tab = t, !.who = who,
                                 !.token = cookie, !.current = c]
  BY <1>1, <1>2 DEF NoRequest, RequestRecords, Statuses, SentAs
<1>3. CASE /\ who = "none"
           /\ z = [NoRequest EXCEPT !.pc = "sent", !.op = op, !.tab = t,
                                    !.token = cookie, !.current = c]
  BY <1>1, <1>3 DEF NoRequest, RequestRecords, Statuses, SentAs
<1> QED BY <1>2, <1>3

LEMMA SendStep ==
    ASSUME AdminInv, UNCHANGED <<database, cookie, ended, owner, expired, raced>>,
           NEW r \in Requests, NEW op \in PanelOps \cup Session, NEW t \in Tabs,
           NEW who \in Admins \cup {"none"}, NEW z \in RequestRecords,
           NEW f \in [Requests -> RequestRecords],
           SentAs(z, op, t, who), req' = [f EXCEPT ![r] = z],
           \A q \in Requests : Fade(f[q], req[q]),
           op = "login" => who \in Admins,
           op \in Toggles => user # "none",
           writes' = IF op \in Toggles THEN writes + 1 ELSE writes, writes' <= MaxWrites,
           tab' \in [Tabs -> TabRecords],
           ListInv'
    PROVE  AdminInv'
<1>1. /\ cookie \in 0 .. Len(owner) /\ expired \subseteq 1 .. Len(owner) /\ Len(owner) \in Nat
      /\ ended \in BOOLEAN /\ raced \subseteq Groups \cup {Session}
      /\ writes \in 0 .. MaxWrites /\ version \in 0 .. MaxWrites
  BY DEF AdminInv, Typed, TypeOK
<1>2. UNCHANGED <<user, ticket, version>>
  BY DEF database
<1>4. /\ z.pc = "sent" /\ z.op = op /\ z.tab = t /\ z.who = who /\ z.token = cookie
      /\ z.seen = "none" /\ z.version = -1 /\ z.reply = "none"
  BY DEF SentAs
<1>7. req' \in [Requests -> RequestRecords] /\ req[r]' = z
     /\ \A q \in Requests \ {r} : req[q]' = f[q]
  OBVIOUS
<1>8. RequestOK(req[r])'
  <2>1. z.version <= version'
    BY <1>1, <1>2, <1>4, AdminAssumption
  <2>2. ~Working(z) /\ z.seen \in Statuses
    BY <1>4 DEF Working, Statuses
  <2>3. op \notin Accounts /\ op \notin Replies
    BY DEF PanelOps, Toggles, Session, Accounts, Replies
  <2>4. op \in Session => who \in Admins
    BY DEF Session
  <2>5. z.token \in 0 .. Len(owner')
    BY <1>1, <1>4
  <2>6. z.pc # "none"
    BY <1>4
  <2> QED BY <1>2, <1>4, <1>7, <2>1, <2>2, <2>3, <2>4, <2>5, <2>6 DEF RequestOK, Working
<1>9. \A q \in Requests : \/ Fade(req[q]', req[q])
                          \/ ~Working(req[q]') /\ RequestOK(req[q])'
  <2>1. ~Working(z)
    BY <1>4 DEF Working
  <2> QED BY <1>7, <1>8, <2>1
<1>a. \A q \in Requests \ {r} : Fade(req[q]', req[q])
  BY <1>7
<1>b. SessionInv'
  <2>1. \A q \in Requests : req[q]'.tab # "none" /\ req[q]'.op \in PanelOps
               => \/ req[q]'.token = cookie
                  \/ req[q].tab # "none" /\ req[q].op \in PanelOps /\ req[q]'.token = req[q].token
    BY <1>4, <1>7, <1>a, Fading
  <2> QED BY <2>1, SessionKept
<1>c. writes' \in 0 .. MaxWrites /\ writes' \in Nat /\ writes <= writes'
  BY <1>1, AdminAssumption
<1>d. CountInv'
  <2>1. \A q \in Requests : q \in Pending' => q \in Pending \/ q = r
    BY <1>a, Fading
  <2>2. CASE op \in Toggles
    BY <1>2, <2>1, <2>2, CountAdds
  <2>3. CASE op \notin Toggles
    <3>1. op \notin WriteOps
      BY <2>3 DEF WriteOps, PanelOps, Session, Toggles, Replies, Accounts, UserOps
    <3>2. r \notin Pending'
      BY <1>4, <1>7, <3>1 DEF Pending
    <3>3. \A q \in Requests : q \in Pending' => q \in Pending
      BY <2>1, <3>2
    <3> QED BY <1>2, <1>c, <3>3, CountKept
  <2> QED BY <2>2, <2>3
<1> QED BY <1>1, <1>7, <1>9, <1>b, <1>c, <1>d, QuietStep

LEMMA SignInStep ==
    ASSUME AdminInv, NEW t \in Tabs, NEW r \in Requests, NEW a \in Admins, SignIn(t, r, a)
    PROVE  AdminInv'
<1>1. /\ req \in [Requests -> RequestRecords] /\ tab \in [Tabs -> TabRecords]
      /\ writes \in 0 .. MaxWrites
  BY DEF AdminInv, Typed, TypeOK, TabRecords
<1>0. PICK z : z = [NoRequest EXCEPT !.pc = "sent", !.op = "login", !.tab = t, !.who = a,
                                     !.token = cookie, !.current = "login" # "login"]
  OBVIOUS
<1>2. /\ UNCHANGED <<database, cookie, ended, owner, expired, raced, tab, writes, user, version>>
      /\ req' = [req EXCEPT ![r] = z]
  BY <1>0 DEF SignIn, Send, browser, database
<1>3. \A q \in Requests : Fade(req[q], req[q])
  BY DEF Fade
<1>4. /\ "login" \in PanelOps \cup Session /\ "login" \notin Toggles
  BY DEF Session, Toggles
<1>7. z \in RequestRecords /\ SentAs(z, "login", t, a)
  BY <1>0, <1>4, SentFacts DEF AdminInv
<1>5. writes' <= MaxWrites
  BY <1>1, <1>2, AdminAssumption
<1>6. ListInv'
  <2>1. \A q \in Requests \ {r} : req[q]' = req[q]
    BY <1>1, <1>2
  <2>2. req[r]'.op = "login"
    BY <1>1, <1>2, <1>7 DEF SentAs
  <2>3. \A u \in Tabs : \A q \in Awaited(u)' : q \in Awaited(u) /\ req[q]' = req[q]
    BY <2>1, <2>2 DEF Awaited
  <2>4. ListInv
    BY DEF AdminInv
  <2> QED BY <1>2, <2>3, <2>4 DEF ListInv
<1> QED BY <1>1, <1>2, <1>3, <1>4, <1>5, <1>6, <1>7, SendStep

LEMMA ToggleStep ==
    ASSUME AdminInv, NEW t \in Tabs, NEW r \in Requests, Toggle(t, r)
    PROVE  AdminInv'
<1>1. /\ req \in [Requests -> RequestRecords] /\ tab \in [Tabs -> TabRecords]
      /\ writes \in 0 .. MaxWrites
  BY DEF AdminInv, Typed, TypeOK, TabRecords
<1>2. PICK op \in Toggles : op = IF tab[t].shown.status = "active" THEN "blocked" ELSE "active"
  BY DEF Toggles
<1>3. op # "list" /\ op \in PanelOps \cup Session /\ op # "login"
  BY <1>2 DEF Toggles, PanelOps
<1>0. PICK z : z = [NoRequest EXCEPT !.pc = "sent", !.op = op, !.tab = t, !.who = "none",
                                     !.token = cookie, !.current = op # "login"]
  OBVIOUS
<1>b. z \in RequestRecords /\ SentAs(z, op, t, "none")
  BY <1>0, <1>3, SentFacts DEF AdminInv
<1>4. /\ UNCHANGED <<database, cookie, ended, owner, expired, raced, tab, user, version>>
      /\ req' = [req EXCEPT ![r] = z]
      /\ writes' = writes + 1 /\ writes < MaxWrites /\ tab[t].shown.status # "none"
  BY <1>0, <1>2 DEF Toggle, Send, browser, database
<1>5. \A q \in Requests : Fade(req[q], req[q])
  BY DEF Fade
<1>6. writes' <= MaxWrites
  BY <1>1, <1>4, AdminAssumption
<1>7. ListInv'
  <2>1. \A q \in Requests \ {r} : req[q]' = req[q]
    BY <1>1, <1>4
  <2>2. req[r]'.op = op
    BY <1>1, <1>4, <1>b DEF SentAs
  <2>3. \A u \in Tabs : \A q \in Awaited(u)' : q \in Awaited(u) /\ req[q]' = req[q]
    BY <1>3, <2>1, <2>2 DEF Awaited
  <2>4. ListInv
    BY DEF AdminInv
  <2> QED BY <1>4, <2>3, <2>4 DEF ListInv
<1>8. user # "none"
  BY <1>4 DEF AdminInv, ListInv
<1>9. writes' = IF op \in Toggles THEN writes + 1 ELSE writes
  BY <1>4
<1>a. tab' \in [Tabs -> TabRecords]
  BY <1>1, <1>4
<1> HIDE DEF AdminInv, ListInv
<1> QED BY <1>1, <1>3, <1>4, <1>5, <1>6, <1>7, <1>8, <1>9, <1>a, <1>b, SendStep

LEMMA FetchListStep ==
    ASSUME AdminInv, NEW t \in Tabs, NEW r \in Requests, FetchList(t, r)
    PROVE  AdminInv'
<1>1. /\ req \in [Requests -> RequestRecords] /\ tab \in [Tabs -> TabRecords]
      /\ writes \in 0 .. MaxWrites
  BY DEF AdminInv, Typed, TypeOK, TabRecords
<1>2. PICK f \in [Requests -> RequestRecords] : f = Cancelled(t, req, {"list"})
  BY <1>1, CancelledFacts
<1>0. PICK z : z = [NoRequest EXCEPT !.pc = "sent", !.op = "list", !.tab = t,
                                     !.token = cookie, !.current = TRUE]
  OBVIOUS
<1>3. /\ UNCHANGED <<database, cookie, ended, owner, expired, raced, writes, user, version>>
      /\ req' = [f EXCEPT ![r] = z]
      /\ tab' = [tab EXCEPT ![t].fetch = FALSE]
  BY <1>0, <1>2 DEF FetchList, database
<1>4. \A q \in Requests : /\ Fade(f[q], req[q])
                          /\ f[q].tab = t /\ f[q].op = "list" => ~f[q].current
  BY <1>1, <1>2, CancelledFacts
<1>5. /\ tab' \in [Tabs -> TabRecords] /\ \A u \in Tabs : tab[u]'.shown = tab[u].shown
  <2>1. \A u \in Tabs : tab[u] \in TabRecords
    BY <1>1
  <2> QED BY <1>1, <1>3, <2>1 DEF TabRecords
<1>6. writes' <= MaxWrites
  BY <1>1, <1>3, AdminAssumption
<1>7. "list" \in PanelOps \cup Session /\ "list" \notin Toggles
  BY DEF Toggles, PanelOps
<1>9. z \in RequestRecords /\ SentAs(z, "list", t, "none")
  BY <1>0, <1>7, SentFacts DEF AdminInv
<1>8. ListInv'
  <2>1. \A q \in Requests \ {r} : req[q]' = f[q]
    BY <1>3
  <2>2. req[r]'.tab = t /\ req[r]'.reply = "none"
    BY <1>3, <1>9 DEF SentAs
  <2>3. \A q \in Awaited(t)' : q = r
    BY <1>4, <2>1 DEF Awaited
  <2>4. \A u \in Tabs \ {t} : \A q \in Awaited(u)' :
            /\ q \in Awaited(u) /\ req[q]'.version = req[q].version
            /\ req[q]'.reply = "ok" => req[q].reply = "ok"
    <3> SUFFICES ASSUME NEW u \in Tabs \ {t}, NEW q \in Awaited(u)'
                 PROVE  /\ q \in Awaited(u) /\ req[q]'.version = req[q].version
                        /\ req[q]'.reply = "ok" => req[q].reply = "ok"
      OBVIOUS
    <3>1. q # r /\ q \in Requests /\ req[q]'.tab = u /\ req[q]'.op = "list" /\ req[q]'.current
      BY <2>2 DEF Awaited
    <3>2. u # "none" /\ Fade(req[q]', req[q])
      BY <1>4, <2>1, <3>1, AdminAssumption
    <3>3. req[q]' # NoRequest
      BY <3>1, <3>2, NoRequestRecord
    <3> QED BY <3>1, <3>2, <3>3 DEF Fade, Awaited
  <2>5. ListInv
    BY DEF AdminInv
  <2>6. \A u \in Tabs : /\ tab[u]'.shown.version <= version'
                        /\ tab[u]'.shown.status # "none" => user' # "none"
    BY <1>3, <1>5, <2>5 DEF ListInv
  <2>7. \A u \in Tabs : /\ \A p, q \in Awaited(u)' : p = q
                        /\ \A p \in Awaited(u)' : req[p]'.reply = "ok"
                                            => tab[u]'.shown.version <= req[p]'.version
    BY <1>5, <2>2, <2>3, <2>4, <2>5 DEF ListInv
  <2> QED BY <2>6, <2>7 DEF ListInv
<1> QED BY <1>2, <1>3, <1>4, <1>5, <1>6, <1>7, <1>8, <1>9, SendStep

-----------------------------------------------------------------------------
(* Answers. *)

LEMMA FadeTwice ==
    ASSUME NEW z \in RequestRecords, NEW y, NEW x, Fade(z, y), Fade(y, x)
    PROVE  Fade(z, x)
<1>1. CASE y = NoRequest /\ x.pc = "done"
  <2>1. z = [pc |-> "none", op |-> "none", tab |-> "none", who |-> "none", token |-> 0,
             seen |-> "none", version |-> -1, reply |-> "none", current |-> FALSE]
    <3>1. /\ z.pc = "none" /\ z.op = "none" /\ z.tab = "none" /\ z.who = "none" /\ z.token = 0
          /\ z.seen = "none" /\ z.version = -1 /\ z.reply = "none" /\ z.current = FALSE
      BY <1>1, NoRequestRecord DEF Fade
    <3> QED BY <3>1 DEF RequestRecords
  <2> QED BY <1>1, <2>1 DEF NoRequest, Fade
<1>2. CASE ~(y = NoRequest /\ x.pc = "done") /\ z = NoRequest /\ y.pc = "done"
  BY <1>2 DEF Fade
<1>3. CASE ~(y = NoRequest /\ x.pc = "done") /\ ~(z = NoRequest /\ y.pc = "done")
  BY <1>3 DEF Fade
<1> QED BY <1>1, <1>2, <1>3

LEMMA UnauthorizedStep ==
    ASSUME AdminInv, NEW r \in Requests, ArriveUnauthorized(r)
    PROVE  AdminInv'
<1>1. /\ req \in [Requests -> RequestRecords] /\ tab \in [Tabs -> TabRecords]
      /\ expired \subseteq 1 .. Len(owner) /\ Len(owner) \in Nat /\ Typed /\ RequestInv
      /\ ended \in BOOLEAN /\ raced \subseteq Groups \cup {Session}
  BY DEF AdminInv, Typed, TypeOK, TabRecords
<1>2. PICK x \in RequestRecords : x = req[r]
  BY <1>1
<1>3. /\ x.tab # "none" /\ x.reply = "401" /\ x.op # "login"
      /\ ended' = (ended \/ cookie \in (1 .. Len(owner)) \ expired)
      /\ cookie' = 0 /\ tab' = [tab EXCEPT ![x.tab] = Page("login")]
      /\ req' = Abandoned(x.tab, Answered(r))
      /\ UNCHANGED <<database, owner, expired, writes, raced>>
  BY <1>2 DEF ArriveUnauthorized, SessionOver
<1>4. x.tab \in Tabs
  BY <1>3 DEF RequestRecords
<1>5. PICK f \in [Requests -> RequestRecords] : f = Answered(r)
  BY <1>1, AnsweredFacts
<1>6. \A q \in Requests : Fade(f[q], req[q])
  BY <1>1, <1>5, AnsweredFacts
<1>7. req' \in [Requests -> RequestRecords] /\ \A q \in Requests : Fade(req[q]', f[q])
  BY <1>3, <1>5, AbandonedFacts
<1>8. \A q \in Requests : Fade(req[q]', req[q])
  BY <1>6, <1>7, FadeTwice
<1>9. /\ tab' \in [Tabs -> TabRecords]
      /\ \A u \in Tabs : tab[u]'.shown \in {tab[u].shown, NoSnapshot}
  BY <1>1, <1>3, <1>4, PageRecord
<1>a. ListInv'
  <2>1. UNCHANGED <<user, version>>
    BY <1>3 DEF database
  <2> QED BY <1>7, <1>8, <1>9, <2>1, Fading, ListKept
<1>b. SessionInv'
  <2> SUFFICES ASSUME Session \notin raced PROVE ~ended' /\ cookie' = 0
    BY <1>3 DEF SessionInv
  <2>1. ~ended /\ \A q \in Requests : req[q].tab # "none" /\ req[q].op \in PanelOps
                                          => cookie \in {0, req[q].token}
    BY DEF AdminInv, SessionInv
  <2>2. x.op \in PanelOps
    BY <1>1, <1>2, <1>3 DEF RequestInv, RequestOK, Session
  <2>3. cookie \in {0, x.token} /\ ~(x.token # 0 /\ x.token \notin expired)
    BY <1>1, <1>2, <1>3, <2>1, <2>2 DEF RequestInv, RequestOK, SignedIn
  <2>4. cookie \notin (1 .. Len(owner)) \ expired
    BY <2>3
  <2> QED BY <1>3, <2>1, <2>4
<1>c. ended' \in BOOLEAN /\ cookie' \in 0 .. Len(owner)
  BY <1>1, <1>3
<1> QED BY <1>1, <1>3, <1>7, <1>8, <1>9, <1>a, <1>b, <1>c, FadeStep

LEMMA LoginArrives ==
    ASSUME AdminInv, NEW r \in Requests, ArriveLogin(r)
    PROVE  AdminInv'
<1>1. /\ req \in [Requests -> RequestRecords] /\ tab \in [Tabs -> TabRecords]
      /\ expired \subseteq 1 .. Len(owner) /\ Len(owner) \in Nat /\ Typed /\ RequestInv
      /\ ended \in BOOLEAN /\ raced \subseteq Groups \cup {Session}
      /\ cookie \in 0 .. Len(owner)
  BY DEF AdminInv, Typed, TypeOK, TabRecords
<1>2. PICK x \in RequestRecords : x = req[r]
  BY <1>1
<1>3. /\ x.tab # "none" /\ x.op = "login" /\ req' = Answered(r)
      /\ UNCHANGED <<database, ended, owner, expired, writes>>
  BY <1>2 DEF ArriveLogin
<1>4. x.tab \in Tabs /\ x.token \in 0 .. Len(owner)
  BY <1>1, <1>2, <1>3 DEF RequestRecords, RequestInv, RequestOK
<1>5. req' \in [Requests -> RequestRecords] /\ \A q \in Requests : Fade(req[q]', req[q])
  BY <1>1, <1>3, AnsweredFacts
<1>6. UNCHANGED <<user, version>>
  BY <1>3 DEF database
<1>7. CASE x.reply = "ok"
  <2>1. /\ cookie' = x.token /\ tab' = [tab EXCEPT ![x.tab] = Page("users")]
        /\ raced' = IF \E q \in Requests : req[q].tab # "none" /\ req[q].op \in PanelOps
                    THEN raced \cup {Session} ELSE raced
    BY <1>2, <1>7 DEF ArriveLogin
  <2>2. /\ tab' \in [Tabs -> TabRecords]
        /\ \A u \in Tabs : tab[u]'.shown \in {tab[u].shown, NoSnapshot}
    BY <1>1, <1>4, <2>1, PageRecord
  <2>3. ListInv'
    BY <1>5, <1>6, <2>2, Fading, ListKept
  <2>4. SessionInv'
    <3> SUFFICES ASSUME Session \notin raced'
                 PROVE  /\ ~ended'
                        /\ \A q \in Requests : ~(req[q]'.tab # "none" /\ req[q]'.op \in PanelOps)
      BY DEF SessionInv
    <3>1. \A q \in Requests : ~(req[q].tab # "none" /\ req[q].op \in PanelOps)
      BY <2>1
    <3>2. ~ended
      BY <2>1 DEF AdminInv, SessionInv
    <3> QED BY <1>3, <1>5, <3>1, <3>2, Fading
  <2>5. raced \subseteq raced' /\ raced' \subseteq Groups \cup {Session}
    BY <1>1, <2>1
  <2> QED BY <1>1, <1>3, <1>4, <1>5, <2>1, <2>2, <2>3, <2>4, <2>5, FadeStep
<1>8. CASE x.reply # "ok"
  <2>1. UNCHANGED <<cookie, tab, raced>>
    BY <1>2, <1>8 DEF ArriveLogin
  <2> QED BY <1>1, <1>3, <1>5, <2>1, FadeQuiet
<1> QED BY <1>7, <1>8

LEMMA ToggleArrives ==
    ASSUME AdminInv, NEW r \in Requests, ArriveToggle(r)
    PROVE  AdminInv'
<1>1. /\ req \in [Requests -> RequestRecords] /\ tab \in [Tabs -> TabRecords]
      /\ expired \subseteq 1 .. Len(owner) /\ Typed
  BY DEF AdminInv, Typed, TypeOK, TabRecords
<1>2. PICK x \in RequestRecords : x = req[r]
  BY <1>1
<1>3. /\ x.tab # "none" /\ req' = Answered(r)
      /\ UNCHANGED <<database, cookie, ended, owner, expired, writes, raced>>
  BY <1>2 DEF ArriveToggle
<1>4. PICK b \in BOOLEAN : tab' = [tab EXCEPT ![x.tab].fetch = b]
  <2>1. x.tab \in Tabs
    BY <1>3 DEF RequestRecords
  <2>2. tab[x.tab].fetch \in BOOLEAN
    BY <1>1, <2>1 DEF TabRecords
  <2> QED BY <1>2, <2>2 DEF ArriveToggle
<1>5. req' \in [Requests -> RequestRecords] /\ \A q \in Requests : Fade(req[q]', req[q])
  BY <1>1, <1>3, AnsweredFacts
<1>6. /\ tab' \in [Tabs -> TabRecords]
      /\ \A u \in Tabs : tab[u]'.shown \in {tab[u].shown, NoSnapshot}
  <2>1. \A u \in Tabs : tab[u] \in TabRecords
    BY <1>1
  <2> QED BY <1>1, <1>4, <2>1 DEF TabRecords
<1> QED BY <1>1, <1>3, <1>5, <1>6, FadeQuiet

LEMMA ListArrives ==
    ASSUME AdminInv, NEW r \in Requests, ArriveList(r)
    PROVE  /\ AdminInv'
           /\ \A t \in Tabs : tab[t].shown.version <= tab[t]'.shown.version
<1>1. /\ req \in [Requests -> RequestRecords] /\ tab \in [Tabs -> TabRecords]
      /\ expired \subseteq 1 .. Len(owner) /\ Len(owner) \in Nat /\ Typed /\ RequestInv
      /\ ended \in BOOLEAN /\ raced \subseteq Groups \cup {Session} /\ ListInv
      /\ cookie \in 0 .. Len(owner) /\ version \in 0 .. MaxWrites
  BY DEF AdminInv, Typed, TypeOK, TabRecords
<1>2. PICK x \in RequestRecords : x = req[r]
  BY <1>1
<1>3. /\ x.tab # "none" /\ x.op = "list" /\ x.reply = "ok" /\ x.current
      /\ req' = Answered(r)
      /\ tab' = [tab EXCEPT ![x.tab].shown = [status |-> x.seen, version |-> x.version]]
      /\ UNCHANGED <<database, cookie, ended, owner, expired, writes, raced>>
  BY <1>2 DEF ArriveList
<1>4. x.tab \in Tabs /\ r \in Awaited(x.tab)
  BY <1>2, <1>3 DEF RequestRecords, Awaited
<1>5. /\ x.seen \in Statuses /\ x.version <= version
      /\ x.seen # "none" => user # "none"
      /\ x.version \in -1 .. MaxWrites
  BY <1>1, <1>2, <1>3 DEF RequestInv, RequestOK, RequestRecords
<1>6. tab[x.tab].shown.version <= x.version
  BY <1>1, <1>2, <1>3, <1>4 DEF ListInv
<1>7. /\ tab' \in [Tabs -> TabRecords] /\ tab[x.tab]'.shown.status = x.seen
      /\ tab[x.tab]'.shown.version = x.version
      /\ \A u \in Tabs \ {x.tab} : tab[u]'.shown = tab[u].shown
  <2>1. PICK s : s = [status |-> x.seen, version |-> x.version]
    OBVIOUS
  <2>2. s \in [status : Statuses, version : -1 .. MaxWrites] /\ s.status = x.seen
        /\ s.version = x.version
    BY <1>5, <2>1
  <2>3. tab' = [tab EXCEPT ![x.tab].shown = s]
    BY <1>3, <2>1
  <2>4. PICK y : y = [tab[x.tab] EXCEPT !.shown = s]
    OBVIOUS
  <2>5. y \in TabRecords /\ y.shown = s
    <3>1. tab[x.tab] \in TabRecords
      BY <1>1, <1>4
    <3> QED BY <2>2, <2>4, <3>1 DEF TabRecords
  <2>6. tab' = [tab EXCEPT ![x.tab] = y]
    BY <2>3, <2>4
  <2> QED BY <1>1, <1>4, <2>2, <2>5, <2>6
<1>8. req' \in [Requests -> RequestRecords] /\ \A q \in Requests : Fade(req[q]', req[q])
  BY <1>1, <1>3, AnsweredFacts
<1>9. \A t \in Tabs : tab[t].shown.version <= tab[t]'.shown.version
  <2>1. \A t \in Tabs : tab[t].shown.version \in -1 .. MaxWrites
    BY <1>1 DEF TabRecords
  <2> QED BY <1>6, <1>7, <2>1, AdminAssumption
<1>a. UNCHANGED <<user, version>>
  BY <1>3 DEF database
<1>b. ListInv'
  <2> SUFFICES ASSUME NEW t \in Tabs
               PROVE  /\ \A p, q \in Awaited(t)' : p = q
                      /\ \A q \in Awaited(t)' : req[q]'.reply = "ok"
                                                   => tab[t]'.shown.version <= req[q]'.version
                      /\ tab[t]'.shown.version <= version'
                      /\ tab[t]'.shown.status # "none" => user' # "none"
    BY DEF ListInv, Awaited
  <2>1. /\ \A p, q \in Awaited(t) : p = q
        /\ \A q \in Awaited(t) : req[q].reply = "ok" => tab[t].shown.version <= req[q].version
        /\ tab[t].shown.version <= version
        /\ tab[t].shown.status # "none" => user # "none"
    BY <1>1 DEF ListInv
  <2>2. t # "none"
    BY AdminAssumption
  <2>3. \A q \in Awaited(t)' : /\ q \in Awaited(t)
                               /\ req[q]'.reply = "ok" => /\ req[q].reply = "ok"
                                                          /\ req[q]'.version = req[q].version
    BY <1>8, <2>2, Fading DEF Awaited
  <2>4. CASE t = x.tab
    <3>1. \A q \in Awaited(t)' : q = r
      BY <1>4, <2>1, <2>3, <2>4
    <3>2. Answered(r)[r].reply = "none"
      <4>1. PICK y : y = [req[r] EXCEPT !.reply = "none"]
        OBVIOUS
      <4>2. y.reply = "none"
        BY <1>1, <4>1 DEF RequestRecords
      <4>3. Answered(r)[r] = Settled(y)
        BY <1>1, <4>1 DEF Answered
      <4>4. Settled(y) = y \/ Settled(y) = NoRequest
        BY SettledFacts
      <4> QED BY <4>2, <4>3, <4>4, NoRequestRecord
    <3> QED BY <1>3, <1>5, <1>7, <1>a, <2>1, <2>3, <2>4, <3>1, <3>2
  <2>5. CASE t # x.tab
    BY <1>7, <1>a, <2>1, <2>3, <2>5
  <2> QED BY <2>4, <2>5
<1>c. SessionInv'
  BY <1>3, <1>8, Fading, SessionKept
<1> QED BY <1>1, <1>3, <1>7, <1>8, <1>9, <1>b, <1>c, FadeStep

-----------------------------------------------------------------------------
(* Handlers. *)

(* A handler is over and has written nothing. *)
LEMMA DoneStep ==
    ASSUME AdminInv, UNCHANGED <<database, browser, expired, writes, raced>>,
           NEW r \in Requests, NEW y \in RequestRecords, req' = [req EXCEPT ![r] = Settled(y)],
           y.pc = "done", y.op = req[r].op, y.tab = req[r].tab, y.who = req[r].who,
           y.current = req[r].current, y.op # "login" => y.token = req[r].token,
           \/ UNCHANGED owner
           \/ \E a \in Admins : /\ owner' = Append(owner, a) /\ admins[a] # "none"
                                /\ Len(owner) < MaxLogins,
           y.token \in 0 .. Len(owner'),
           y.op \in PanelOps /\ y.reply = "401" => ~SignedIn(y),
           y.op = "list" => \/ y.seen = user /\ y.version = version
                            \/ /\ y.seen = req[r].seen /\ y.version = req[r].version
                               /\ y.reply # "ok"
    PROVE  AdminInv'
<1>1. /\ req \in [Requests -> RequestRecords] /\ tab \in [Tabs -> TabRecords]
      /\ expired \subseteq 1 .. Len(owner) /\ Len(owner) \in Nat /\ Typed /\ RequestInv
      /\ ended \in BOOLEAN /\ raced \subseteq Groups \cup {Session}
      /\ cookie \in 0 .. Len(owner) /\ version \in 0 .. MaxWrites /\ writes \in 0 .. MaxWrites
      /\ user \in Statuses /\ owner \in Seq(Admins)
  BY DEF AdminInv, Typed, TypeOK, TabRecords
<1>2. UNCHANGED <<user, ticket, version, cookie, tab, ended>>
  BY DEF database, browser
<1>3. RequestOK(req[r])
  BY <1>1 DEF RequestInv
<1>4. Len(owner') \in Nat /\ Len(owner) <= Len(owner')
  BY <1>1
<1>5. PICK z : z = Settled(y)
  OBVIOUS
<1>6. z = y \/ z = NoRequest
  BY <1>5, SettledFacts
<1>7. /\ req' \in [Requests -> RequestRecords] /\ req[r]' = z
      /\ \A q \in Requests \ {r} : req[q]' = req[q]
  BY <1>1, <1>5, <1>6, NoRequestRecord
<1>8. ~Working(z) /\ ~Live(z)
  BY <1>6, NoRequestRecord DEF Working, Live
<1>9. RequestOK(req[r])'
  <2>1. CASE z = NoRequest
    <3>1. 0 \in 0 .. Len(owner')
      BY <1>4
    <3>2. NoRequest.op \notin Ops
      BY NoRequestRecord DEF Ops, Toggles, Replies, PanelOps, Accounts, UserOps, Session
    <3> QED BY <1>7, <1>8, <2>1, <3>1, <3>2, NoRequestRecord
          DEF RequestOK, Ops, PanelOps, Working, Live
  <2>2. CASE z = y
    <3>1. y.tab # "none" => y.op \in PanelOps \cup Session
      BY <1>3 DEF RequestOK
    <3>2. y.op \in Accounts \cup Session => y.who \in Admins
      BY <1>3 DEF RequestOK
    <3>3. y.op = "list" => /\ y.seen \in Statuses /\ y.version <= version'
                           /\ y.seen # "none" => user' # "none"
      <4>1. CASE y.op = "list" /\ y.seen = user /\ y.version = version
        BY <1>1, <1>2, <4>1, AdminAssumption
      <4>2. CASE y.op = "list" /\ y.seen = req[r].seen /\ y.version = req[r].version
        BY <1>2, <1>3, <4>2 DEF RequestOK
      <4> QED BY <4>1, <4>2
    <3>4. y.op \in PanelOps /\ y.reply = "401" => ~(y.token # 0 /\ y.token \notin expired')
      BY DEF SignedIn
    <3> QED BY <1>7, <1>8, <2>2, <3>1, <3>2, <3>3, <3>4
          DEF RequestOK, SignedIn, Working, Live
  <2> QED BY <1>6, <2>1, <2>2
<1>a. \A q \in Requests \ {r} : Fade(req[q]', req[q])
  BY <1>7 DEF Fade
<1>b. \A q \in Requests : \/ Fade(req[q]', req[q])
                          \/ ~Working(req[q]') /\ RequestOK(req[q])'
  BY <1>7, <1>8, <1>9, <1>a
<1>c. SessionInv'
  <2>1. z.tab # "none" /\ z.op \in PanelOps
            => req[r].tab # "none" /\ req[r].op \in PanelOps /\ z.token = req[r].token
    BY <1>6, NoRequestRecord DEF PanelOps, Toggles
  <2>2. \A q \in Requests : req[q]'.tab # "none" /\ req[q]'.op \in PanelOps
               => \/ req[q]'.token = cookie
                  \/ req[q].tab # "none" /\ req[q].op \in PanelOps /\ req[q]'.token = req[q].token
    BY <1>7, <1>a, <2>1, Fading
  <2> QED BY <1>2, <2>2, SessionKept
<1>d. ListInv'
  <2>1. z.tab # "none" /\ z.op = "list" /\ z.current
            => /\ z.tab = req[r].tab /\ req[r].op = "list" /\ req[r].current
               /\ z.reply = "ok" => z.version = version
    BY <1>6, NoRequestRecord
  <2>2. \A q \in Requests : req[q]'.tab # "none" /\ req[q]'.op = "list" /\ req[q]'.current
               => /\ req[q]'.tab = req[q].tab /\ req[q].op = "list" /\ req[q].current
                  /\ req[q]'.reply = "ok" =>
                       \/ req[q].reply = "ok" /\ req[q]'.version = req[q].version
                       \/ req[q]'.version = version
    BY <1>7, <1>a, <2>1, Fading
  <2>3. tab' \in [Tabs -> TabRecords]
      /\ \A t \in Tabs : tab[t]'.shown \in {tab[t].shown, NoSnapshot}
    BY <1>1, <1>2
  <2> QED BY <1>2, <1>7, <2>2, <2>3, ListKept
<1>e. CountInv'
  <2>1. \A q \in Requests : q \in Pending' => q \in Pending
    BY <1>7, <1>8, <1>a, Fading DEF Pending
  <2>2. writes' \in Nat /\ writes <= writes'
    BY <1>1, AdminAssumption
  <2> QED BY <1>2, <2>1, <2>2, CountKept
<1>f. /\ expired' \subseteq 1 .. Len(owner') /\ cookie' \in 0 .. Len(owner')
  BY <1>1, <1>2, <1>4
<1> QED BY <1>1, <1>2, <1>7, <1>b, <1>c, <1>d, <1>e, <1>f, QuietStep

LEMMA RefuseStep ==
    ASSUME AdminInv, NEW r \in Requests, Refuse(r)
    PROVE  AdminInv'
<1>1. /\ req \in [Requests -> RequestRecords] /\ Typed /\ RequestInv
  BY DEF AdminInv, Typed
<1>2. PICK x \in RequestRecords : x = req[r]
  BY <1>1
<1>3. PICK code : code = IF x.op = "login" THEN "401" ELSE Verdict(x)
  OBVIOUS
<1>4. PICK y : y = [x EXCEPT !.pc = "done", !.reply = code]
  OBVIOUS
<1>5. /\ x.pc = "sent" /\ (Verdict(x) # "ok" \/ x.op = "login")
      /\ req' = [req EXCEPT ![r] = Settled(y)]
      /\ UNCHANGED <<database, browser, owner, expired, writes, raced>>
  BY <1>1, <1>2, <1>3, <1>4 DEF Refuse, Finish
<1>6. Verdict(x) \in {"401", "403", "409", "ok"}
  BY DEF Verdict
<1>7. code \in {"401", "403", "409"}
  BY <1>3, <1>5, <1>6
<1>8. /\ y \in RequestRecords /\ y.pc = "done" /\ y.op = x.op /\ y.tab = x.tab /\ y.who = x.who
      /\ y.current = x.current /\ y.token = x.token /\ y.reply = code /\ y.seen = x.seen
      /\ y.version = x.version
  BY <1>4, <1>7 DEF RequestRecords
<1>9. y.op \in PanelOps /\ y.reply = "401" => ~SignedIn(y)
  <2> SUFFICES ASSUME x.op \in PanelOps, code = "401" PROVE ~SignedIn(x)
    BY <1>8 DEF SignedIn
  <2>1. x.op # "login" /\ Verdict(x) = "401"
    BY <1>3 DEF PanelOps, Toggles
  <2>2. Verdict(x) = IF ~SignedIn(x) THEN "401"
                     ELSE IF x.op \in Toggles \cup Replies /\ Viewer(x) THEN "403"
                     ELSE IF x.op = "ask" /\ user # "active" THEN "403"
                     ELSE IF x.op = "bootstrap" /\ \E a \in Admins : admins[a] # "none" THEN "409"
                     ELSE "ok"
    BY <2>1 DEF Verdict, Anonymous
  <2> QED BY <2>1, <2>2
<1>a. y.token \in 0 .. Len(owner')
  BY <1>1, <1>2, <1>5, <1>8 DEF RequestInv, RequestOK
<1> QED BY <1>2, <1>5, <1>7, <1>8, <1>9, <1>a, DoneStep

LEMMA IssueTokenStep ==
    ASSUME AdminInv, NEW r \in Requests, IssueToken(r)
    PROVE  AdminInv'
<1>1. /\ req \in [Requests -> RequestRecords] /\ Typed /\ RequestInv
      /\ owner \in Seq(Admins) /\ Len(owner) \in Nat
  BY DEF AdminInv, Typed, TypeOK
<1>2. PICK x \in RequestRecords : x = req[r]
  BY <1>1
<1>3. /\ x.pc = "sent" /\ x.op = "login" /\ Verdict(x) = "ok" /\ Len(owner) < MaxLogins
      /\ owner' = Append(owner, x.who)
      /\ UNCHANGED <<database, browser, expired, writes, raced>>
  BY <1>2 DEF IssueToken
<1>4. x.who \in Admins
  BY <1>1, <1>2, <1>3 DEF RequestInv, RequestOK, Session
<1>5. admins[x.who] # "none"
  BY <1>3 DEF Verdict
<1>6. Len(owner') = Len(owner) + 1 /\ Len(owner') \in Nat
  BY <1>1, <1>3, <1>4
<1>7. PICK y : y = [x EXCEPT !.pc = "done", !.reply = "ok", !.token = Len(owner')]
  OBVIOUS
<1>8. /\ y \in RequestRecords /\ y.pc = "done" /\ y.op = x.op /\ y.tab = x.tab /\ y.who = x.who
      /\ y.current = x.current /\ y.token = Len(owner') /\ y.reply = "ok"
  BY <1>6, <1>7 DEF RequestRecords
<1>9. req' = [req EXCEPT ![r] = Settled(y)]
  BY <1>1, <1>2, <1>7 DEF IssueToken
<1>a. y.token \in 0 .. Len(owner')
  BY <1>6, <1>8
<1> QED BY <1>2, <1>3, <1>4, <1>5, <1>8, <1>9, <1>a, DoneStep

LEMMA ListUsersStep ==
    ASSUME AdminInv, NEW r \in Requests, ListUsers(r)
    PROVE  AdminInv'
<1>1. /\ req \in [Requests -> RequestRecords] /\ Typed /\ RequestInv
      /\ user \in Statuses /\ version \in 0 .. MaxWrites
  BY DEF AdminInv, Typed, TypeOK
<1>2. PICK x \in RequestRecords : x = req[r]
  BY <1>1
<1>3. PICK y : y = [x EXCEPT !.pc = "done", !.reply = "ok", !.seen = user, !.version = version]
  OBVIOUS
<1>4. /\ x.op = "list" /\ req' = [req EXCEPT ![r] = Settled(y)]
      /\ UNCHANGED <<database, browser, owner, expired, writes, raced>>
  BY <1>1, <1>2, <1>3 DEF ListUsers
<1>5. /\ y \in RequestRecords /\ y.pc = "done" /\ y.op = x.op /\ y.tab = x.tab /\ y.who = x.who
      /\ y.current = x.current /\ y.token = x.token /\ y.reply = "ok" /\ y.seen = user
      /\ y.version = version
  <2>1. version \in -1 .. MaxWrites
    BY <1>1, AdminAssumption
  <2> QED BY <1>1, <1>3, <2>1 DEF RequestRecords
<1>6. y.token \in 0 .. Len(owner')
  BY <1>1, <1>2, <1>4, <1>5 DEF RequestInv, RequestOK
<1> QED BY <1>2, <1>4, <1>5, <1>6, DoneStep

(* What a transaction that is over was about does not matter any more. *)
LEMMA OverStep ==
    ASSUME AdminInv, NEW r \in Requests, Working(req[r]), NEW y \in RequestRecords,
           y.pc = "done", y.op = req[r].op, y.tab = req[r].tab, y.who = req[r].who,
           y.current = req[r].current, y.token = req[r].token, y.reply # "401",
           req' = [req EXCEPT ![r] = Settled(y)],
           UNCHANGED <<database, browser, owner, expired, writes, raced>>
    PROVE  AdminInv'
<1>1. RequestOK(req[r])
  BY DEF AdminInv, RequestInv
<1>2. y.op # "list"
  BY <1>1 DEF RequestOK, WriteOps, Toggles, Replies, Accounts, UserOps
<1>3. y.token \in 0 .. Len(owner')
  BY <1>1 DEF RequestOK
<1> QED BY <1>2, <1>3, DoneStep

LEMMA LoseStep ==
    ASSUME AdminInv, NEW r \in Requests, Lose(r)
    PROVE  AdminInv'
<1>1. req \in [Requests -> RequestRecords] /\ RequestInv
  BY DEF AdminInv, Typed
<1>2. PICK x \in RequestRecords : x = req[r]
  BY <1>1
<1>3. PICK y : y = [x EXCEPT !.pc = "done"]
  OBVIOUS
<1>4. /\ y \in RequestRecords /\ y.pc = "done" /\ y.op = x.op /\ y.tab = x.tab /\ y.who = x.who
      /\ y.current = x.current /\ y.token = x.token /\ y.reply = x.reply
      /\ y.seen = x.seen /\ y.version = x.version
  BY <1>3 DEF RequestRecords
<1>5. /\ x.pc = "flushed" /\ req' = [req EXCEPT ![r] = Settled(y)]
      /\ UNCHANGED <<database, browser, owner, expired, writes, raced>>
  BY <1>1, <1>2, <1>3 DEF Lose
<1>6. RequestOK(x)
  BY <1>1, <1>2 DEF RequestInv
<1>7. y.op # "list"
  BY <1>4, <1>5, <1>6 DEF RequestOK, Working, WriteOps, Toggles, Replies, Accounts, UserOps
<1>8. y.token \in 0 .. Len(owner')
  BY <1>4, <1>5, <1>6 DEF RequestOK
<1>9. y.op \in PanelOps /\ y.reply = "401" => ~SignedIn(y)
  BY <1>4, <1>6 DEF RequestOK, SignedIn
<1> QED BY <1>2, <1>4, <1>5, <1>7, <1>8, <1>9, DoneStep

(* A transaction starts or goes on. *)
LEMMA WorkStep ==
    ASSUME AdminInv, UNCHANGED <<database, browser, owner, expired>>,
           NEW r \in Requests, NEW y \in RequestRecords, req' = [req EXCEPT ![r] = y],
           y.op \in WriteOps, RequestOK(req[r])',
           \/ y.tab = "none"
           \/ y.tab = req[r].tab /\ y.op = req[r].op /\ y.token = req[r].token,
           writes' \in 0 .. MaxWrites, raced \subseteq raced',
           raced' \subseteq Groups \cup {Session}
    PROVE  /\ Typed' /\ RequestInv' /\ SessionInv' /\ ListInv'
           /\ req[r]' = y /\ \A q \in Requests \ {r} : req[q]' = req[q]
<1>1. /\ req \in [Requests -> RequestRecords] /\ tab \in [Tabs -> TabRecords]
      /\ expired \subseteq 1 .. Len(owner) /\ ended \in BOOLEAN /\ cookie \in 0 .. Len(owner)
  BY DEF AdminInv, Typed, TypeOK, TabRecords
<1>2. UNCHANGED <<user, version, cookie, tab, ended>>
  BY DEF database, browser
<1>3. /\ req' \in [Requests -> RequestRecords] /\ req[r]' = y
      /\ \A q \in Requests \ {r} : req[q]' = req[q]
  BY <1>1
<1>4. \A q \in Requests \ {r} : Fade(req[q]', req[q])
  BY <1>3 DEF Fade
<1>5. \A q \in Requests : Fade(req[q]', req[q]) \/ RequestOK(req[q])'
  BY <1>4
<1>6. expired' \subseteq 1 .. Len(owner') /\ cookie' \in 0 .. Len(owner')
  BY <1>1, <1>2
<1>7. Typed' /\ RequestInv'
  BY <1>1, <1>2, <1>3, <1>5, <1>6, FrameStep
<1>8. SessionInv'
  <2>1. \A q \in Requests : req[q]'.tab # "none" /\ req[q]'.op \in PanelOps
               => \/ req[q]'.token = cookie
                  \/ req[q].tab # "none" /\ req[q].op \in PanelOps /\ req[q]'.token = req[q].token
    BY <1>3, <1>4, Fading
  <2> QED BY <1>2, <2>1, SessionKept
<1>9. ListInv'
  <2>1. y.op # "list"
    BY DEF WriteOps, Toggles, Replies, Accounts, UserOps
  <2>2. \A q \in Requests : req[q]'.tab # "none" /\ req[q]'.op = "list" /\ req[q]'.current
               => /\ req[q]'.tab = req[q].tab /\ req[q].op = "list" /\ req[q].current
                  /\ req[q]'.reply = "ok" =>
                       \/ req[q].reply = "ok" /\ req[q]'.version = req[q].version
                       \/ req[q]'.version = version
    BY <1>3, <1>4, <2>1, Fading
  <2>3. tab' \in [Tabs -> TabRecords]
      /\ \A t \in Tabs : tab[t]'.shown \in {tab[t].shown, NoSnapshot}
    BY <1>1, <1>2
  <2> QED BY <1>2, <1>3, <2>2, <2>3, ListKept
<1> QED BY <1>3, <1>7, <1>8, <1>9

LEMMA FlushStep ==
    ASSUME AdminInv, NEW r \in Requests, Flush(r)
    PROVE  AdminInv'
<1>1. /\ req \in [Requests -> RequestRecords] /\ RequestInv /\ UserInv
      /\ raced \subseteq Groups \cup {Session} /\ writes \in 0 .. MaxWrites
  BY DEF AdminInv, Typed, TypeOK
<1>2. PICK x \in RequestRecords : x = req[r]
  BY <1>1
<1>3. /\ x.pc = "read" /\ ~Blocked(r) /\ Working(x)
      /\ UNCHANGED <<database, browser, owner, expired, writes, raced>>
  BY <1>2 DEF Flush, Working
<1>4. RequestOK(x)
  BY <1>1, <1>2 DEF RequestInv
<1>5. CASE Taken(x)
  <2>1. PICK y : y = [x EXCEPT !.pc = "done", !.reply = "500"]
    OBVIOUS
  <2>2. /\ y \in RequestRecords /\ y.pc = "done" /\ y.op = x.op /\ y.tab = x.tab /\ y.who = x.who
        /\ y.current = x.current /\ y.token = x.token /\ y.reply = "500"
    BY <2>1 DEF RequestRecords
  <2>3. req' = [req EXCEPT ![r] = Settled(y)]
    BY <1>1, <1>2, <1>5, <2>1 DEF Flush, Finish
  <2> QED BY <1>2, <1>3, <2>2, <2>3, OverStep
<1>6. CASE ~Taken(x)
  <2>1. PICK y : y = [x EXCEPT !.pc = "flushed",
                               !.reply = IF x.tab = "none" THEN "none" ELSE "ok"]
    OBVIOUS
  <2>2. /\ y \in RequestRecords /\ y.pc = "flushed" /\ y.op = x.op /\ y.tab = x.tab /\ y.who = x.who
        /\ y.current = x.current /\ y.token = x.token /\ y.reply \in {"none", "ok"}
        /\ y.seen = x.seen /\ y.version = x.version
    BY <2>1 DEF RequestRecords
  <2>3. req' = [req EXCEPT ![r] = y]
    BY <1>1, <1>2, <1>6, <2>1 DEF Flush
  <2>4. y.op \in WriteOps
    BY <1>3, <1>4, <2>2 DEF RequestOK
  <2>5. req[r]' = y
    BY <1>1, <2>3
  <2>6. Working(y) /\ Live(y) /\ Live(x) /\ y.pc # "none" /\ y.op # "list"
    BY <1>3, <2>2, <2>4 DEF Working, Live, WriteOps, Toggles, Replies, Accounts, UserOps
  <2>7. UNCHANGED <<user, ticket, version>>
    BY <1>3 DEF database
  <2>8. RequestOK(req[r])'
    <3>1. y.tab # "none" => y.op \in PanelOps \cup Session
      BY <1>4, <2>2 DEF RequestOK
    <3>2. y.op \in Accounts \cup Session => y.who \in Admins
      BY <1>4, <2>2 DEF RequestOK
    <3>3. y.token \in 0 .. Len(owner')
      BY <1>3, <1>4, <2>2 DEF RequestOK
    <3>4. /\ y.op \in Toggles => user' # "none"
          /\ y.op \in Replies => ticket' # "none"
          /\ y.op = "ask" => ticket' = "none"
      BY <1>3, <1>4, <2>2, <2>6, <2>7 DEF RequestOK
    <3>5. y.reply # "401"
      BY <2>2
    <3> QED BY <2>4, <2>5, <2>6, <3>1, <3>2, <3>3, <3>4, <3>5 DEF RequestOK
  <2>9. /\ Typed' /\ RequestInv' /\ SessionInv' /\ ListInv'
        /\ \A q \in Requests \ {r} : req[q]' = req[q]
    BY <1>1, <1>2, <1>3, <2>2, <2>3, <2>4, <2>8, WorkStep
  <2>a. \A q \in Requests : Working(req[q]') => Kept(req[q]', req[q])
    BY <1>2, <1>3, <2>2, <2>5, <2>9 DEF Kept
  <2>b. \A q \in Starting' : q \in Starting \/ q = r
    BY <2>9 DEF Starting
  <2>c. r \in Starting' => user = "none" /\ Starting = {}
    <3> SUFFICES ASSUME r \in Starting' PROVE user = "none" /\ Starting = {}
      OBVIOUS
    <3>1. x.op = "start" /\ x.seen = "none"
      BY <2>2, <2>5 DEF Starting
    <3>2. user = "none"
      BY <1>6, <3>1 DEF Taken
    <3>3. ASSUME NEW q \in Starting PROVE FALSE
      <4>1. q \in Requests /\ req[q].pc = "flushed" /\ req[q].op = "start" /\ req[q].seen = "none"
        BY DEF Starting
      <4>2. q # r
        BY <1>2, <1>3, <4>1
      <4>3. SameKey(req[r], req[q])
        BY <1>2, <3>1, <4>1 DEF SameKey
      <4> QED BY <1>3, <4>1, <4>2, <4>3 DEF Blocked
    <3> QED BY <3>2, <3>3
  <2>d. /\ \A q, p \in Starting' : q = p
        /\ Starting' # {} => user = "none"
    BY <1>1, <2>b, <2>c DEF UserInv
  <2>e. RaceInv' /\ UserInv' /\ TicketInv' /\ AccountInv'
    BY <1>3, <2>a, <2>d, RacesKept
  <2>f. CountInv'
    <3>1. \A q \in Requests : q \in Pending' => q \in Pending
      BY <1>2, <2>2, <2>5, <2>6, <2>9 DEF Pending
    <3>2. writes' \in Nat /\ writes <= writes'
      BY <1>1, <1>3, AdminAssumption
    <3> QED BY <2>7, <3>1, <3>2, CountKept
  <2> QED BY <2>9, <2>e, <2>f DEF AdminInv
<1> QED BY <1>5, <1>6

(* A handler reads its row: who is at work in its group is a race. *)
LEMMA ReadingStep ==
    ASSUME AdminInv, UNCHANGED <<database, browser, owner, expired>>,
           NEW r \in Requests, ~Working(req[r]), NEW y \in RequestRecords,
           req' = [req EXCEPT ![r] = y], y.pc = "read", y.op \in WriteOps, y.reply # "401",
           y.op \in Toggles => y.seen = user /\ user # "none",
           y.op \in Replies => y.seen = ticket /\ ticket # "none",
           y.op \in Accounts => y.seen = "none" /\ y.who \in Admins,
           y.op = "ask" => ticket = "none" /\ \A q \in Requests : req[q].op # "ask",
           y.op = "bootstrap" => \A a \in Admins : admins[a] = "none",
           \/ y.tab = "none" /\ y.token = 0
           \/ y.tab = req[r].tab /\ y.op = req[r].op /\ y.token = req[r].token,
           raced' = raced \cup Overlaps(y), writes' \in 0 .. MaxWrites, CountInv'
    PROVE  AdminInv'
<1>1. /\ req \in [Requests -> RequestRecords] /\ RequestInv /\ RaceInv /\ UserInv /\ TicketInv
      /\ AccountInv /\ raced \subseteq Groups \cup {Session} /\ Len(owner) \in Nat
  BY DEF AdminInv, Typed, TypeOK
<1>2. UNCHANGED <<admins, user, ticket, audit, version, notFirst>>
  BY DEF database
<1>3. req[r]' = y /\ \A q \in Requests \ {r} : req[q]' = req[q]
  BY <1>1
<1>4. Working(y) /\ y.pc # "none" /\ y.op # "list"
  BY DEF Working, WriteOps, Toggles, Replies, Accounts, UserOps
<1>5. RequestOK(req[r])'
  <2>1. y.tab # "none" => y.op \in PanelOps \cup Session
    BY <1>1 DEF RequestInv, RequestOK
  <2>2. y.op \in Accounts \cup Session => y.who \in Admins
    BY <1>1 DEF RequestInv, RequestOK, WriteOps, Toggles, Replies, Accounts, UserOps, Session
  <2>3. y.token \in 0 .. Len(owner')
    <3>1. req[r].token \in 0 .. Len(owner)
      BY <1>1 DEF RequestInv, RequestOK
    <3> QED BY <1>1, <3>1
  <2>4. y.reply # "401"
    OBVIOUS
  <2> QED BY <1>2, <1>3, <1>4, <2>1, <2>2, <2>3, <2>4 DEF RequestOK
<1>6. raced \subseteq raced' /\ raced' \subseteq Groups \cup {Session}
  BY <1>1 DEF Overlaps
<1>7. Typed' /\ RequestInv' /\ SessionInv' /\ ListInv'
  BY <1>5, <1>6, WorkStep
<1>8. ASSUME NEW g \in Groups, y.op \in g, g \notin raced' PROVE In(g) = {}
  <2> SUFFICES ASSUME NEW q \in In(g) PROVE FALSE
    OBVIOUS
  <2>1. q \in Requests /\ Open(q) /\ req[q].op \in g
    BY DEF In, Open, Working
  <2>2. g \in Overlaps(y)
    BY <1>8, <2>1 DEF Overlaps
  <2> QED BY <1>8, <2>2
<1>9. \A g : \A q \in In(g)' : \/ q \in In(g) /\ q # r /\ req[q]' = req[q]
                               \/ q = r /\ y.op \in g
  BY <1>3 DEF In
<1>a. ASSUME NEW g \in Groups, NEW now, Alone(g, now), y.op \in g => y.seen = now
      PROVE  Alone(g, now)'
  <2> SUFFICES ASSUME g \notin raced'
               PROVE  /\ \A p, q \in In(g)' : p = q
                      /\ \A q \in In(g)' : req[q]'.seen = now
    BY DEF Alone
  <2>1. g \notin raced
    BY <1>6
  <2>2. (\A p, q \in In(g) : p = q) /\ \A q \in In(g) : req[q].seen = now
    BY <1>a, <2>1 DEF Alone
  <2>3. CASE y.op \in g
    <3>1. \A q \in In(g)' : q = r
      BY <1>8, <1>9, <2>3
    <3> QED BY <1>3, <1>a, <2>3, <3>1
  <2>4. CASE y.op \notin g
    <3>1. \A q \in In(g)' : q \in In(g) /\ req[q]' = req[q]
      BY <1>9, <2>4
    <3> QED BY <2>2, <3>1
  <2> QED BY <2>3, <2>4
<1>b. /\ Toggles \in Groups /\ Replies \in Groups /\ Accounts \in Groups
  BY DEF Groups
<1>c. RaceInv'
  <2>1. Alone(Toggles, user) /\ Alone(Replies, ticket) /\ Alone(Accounts, "none")
    BY <1>1 DEF RaceInv
  <2>2. PICK u, t : u = user /\ t = ticket
    OBVIOUS
  <2>3. Alone(Toggles, u)' /\ Alone(Replies, t)' /\ Alone(Accounts, "none")'
    BY <1>a, <1>b, <2>1, <2>2
  <2> QED BY <1>2, <2>2, <2>3 DEF RaceInv, Alone
<1>d. UserInv'
  <2>1. \A q \in Starting' : q \in Starting
    BY <1>3 DEF Starting
  <2> QED BY <1>1, <1>2, <1>6, <2>1 DEF UserInv
<1>e. TicketInv'
  <2>1. y.op # "ask" => \A q \in Asking' : q \in Asking
    BY <1>3 DEF Asking
  <2>2. y.op = "ask" => \A q \in Asking' : q = r
    BY <1>3 DEF Asking
  <2>3. \A p, q \in Asking' : p = q
    BY <1>1, <2>1, <2>2 DEF TicketInv
  <2> QED BY <1>1, <1>2, <2>3 DEF TicketInv
<1>f. AccountInv'
  <2> SUFFICES ASSUME Accounts \notin raced'
               PROVE  /\ ~notFirst'
                      /\ \A q \in In(Accounts)' : req[q]'.op = "bootstrap"
                                                    => \A a \in Admins : admins'[a] = "none"
    BY DEF AccountInv
  <2>1. Accounts \notin raced
    BY <1>6
  <2>2. /\ ~notFirst
        /\ \A q \in In(Accounts) : req[q].op = "bootstrap" => \A a \in Admins : admins[a] = "none"
    BY <1>1, <2>1 DEF AccountInv
  <2> QED BY <1>2, <1>3, <1>9, <2>2
<1> QED BY <1>7, <1>c, <1>d, <1>e, <1>f DEF AdminInv

LEMMA ReadingFacts ==
    ASSUME Typed, NEW x \in RequestRecords
    PROVE  /\ Reading(x) \in RequestRecords /\ Reading(x).pc = "read" /\ Reading(x).op = x.op
           /\ Reading(x).tab = x.tab /\ Reading(x).token = x.token /\ Reading(x).who = x.who
           /\ Reading(x).reply = x.reply
           /\ x.op \in Toggles => Reading(x).seen = user
           /\ x.op \in Replies => Reading(x).seen = ticket
           /\ x.op \in Accounts => Reading(x).seen = "none"
<1>1. PICK s : s = CASE x.op \in Toggles \cup {"start"} -> user
                     [] x.op \in Replies -> ticket
                     [] OTHER -> "none"
  OBVIOUS
<1>2. /\ x.op \in Toggles => s = user
      /\ x.op \in Replies => s = ticket
      /\ x.op \in Accounts => s = "none"
      /\ s \in {user, ticket, "none"}
  BY <1>1 DEF Toggles, Replies, Accounts
<1>3. s \in Statuses \cup TicketStates
  BY <1>2 DEF Typed, TypeOK, Statuses, TicketStates
<1>4. Reading(x) = [x EXCEPT !.pc = "read", !.seen = s]
  BY <1>1 DEF Reading
<1> QED BY <1>2, <1>3, <1>4 DEF RequestRecords

LEMMA ReadStep ==
    ASSUME AdminInv, NEW r \in Requests, Read(r)
    PROVE  AdminInv'
<1>1. /\ req \in [Requests -> RequestRecords] /\ RequestInv /\ Typed /\ writes \in 0 .. MaxWrites
  BY DEF AdminInv, Typed, TypeOK
<1>2. PICK x \in RequestRecords : x = req[r]
  BY <1>1
<1>3. PICK y : y = Reading(x)
  OBVIOUS
<1>4. /\ x.pc = "sent" /\ x.op \in Toggles /\ req' = [req EXCEPT ![r] = y] /\ Verdict(x) = "ok"
      /\ raced' = raced \cup Overlaps(x) /\ UNCHANGED <<database, browser, owner, expired, writes>>
  BY <1>1, <1>2, <1>3 DEF Read
<1>5. /\ y \in RequestRecords /\ y.pc = "read" /\ y.op = x.op /\ y.tab = x.tab
      /\ y.token = x.token /\ y.reply = x.reply
      /\ x.op \in Toggles => y.seen = user
  BY <1>1, <1>3, ReadingFacts
<1>6. RequestOK(x)
  BY <1>1, <1>2 DEF RequestInv
<1>7. y.reply # "401"
  <2> SUFFICES ASSUME x.reply = "401" PROVE FALSE
    BY <1>5
  <2>1. x.op \in PanelOps /\ x.op # "login"
    BY <1>4 DEF PanelOps, Toggles
  <2>2. SignedIn(x)
    BY <1>4, <2>1 DEF Verdict, Anonymous
  <2>3. ~SignedIn(x)
    BY <1>6, <2>1 DEF RequestOK
  <2> QED BY <2>2, <2>3
<1>8. /\ y.op \in WriteOps /\ y.op \notin Replies /\ y.op \notin Accounts /\ y.op # "ask"
      /\ y.op # "bootstrap" /\ y.op \in Toggles
  BY <1>4, <1>5 DEF WriteOps, Toggles, Replies, Accounts
<1>9. user # "none" /\ ~Working(x)
  BY <1>4, <1>6 DEF RequestOK, Live, Working
<1>a. raced' = raced \cup Overlaps(y)
  BY <1>4, <1>5 DEF Overlaps
<1>b. CountInv'
  <2>1. Live(x) /\ x.op \in WriteOps
    BY <1>4, <1>5, <1>8 DEF Live
  <2>2. \A q \in Requests : q \in Pending' => q \in Pending
    BY <1>1, <1>2, <1>4, <2>1 DEF Pending
  <2>3. UNCHANGED version /\ writes' \in Nat /\ writes <= writes'
    BY <1>1, <1>4, AdminAssumption DEF database
  <2> QED BY <2>2, <2>3, CountKept
<1> QED BY <1>1, <1>2, <1>4, <1>5, <1>7, <1>8, <1>9, <1>a, <1>b, ReadingStep

LEMMA AcceptStep ==
    ASSUME AdminInv, NEW r \in Requests, NEW a \in Admins,
           NEW op \in Replies \cup Accounts \cup UserOps, Accept(r, op, a)
    PROVE  AdminInv'
<1>1. /\ req \in [Requests -> RequestRecords] /\ RequestInv /\ Typed /\ writes \in 0 .. MaxWrites
  BY DEF AdminInv, Typed, TypeOK
<1>2. PICK x : x = [NoRequest EXCEPT !.op = op, !.who = IF op \in UserOps THEN "none" ELSE a]
  OBVIOUS
<1>3. /\ x \in RequestRecords /\ x.op = op /\ x.tab = "none" /\ x.token = 0 /\ x.reply = "none"
      /\ x.who = (IF op \in UserOps THEN "none" ELSE a)
  <2>1. op \in Ops /\ -1 \in -1 .. MaxWrites /\ 0 \in Nat
    BY AdminAssumption DEF Ops
  <2> QED BY <1>2, <2>1 DEF NoRequest, RequestRecords, Statuses
<1>4. PICK y : y = Reading(x)
  OBVIOUS
<1>5. /\ req[r].pc = "none" /\ writes < MaxWrites /\ writes' = writes + 1
      /\ op \in Replies => ticket # "none" /\ admins[a] # "none"
      /\ op = "ask" => ticket = "none" /\ \A q \in Requests : req[q].op # "ask"
      /\ Verdict(x) = "ok" /\ req' = [req EXCEPT ![r] = y]
      /\ raced' = raced \cup Overlaps(x) /\ UNCHANGED <<database, browser, owner, expired>>
  BY <1>2, <1>4 DEF Accept
<1>6. /\ y \in RequestRecords /\ y.pc = "read" /\ y.op = x.op /\ y.tab = x.tab
      /\ y.token = x.token /\ y.reply = x.reply /\ y.who = x.who
      /\ x.op \in Replies => y.seen = ticket
      /\ x.op \in Accounts => y.seen = "none"
  BY <1>1, <1>3, <1>4, ReadingFacts
<1>7. y.op \in WriteOps /\ y.op \notin Toggles /\ y.op # "login"
  BY <1>3, <1>6 DEF WriteOps, Toggles, Replies, Accounts, UserOps
<1>8. y.op \in Accounts => y.seen = "none" /\ y.who \in Admins
  BY <1>3, <1>6 DEF Accounts, UserOps
<1>9. y.op = "bootstrap" => \A b \in Admins : admins[b] = "none"
  <2> SUFFICES ASSUME op = "bootstrap", NEW b \in Admins, admins[b] # "none" PROVE FALSE
    BY <1>3, <1>6
  <2>1. op # "login" /\ op \notin PanelOps /\ op \notin Toggles \cup Replies /\ op # "ask"
    BY DEF PanelOps, Toggles, Replies
  <2>2. Verdict(x) = "409"
    BY <1>3, <2>1 DEF Verdict, Anonymous
  <2> QED BY <1>5, <2>2
<1>a. raced' = raced \cup Overlaps(y)
  BY <1>5, <1>6 DEF Overlaps
<1>b. CountInv'
  <2>1. \A q \in Requests : q \in Pending' => q \in Pending \/ q = r
    BY <1>1, <1>5 DEF Pending
  <2>2. UNCHANGED version
    BY <1>5 DEF database
  <2> QED BY <1>5, <2>1, <2>2, CountAdds
<1>c. writes' \in 0 .. MaxWrites
  BY <1>1, <1>5, AdminAssumption
<1>d. ~Working(req[r])
  BY <1>5 DEF Working
<1>e. y.reply # "401" /\ y.tab = "none" /\ y.token = 0
  BY <1>3, <1>6
<1>f. /\ y.op \in Replies => y.seen = ticket /\ ticket # "none"
      /\ y.op = "ask" => ticket = "none" /\ \A q \in Requests : req[q].op # "ask"
  BY <1>3, <1>5, <1>6
<1> QED BY <1>5, <1>6, <1>7, <1>8, <1>9, <1>a, <1>b, <1>c, <1>d, <1>e, <1>f, ReadingStep

(* What a commit writes. *)
LEMMA CommitFacts ==
    ASSUME AdminInv, NEW r \in Requests, NEW x \in RequestRecords, x = req[r], Commit(r)
    PROVE  /\ x.pc = "flushed" /\ x.op \in WriteOps /\ r \in Pending
           /\ user' \in Statuses /\ version' \in {version, version + 1}
           /\ user # "none" => user' # "none"
           /\ ticket' \in TicketStates
           /\ ticket # "none" => ticket' # "none"
           /\ audit' \in [user : Toggles \cup {"none"}, ticket : SUBSET Replies]
           /\ audit.ticket \subseteq audit'.ticket
           /\ x.op \in Toggles => audit'.user = x.op
           /\ x.op \in Toggles => user' \in {user, x.op} /\ (x.seen = user => user' = x.op)
           /\ x.op \notin Toggles => audit'.user = audit.user
           /\ x.op \notin Toggles /\ ~(x.op = "start" /\ x.seen = "none") => user' = user
           /\ x.op = "start" /\ x.seen = "none" => user' = "active" /\ user = "none"
           /\ admins' \in [Admins -> Roles \cup {"none"}]
           /\ \A a \in Admins : admins[a] # "none" => admins'[a] # "none"
           /\ x.op \notin Accounts => admins' = admins
           /\ notFirst' = (notFirst \/ (x.op = "bootstrap" /\ \E a \in Admins : admins[a] # "none"))
<1>1. /\ admins \in [Admins -> Roles \cup {"none"}] /\ user \in Statuses /\ ticket \in TicketStates
      /\ audit \in [user : Toggles \cup {"none"}, ticket : SUBSET Replies]
      /\ RequestInv /\ UserInv
  BY DEF AdminInv, Typed, TypeOK, TicketStates
<1>2. /\ x.pc = "flushed" /\ user' = StatusAfter(x)
      /\ version' = IF user' = user THEN version ELSE version + 1
      /\ ticket' = IF x.op = "ask" THEN "open"
                   ELSE IF x.op \in Replies /\ Writes(x) THEN NewStatus(x) ELSE ticket
      /\ audit' = CASE x.op \in Toggles -> [audit EXCEPT !.user = x.op]
                    [] x.op \in Replies -> [audit EXCEPT !.ticket = @ \cup {x.op}]
                    [] OTHER -> audit
      /\ notFirst' = (notFirst \/ (x.op = "bootstrap" /\ \E a \in Admins : admins[a] # "none"))
      /\ IF x.op \in Accounts
         THEN \E role \in Roles : /\ x.op = "bootstrap" => role = "superadmin"
                                  /\ admins' = [admins EXCEPT ![x.who] = role]
         ELSE UNCHANGED admins
  BY DEF Commit
<1>3. Working(x) /\ Live(x) /\ RequestOK(x)
  BY <1>1, <1>2 DEF Working, Live, RequestInv
<1>4. x.op \in WriteOps /\ r \in Pending
  BY <1>3 DEF RequestOK, Pending
<1>5. /\ x.op \in Toggles => user # "none"
      /\ x.op \in Replies => ticket # "none"
      /\ x.op \in Accounts => x.who \in Admins
  BY <1>3 DEF RequestOK
<1>6. x.op = "start" /\ x.seen = "none" => user = "none"
  <2>1. x.op = "start" /\ x.seen = "none" => r \in Starting
    BY <1>2 DEF Starting
  <2> QED BY <1>1, <2>1 DEF UserInv
<1>7. /\ x.op \in Toggles => x.op \notin Replies /\ x.op # "start"
      /\ x.op \in Replies => x.op # "start" /\ x.op # "ask" /\ x.op \notin Toggles
  BY DEF Toggles, Replies
<1>8. x.op = "start" /\ x.seen = "none" => user' = "active"
  BY <1>2 DEF StatusAfter
<1>9. x.op \notin Toggles /\ ~(x.op = "start" /\ x.seen = "none") => user' = user
  BY <1>2 DEF StatusAfter
<1>a. version' \in {version, version + 1}
  BY <1>2
<1>b. /\ audit' \in [user : Toggles \cup {"none"}, ticket : SUBSET Replies]
      /\ audit.ticket \subseteq audit'.ticket
      /\ x.op \in Toggles => audit'.user = x.op
      /\ x.op \notin Toggles => audit'.user = audit.user
  <2>1. CASE x.op \in Toggles
    <3>1. audit' = [audit EXCEPT !.user = x.op]
      BY <1>2, <1>7, <2>1
    <3>2. PICK op \in Toggles : op = x.op
      BY <2>1
    <3>3. audit' = [audit EXCEPT !.user = op]
      BY <3>1, <3>2
    <3>4. /\ audit' \in [user : Toggles \cup {"none"}, ticket : SUBSET Replies]
          /\ audit'.user = op /\ audit'.ticket = audit.ticket
      BY <1>1, <3>3
    <3> QED BY <2>1, <3>2, <3>4
  <2>2. CASE x.op \in Replies
    <3>1. audit' = [audit EXCEPT !.ticket = audit.ticket \cup {x.op}]
      BY <1>2, <1>7, <2>2
    <3> QED BY <1>1, <1>7, <2>2, <3>1
  <2>3. CASE x.op \notin Toggles /\ x.op \notin Replies
    <3>1. audit' = audit
      BY <1>2, <2>3
    <3> QED BY <1>1, <2>3, <3>1
  <2> QED BY <2>1, <2>2, <2>3
<1>c. /\ admins' \in [Admins -> Roles \cup {"none"}]
      /\ \A a \in Admins : admins[a] # "none" => admins'[a] # "none"
      /\ x.op \notin Accounts => admins' = admins
  <2>1. "none" \notin Roles
    BY AdminAssumption
  <2>2. CASE x.op \in Accounts
    <3>1. PICK role \in Roles : admins' = [admins EXCEPT ![x.who] = role]
      BY <1>2, <2>2
    <3> QED BY <1>1, <1>5, <2>1, <2>2, <3>1
  <2>3. CASE x.op \notin Accounts
    BY <1>1, <1>2, <2>3
  <2> QED BY <2>2, <2>3
<1>d. /\ ticket' \in TicketStates
      /\ ticket # "none" => ticket' # "none"
  <2>1. x.op \in Replies /\ Writes(x) => NewStatus(x) \in {"pending", "closed"}
    BY <1>7 DEF Writes, NewStatus, Replies
  <2> QED BY <1>1, <1>2, <2>1 DEF TicketStates
<1>g. x.op \in Toggles => user' = IF x.op # x.seen THEN x.op ELSE user
  <2> SUFFICES ASSUME x.op \in Toggles PROVE user' = IF x.op # x.seen THEN x.op ELSE user
    OBVIOUS
  <2>1. NewStatus(x) = x.op
    BY <1>7 DEF NewStatus, Replies
  <2>2. Writes(x) <=> x.op # x.seen
    BY <2>1 DEF Writes
  <2>3. StatusAfter(x) = IF Writes(x) THEN NewStatus(x) ELSE user
    BY <1>7 DEF StatusAfter
  <2> QED BY <1>2, <2>1, <2>2, <2>3
<1>e. x.op \in Toggles => user' \in Statuses /\ user' # "none"
  BY <1>1, <1>5, <1>g DEF Statuses, Toggles
<1>f. user' \in Statuses /\ (user # "none" => user' # "none")
  BY <1>1, <1>8, <1>9, <1>e DEF Statuses
<1> QED BY <1>2, <1>4, <1>6, <1>8, <1>9, <1>a, <1>b, <1>c, <1>d, <1>f, <1>g

LEMMA CommitTicket ==
    ASSUME AdminInv, NEW r \in Requests, NEW x \in RequestRecords, x = req[r], Commit(r)
    PROVE  /\ x.op \notin Replies /\ x.op # "ask" => ticket' = ticket
           /\ x.op = "ask" => ticket = "none" /\ ticket' = "open"
           /\ ticket' = "pending" => ticket = "pending" \/ "reply" \in audit'.ticket
           /\ ticket' = "closed" => ticket = "closed" \/ "close" \in audit'.ticket
           /\ x.op \in Replies /\ x.seen = "closed" => ticket' = ticket
<1>1. /\ x.pc = "flushed"
      /\ ticket' = IF x.op = "ask" THEN "open"
                   ELSE IF x.op \in Replies /\ Writes(x) THEN NewStatus(x) ELSE ticket
      /\ audit' = CASE x.op \in Toggles -> [audit EXCEPT !.user = x.op]
                    [] x.op \in Replies -> [audit EXCEPT !.ticket = @ \cup {x.op}]
                    [] OTHER -> audit
      /\ audit \in [user : Toggles \cup {"none"}, ticket : SUBSET Replies]
      /\ RequestOK(x)
  BY DEF Commit, AdminInv, Typed, TypeOK, RequestInv
<1>2. x.op \in Replies => x.op # "ask" /\ x.op \notin Toggles
  BY DEF Replies, Toggles
<1>3. x.op = "ask" => ticket = "none"
  BY <1>1 DEF RequestOK, Working
<1>4. x.op \in Replies => x.op \in audit'.ticket
  <2> SUFFICES ASSUME x.op \in Replies PROVE x.op \in audit'.ticket
    OBVIOUS
  <2>1. audit' = [audit EXCEPT !.ticket = audit.ticket \cup {x.op}]
    BY <1>1, <1>2
  <2> QED BY <1>1, <2>1
<1>5. ASSUME x.op \in Replies
      PROVE  /\ ticket' = "pending" => ticket = "pending" \/ x.op = "reply"
             /\ ticket' = "closed" => ticket = "closed" \/ x.op = "close"
             /\ x.seen = "closed" => ticket' = ticket
  <2>1. ticket' = IF Writes(x) THEN NewStatus(x) ELSE ticket
    BY <1>1, <1>2, <1>5
  <2>2. Writes(x) <=> NewStatus(x) # x.seen
    BY <1>5 DEF Writes
  <2>3. CASE x.op = "reply"
    <3>1. NewStatus(x) = IF x.seen = "open" THEN "pending" ELSE x.seen
      BY <1>2, <1>5, <2>3 DEF NewStatus
    <3> QED BY <2>1, <2>2, <2>3, <3>1
  <2>4. CASE x.op = "close"
    <3>1. NewStatus(x) = "closed"
      BY <1>2, <1>5, <2>4 DEF NewStatus
    <3> QED BY <2>1, <2>2, <2>4, <3>1
  <2> QED BY <1>5, <2>3, <2>4 DEF Replies
<1>6. x.op \notin Replies => ticket' = IF x.op = "ask" THEN "open" ELSE ticket
  BY <1>1
<1>7. CASE x.op \in Replies
  BY <1>2, <1>4, <1>5, <1>7
<1>8. CASE x.op \notin Replies
  BY <1>3, <1>6, <1>8
<1> QED BY <1>7, <1>8

LEMMA CommitStep ==
    ASSUME AdminInv, NEW r \in Requests, Commit(r)
    PROVE  AdminInv'
<1>1. /\ req \in [Requests -> RequestRecords] /\ Typed /\ RequestInv /\ RaceInv /\ UserInv
      /\ TicketInv /\ AccountInv /\ SessionInv /\ ListInv
      /\ owner \in Seq(Admins) /\ Len(owner) \in Nat /\ version \in 0 .. MaxWrites
      /\ writes \in 0 .. MaxWrites
  BY DEF AdminInv, Typed, TypeOK
<1>2. PICK x \in RequestRecords : x = req[r]
  BY <1>1
<1>3. PICK y : y = [x EXCEPT !.pc = "done"]
  OBVIOUS
<1>4. /\ y \in RequestRecords /\ y.pc = "done" /\ y.op = x.op /\ y.tab = x.tab /\ y.who = x.who
      /\ y.current = x.current /\ y.token = x.token /\ y.reply = x.reply
      /\ y.seen = x.seen /\ y.version = x.version
  BY <1>3 DEF RequestRecords
<1>5. PICK z : z = Settled(y)
  OBVIOUS
<1>6. z = y \/ z = NoRequest
  BY <1>5, SettledFacts
<1>7. /\ req' = [req EXCEPT ![r] = z]
      /\ UNCHANGED <<cookie, tab, ended, owner, expired, writes, raced>>
  BY <1>1, <1>2, <1>3, <1>5 DEF Commit, browser
<1>8. /\ req' \in [Requests -> RequestRecords] /\ req[r]' = z
      /\ \A q \in Requests \ {r} : req[q]' = req[q]
  BY <1>1, <1>4, <1>6, <1>7, NoRequestRecord
<1>9. ~Working(z) /\ ~Live(z)
  BY <1>4, <1>6, NoRequestRecord DEF Working, Live
<1>a. /\ x.pc = "flushed" /\ x.op \in WriteOps /\ r \in Pending
      /\ user' \in Statuses /\ version' \in {version, version + 1}
      /\ user # "none" => user' # "none"
      /\ ticket' \in TicketStates
      /\ ticket # "none" => ticket' # "none"
      /\ audit' \in [user : Toggles \cup {"none"}, ticket : SUBSET Replies]
      /\ audit.ticket \subseteq audit'.ticket
      /\ admins' \in [Admins -> Roles \cup {"none"}]
      /\ \A a \in Admins : admins[a] # "none" => admins'[a] # "none"
      /\ x.op \notin Accounts => admins' = admins
      /\ notFirst' = (notFirst \/ (x.op = "bootstrap" /\ \E a \in Admins : admins[a] # "none"))
  BY <1>2, CommitFacts
<1>b. /\ x.op \in Toggles => audit'.user = x.op
      /\ x.op \in Toggles => user' \in {user, x.op} /\ (x.seen = user => user' = x.op)
      /\ x.op \notin Toggles => audit'.user = audit.user
      /\ x.op \notin Toggles /\ ~(x.op = "start" /\ x.seen = "none") => user' = user
      /\ x.op = "start" /\ x.seen = "none" => user' = "active" /\ user = "none"
  BY <1>2, CommitFacts
<1>c. /\ x.op \notin Replies /\ x.op # "ask" => ticket' = ticket
      /\ x.op = "ask" => ticket = "none" /\ ticket' = "open"
      /\ ticket' = "pending" => ticket = "pending" \/ "reply" \in audit'.ticket
      /\ ticket' = "closed" => ticket = "closed" \/ "close" \in audit'.ticket
  BY <1>2, CommitTicket
<1>d. RequestOK(x) /\ Working(x) /\ Live(x) /\ x.op # "list"
  BY <1>1, <1>2, <1>a DEF RequestInv, Working, Live, WriteOps, Toggles, Replies, Accounts, UserOps
<1>e. /\ \A g : \A q \in In(g)' : q \in In(g) /\ q # r /\ req[q]' = req[q]
      /\ \A g : x.op \in g => r \in In(g)
  BY <1>2, <1>8, <1>9, <1>d DEF In
<1>f. CountInv'
  <2>1. \A q \in Requests : q \in Pending' => q \in Pending /\ q # r
    BY <1>8, <1>9 DEF Pending
  <2> QED BY <1>7, <1>a, <2>1, CountMoves
<1>g. version' \in 0 .. MaxWrites /\ version <= version'
  <2>1. IsFiniteSet(Pending') /\ version' + Cardinality(Pending') <= writes'
    BY <1>f DEF CountInv
  <2>2. Cardinality(Pending') \in Nat
    BY <2>1, FS_CardinalityType
  <2>3. version' \in Nat /\ version <= version'
    BY <1>1, <1>a, AdminAssumption
  <2>4. version' <= MaxWrites
    BY <1>1, <1>7, <2>1, <2>2, <2>3, AdminAssumption
  <2> QED BY <2>3, <2>4, AdminAssumption
<1>h. RequestInv'
  <2> SUFFICES ASSUME NEW q \in Requests PROVE RequestOK(req[q])'
    BY DEF RequestInv
  <2>1. CASE q # r
    <3>1. RequestOK(req[q]) /\ Fade(req[q]', req[q]) /\ req[q]' \in RequestRecords
      BY <1>1, <1>8, <2>1 DEF Fade, RequestInv
    <3>2. Working(req[q]) /\ req[q].op = "ask" => ticket' = "none"
      <4> SUFFICES ASSUME Working(req[q]), req[q].op = "ask" PROVE ticket' = "none"
        OBVIOUS
      <4>1. ticket = "none"
        BY <3>1 DEF RequestOK
      <4>2. x.op # "ask"
        BY <1>1, <1>2, <1>d, <2>1 DEF TicketInv, Asking
      <4>3. x.op \notin Replies
        BY <1>d, <4>1 DEF RequestOK
      <4> QED BY <1>c, <4>1, <4>2, <4>3
    <3>3. owner' \in Seq(Admins) /\ Len(owner) <= Len(owner') /\ expired \subseteq expired'
      BY <1>1, <1>7
    <3>4. version' \in Nat
      BY <1>g, AdminAssumption
    <3> QED BY <1>1, <1>a, <1>g, <3>1, <3>2, <3>3, <3>4, FadeOK
  <2>2. CASE q = r
    <3>1. CASE z = NoRequest
      <4>1. 0 \in 0 .. Len(owner')
        BY <1>1, <1>7
      <4>2. NoRequest.op \notin Ops
        BY NoRequestRecord DEF Ops, Toggles, Replies, PanelOps, Accounts, UserOps, Session
      <4> QED BY <1>8, <1>9, <2>2, <3>1, <4>1, <4>2, NoRequestRecord
            DEF RequestOK, Ops, PanelOps, Working, Live
    <3>2. CASE z = y
      <4>1. /\ y.tab # "none" => y.op \in PanelOps \cup Session
            /\ y.op \in Accounts \cup Session => y.who \in Admins
            /\ y.token \in 0 .. Len(owner') /\ y.op # "list" /\ y.pc # "none"
            /\ y.op \in PanelOps /\ y.reply = "401" => ~(y.token # 0 /\ y.token \notin expired')
        BY <1>4, <1>7, <1>d DEF RequestOK, SignedIn
      <4> QED BY <1>8, <1>9, <2>2, <3>2, <4>1 DEF RequestOK, SignedIn, Working, Live
    <3> QED BY <1>6, <3>1, <3>2
  <2> QED BY <2>1, <2>2
<1>i. Typed'
  <2>1. \A q \in Requests : /\ req'[q].pc \in {"none", "sent", "read", "flushed", "done"}
                            /\ req'[q].reply \in {"none", "ok", "401", "403", "409", "500"}
                            /\ req'[q].tab \in Tabs \cup {"none"}
    BY <1>8 DEF RequestRecords
  <2>2. \A q \in Requests : req'[q].token \in 0 .. Len(owner')
    BY <1>h DEF RequestInv, RequestOK
  <2>3. \A n \in 1 .. Len(owner') : admins'[owner'[n]] # "none"
    <3>1. \A n \in 1 .. Len(owner) : owner[n] \in Admins /\ admins[owner[n]] # "none"
      BY <1>1 DEF Typed, TypeOK
    <3> QED BY <1>7, <1>a, <3>1
  <2>4. notFirst' \in BOOLEAN
    BY <1>1, <1>a DEF Typed, TypeOK
  <2> QED BY <1>1, <1>7, <1>8, <1>a, <1>g, <2>1, <2>2, <2>3, <2>4 DEF Typed, TypeOK, TicketStates
<1>j. RaceInv'
  <2>1. Alone(Toggles, user)'
    <3> SUFFICES ASSUME Toggles \notin raced
                 PROVE  /\ \A p, q \in In(Toggles)' : p = q
                        /\ \A q \in In(Toggles)' : req[q]'.seen = user'
      BY <1>7 DEF Alone
    <3>1. (\A p, q \in In(Toggles) : p = q) /\ \A q \in In(Toggles) : req[q].seen = user
      BY <1>1 DEF RaceInv, Alone
    <3>2. CASE x.op \in Toggles
      BY <1>e, <3>1, <3>2
    <3>3. CASE x.op = "start" /\ x.seen = "none"
      <4>1. \A q \in In(Toggles) : user # "none"
        BY <1>1 DEF In, RequestInv, RequestOK, Working, Live
      <4> QED BY <1>b, <1>e, <3>3, <4>1
    <3>4. CASE x.op \notin Toggles /\ ~(x.op = "start" /\ x.seen = "none")
      BY <1>b, <1>e, <3>1, <3>4
    <3> QED BY <3>2, <3>3, <3>4
  <2>2. Alone(Replies, ticket)'
    <3> SUFFICES ASSUME Replies \notin raced
                 PROVE  /\ \A p, q \in In(Replies)' : p = q
                        /\ \A q \in In(Replies)' : req[q]'.seen = ticket'
      BY <1>7 DEF Alone
    <3>1. (\A p, q \in In(Replies) : p = q) /\ \A q \in In(Replies) : req[q].seen = ticket
      BY <1>1 DEF RaceInv, Alone
    <3>2. CASE x.op \in Replies
      BY <1>e, <3>1, <3>2
    <3>3. CASE x.op = "ask"
      <4>1. \A q \in In(Replies) : ticket # "none"
        BY <1>1 DEF In, RequestInv, RequestOK, Working, Live
      <4> QED BY <1>c, <1>e, <3>3, <4>1
    <3>4. CASE x.op \notin Replies /\ x.op # "ask"
      BY <1>c, <1>e, <3>1, <3>4
    <3> QED BY <3>2, <3>3, <3>4
  <2>3. Alone(Accounts, "none")'
    BY <1>1, <1>7, <1>e DEF RaceInv, Alone
  <2> QED BY <2>1, <2>2, <2>3 DEF RaceInv
<1>k. UserInv'
  <2>1. \A q \in Starting' : q \in Starting /\ q # r
    BY <1>8, <1>9 DEF Starting, Working
  <2>2. Starting' # {} => user' = "none"
    <3> SUFFICES ASSUME NEW q \in Starting, q # r PROVE user' = "none"
      BY <2>1
    <3>1. user = "none" /\ r \notin Starting
      BY <1>1 DEF UserInv
    <3>2. ~(x.op = "start" /\ x.seen = "none")
      BY <1>2, <1>a, <3>1 DEF Starting
    <3>3. x.op \notin Toggles
      BY <1>d, <3>1 DEF RequestOK
    <3> QED BY <1>b, <3>1, <3>2, <3>3
  <2>3. Toggles \notin raced => user' = audit'.user \/ (audit'.user = "none" /\ user' = "active")
    <3> SUFFICES ASSUME Toggles \notin raced
                 PROVE  user' = audit'.user \/ (audit'.user = "none" /\ user' = "active")
      OBVIOUS
    <3>1. user = audit.user \/ (audit.user = "none" /\ user = "active")
      BY <1>1 DEF UserInv
    <3>2. CASE x.op \in Toggles
      <4>1. x.seen = user
        BY <1>1, <1>2, <1>e, <3>2 DEF RaceInv, Alone
      <4> QED BY <1>b, <3>2, <4>1
    <3>3. CASE x.op = "start" /\ x.seen = "none"
      <4>1. x.op \notin Toggles
        BY <3>3 DEF Toggles
      <4> QED BY <1>b, <3>1, <3>3, <4>1
    <3>4. CASE x.op \notin Toggles /\ ~(x.op = "start" /\ x.seen = "none")
      BY <1>b, <3>1, <3>4
    <3> QED BY <3>2, <3>3, <3>4
  <2> QED BY <1>1, <1>7, <2>1, <2>2, <2>3 DEF UserInv
<1>l. TicketInv'
  <2>1. \A q \in Asking' : q \in Asking
    BY <1>8, <1>9 DEF Asking
  <2>2. /\ ticket = "pending" => "reply" \in audit.ticket
        /\ ticket = "closed" => "close" \in audit.ticket
    BY <1>1 DEF TicketInv
  <2> QED BY <1>1, <1>a, <1>c, <2>1, <2>2 DEF TicketInv
<1>m. AccountInv'
  <2> SUFFICES ASSUME Accounts \notin raced
               PROVE  /\ ~notFirst'
                      /\ \A q \in In(Accounts)' : req[q]'.op = "bootstrap"
                                                    => \A a \in Admins : admins'[a] = "none"
    BY <1>7 DEF AccountInv
  <2>1. /\ ~notFirst
        /\ \A q \in In(Accounts) : req[q].op = "bootstrap" => \A a \in Admins : admins[a] = "none"
        /\ \A p, q \in In(Accounts) : p = q
    BY <1>1 DEF AccountInv, RaceInv, Alone
  <2>2. x.op = "bootstrap" => x.op \in Accounts
    BY DEF Accounts
  <2>3. ~notFirst'
    BY <1>2, <1>a, <1>e, <2>1, <2>2
  <2>4. CASE x.op \in Accounts
    BY <1>e, <2>1, <2>3, <2>4
  <2>5. CASE x.op \notin Accounts
    BY <1>a, <1>e, <2>1, <2>3, <2>5
  <2> QED BY <2>4, <2>5
<1>n. SessionInv'
  <2>1. z.tab # "none" /\ z.op \in PanelOps
            => x.tab # "none" /\ x.op \in PanelOps /\ z.token = x.token
    BY <1>4, <1>6, NoRequestRecord DEF PanelOps, Toggles
  <2>2. \A q \in Requests : req[q]'.tab # "none" /\ req[q]'.op \in PanelOps
               => \/ req[q]'.token = cookie
                  \/ req[q].tab # "none" /\ req[q].op \in PanelOps /\ req[q]'.token = req[q].token
    BY <1>2, <1>8, <2>1
  <2> QED BY <1>7, <2>2, SessionKept
<1>o. ListInv'
  <2> SUFFICES ASSUME NEW t \in Tabs
               PROVE  /\ \A p, q \in Awaited(t)' : p = q
                      /\ \A q \in Awaited(t)' : req[q]'.reply = "ok"
                                                   => tab[t]'.shown.version <= req[q]'.version
                      /\ tab[t]'.shown.version <= version'
                      /\ tab[t]'.shown.status # "none" => user' # "none"
    BY DEF ListInv, Awaited
  <2>1. /\ \A p, q \in Awaited(t) : p = q
        /\ \A q \in Awaited(t) : req[q].reply = "ok" => tab[t].shown.version <= req[q].version
        /\ tab[t].shown.version <= version
        /\ tab[t].shown.status # "none" => user # "none"
    BY <1>1 DEF ListInv
  <2>2. z.op # "list"
    BY <1>4, <1>6, <1>d, NoRequestRecord
  <2>3. \A q \in Awaited(t)' : q \in Awaited(t) /\ req[q]' = req[q]
    BY <1>8, <2>2 DEF Awaited
  <2>4. tab[t].shown.version \in -1 .. MaxWrites
    BY <1>1 DEF Typed, TypeOK
  <2>5. tab[t]'.shown.version <= version'
    BY <1>1, <1>7, <1>g, <2>1, <2>4, AdminAssumption
  <2> QED BY <1>7, <1>a, <2>1, <2>3, <2>5
<1> QED BY <1>f, <1>h, <1>i, <1>j, <1>k, <1>l, <1>m, <1>n, <1>o DEF AdminInv

-----------------------------------------------------------------------------
(* The theorems. *)

LEMMA StartInv == Init => AdminInv
<1> SUFFICES ASSUME Init PROVE AdminInv
  OBVIOUS
<1>1. PICK d \in Databases : admins = d.admins /\ user = d.user /\ ticket = d.ticket
  BY DEF Init
<1>2. /\ audit = [user |-> "none", ticket |-> {}] /\ owner = <<>> /\ expired = {} /\ cookie = 0
      /\ tab = [t \in Tabs |-> Page("login")] /\ req = [r \in Requests |-> NoRequest]
      /\ writes = 0 /\ version = 0 /\ raced = {} /\ ended = FALSE /\ notFirst = FALSE
  BY DEF Init
<1>3. /\ admins \in [Admins -> Roles \cup {"none"}] /\ user \in {"none", "active"}
      /\ ticket \in {"none", "open"}
  BY <1>1, AdminAssumption
<1>4. /\ req \in [Requests -> RequestRecords]
      /\ \A r \in Requests : req[r] = NoRequest
  BY <1>2, NoRequestRecord
<1>5. tab \in [Tabs -> TabRecords] /\ \A t \in Tabs : tab[t].shown = NoSnapshot
  BY <1>2, PageRecord
<1>6. 0 \in 0 .. MaxWrites /\ 0 \in Nat /\ -1 \in Int /\ 0 <= MaxLogins
  BY AdminAssumption
<1>7. owner \in Seq(Admins) /\ Len(owner) = 0
  BY <1>2
<1>8. Typed
  <2>1. \A n \in 1 .. Len(owner) : admins[owner[n]] # "none"
    BY <1>7
  <2>2. expired \subseteq 1 .. Len(owner) /\ cookie \in 0 .. Len(owner) /\ Len(owner) <= MaxLogins
    BY <1>2, <1>6, <1>7
  <2>3. \A r \in Requests : req[r].token \in 0 .. Len(owner)
    BY <1>4, <1>7, NoRequestRecord
  <2>4. audit \in [user : Toggles \cup {"none"}, ticket : SUBSET Replies]
    BY <1>2
  <2>5. \A r \in Requests :
         /\ req[r].pc \in {"none", "sent", "read", "flushed", "done"}
         /\ req[r].reply \in {"none", "ok", "401", "403", "409", "500"}
         /\ req[r].tab \in Tabs \cup {"none"}
    BY <1>4, NoRequestRecord
  <2>6. user \in Statuses /\ ticket \in {"none", "open", "pending", "closed"}
    BY <1>3 DEF Statuses
  <2>7. /\ writes \in 0 .. MaxWrites /\ version \in 0 .. MaxWrites
        /\ raced \subseteq Groups \cup {Session} /\ ended \in BOOLEAN /\ notFirst \in BOOLEAN
    BY <1>2, <1>6
  <2> QED BY <1>3, <1>4, <1>5, <1>7, <2>1, <2>2, <2>3, <2>4, <2>5, <2>6, <2>7
        DEF Typed, TypeOK, TabRecords
<1>9. \A r \in Requests : ~Working(req[r]) /\ ~Live(req[r])
  BY <1>4, NoRequestRecord DEF Working, Live
<1>a. RequestInv
  <2>1. NoRequest.op \notin Ops
    BY NoRequestRecord DEF Ops, Toggles, Replies, PanelOps, Accounts, UserOps, Session
  <2>2. 0 \in 0 .. Len(owner)
    BY <1>7
  <2> QED BY <1>4, <1>9, <2>1, <2>2, NoRequestRecord DEF RequestInv, RequestOK, Ops, PanelOps
<1>b. (\A g : In(g) = {}) /\ Starting = {} /\ Asking = {} /\ Pending = {}
  BY <1>4, <1>9, NoRequestRecord DEF In, Starting, Asking, Pending
<1>c. RaceInv
  BY <1>b DEF RaceInv, Alone
<1>d. UserInv
  BY <1>2, <1>3, <1>b DEF UserInv
<1>e. TicketInv
  BY <1>3, <1>b DEF TicketInv
<1>f. AccountInv
  BY <1>2, <1>b DEF AccountInv
<1>g. SessionInv
  BY <1>2, <1>4, NoRequestRecord DEF SessionInv
<1>h. ListInv
  <2>1. \A t \in Tabs : Awaited(t) = {}
    BY <1>4, NoRequestRecord DEF Awaited
  <2>2. NoSnapshot.version = -1 /\ NoSnapshot.status = "none" /\ -1 <= version
    BY <1>2 DEF NoSnapshot
  <2> QED BY <1>2, <1>5, <2>1, <2>2 DEF ListInv
<1>i. CountInv
  <2>1. IsFiniteSet(Pending) /\ Cardinality(Pending) = 0
    BY <1>b, FS_EmptySet
  <2> QED BY <1>2, <2>1 DEF CountInv
<1> QED BY <1>8, <1>a, <1>c, <1>d, <1>e, <1>f, <1>g, <1>h, <1>i DEF AdminInv

LEMMA StutterInv == ASSUME AdminInv, UNCHANGED vars PROVE AdminInv'
<1>1. UNCHANGED <<database, cookie, tab, ended, owner, expired, req, writes, raced>>
  BY DEF vars, browser
<1>2. /\ req \in [Requests -> RequestRecords] /\ tab \in [Tabs -> TabRecords]
      /\ expired \subseteq 1 .. Len(owner)
  BY DEF AdminInv, Typed, TypeOK, TabRecords
<1>3. \A q \in Requests : Fade(req[q]', req[q])
  BY <1>1 DEF Fade
<1> QED BY <1>1, <1>2, <1>3, FadeQuiet

LEMMA StepInv == AdminInv /\ [Next]_vars => AdminInv'
<1> SUFFICES ASSUME AdminInv, [Next]_vars PROVE AdminInv'
  OBVIOUS
<1>1. CASE Panel
  <2>1. PICK t \in Tabs : \/ Navigate(t) \/ SignOut(t) \/ Remount(t)
                          \/ \E r \in Requests : \/ FetchList(t, r) \/ Toggle(t, r)
                                                 \/ \E a \in Admins : SignIn(t, r, a)
    BY <1>1 DEF Panel
  <2> QED BY <2>1, NavigateStep, UnmountStep, FetchListStep, ToggleStep, SignInStep
<1>2. CASE Answer
  BY <1>2, UnauthorizedStep, LoginArrives, ListArrives, ToggleArrives DEF Answer
<1>3. CASE Others
  BY <1>3, AcceptStep DEF Others
<1>4. CASE Handler
  BY <1>4, RefuseStep, IssueTokenStep, ListUsersStep, ReadStep, FlushStep, CommitStep, LoseStep
    DEF Handler
<1>5. CASE Expiry
  BY <1>5, Expire DEF Expiry
<1>6. CASE UNCHANGED vars
  BY <1>6, StutterInv
<1> QED BY <1>1, <1>2, <1>3, <1>4, <1>5, <1>6 DEF Next

(* The inductive invariant: what each request in flight knows of the row   *)
(* it is about, and what it may assume as long as nobody races it.         *)
THEOREM Invariance == Spec => []AdminInv
<1>1. Init => AdminInv
  BY StartInv
<1>2. AdminInv /\ [Next]_vars => AdminInv'
  BY StepInv
<1> QED BY <1>1, <1>2, PTL DEF Spec

(* Every variable has its type, however many tabs and requests there are;  *)
(* a token belongs to an account that exists.                              *)
THEOREM TypeCorrect == Spec => []TypeOK
<1>1. AdminInv => TypeOK
  BY DEF AdminInv, Typed
<1> QED BY <1>1, Invariance, PTL

(* get_current_admin answers 401 only for a token that is over, so an      *)
(* answer ends a session that was not over only if somebody signed in      *)
(* while a request with another token was under way.                       *)
THEOREM SessionsAreKept == Spec => []SessionEndsWithItsToken
<1>1. AdminInv => SessionEndsWithItsToken
  <2> SUFFICES ASSUME SessionInv PROVE ended => Session \in raced
    BY DEF AdminInv, SessionEndsWithItsToken
  <2> QED BY DEF SessionInv
<1> QED BY <1>1, Invariance, PTL

(* update_user_status, reply and close commit their audit record with the  *)
(* change, so the log accounts for every status, whatever is lost.         *)
THEOREM AuditAccounts == Spec => []AuditAccountsForStatus
<1>1. AdminInv => AuditAccountsForStatus
  BY DEF AdminInv, UserInv, TicketInv, AuditAccountsForStatus
<1> QED BY <1>1, Invariance, PTL

(* bootstrap_first_admin makes no account beside one that is there, unless *)
(* another request made it at the same time.                               *)
THEOREM FirstAccount == Spec => []BootstrapMakesTheFirst
<1>1. AdminInv => BootstrapMakesTheFirst
  <2> SUFFICES ASSUME AccountInv PROVE notFirst => Accounts \in raced
    BY DEF AdminInv, BootstrapMakesTheFirst
  <2> QED BY DEF AccountInv
<1> QED BY <1>1, Invariance, PTL

(* A closed ticket stays closed: a reply that reads it closed leaves the   *)
(* status alone, and only one that read it earlier can reopen it.          *)
THEOREM TicketsStayClosed == Spec => ClosedStaysClosed
<1>1. AdminInv /\ [Next]_vars
        => [ticket = "closed" => ticket' = "closed" \/ Replies \in raced]_vars
  <2> SUFFICES ASSUME AdminInv, Next, ticket = "closed", Replies \notin raced
               PROVE  ticket' = ticket
    OBVIOUS
  <2>1. CASE \E r \in Requests : Commit(r)
    <3>1. PICK r \in Requests : Commit(r)
      BY <2>1
    <3>2. PICK x \in RequestRecords : x = req[r]
      BY DEF AdminInv, Typed
    <3>3. /\ x.op \notin Replies /\ x.op # "ask" => ticket' = ticket
          /\ x.op = "ask" => ticket = "none"
          /\ x.op \in Replies /\ x.seen = "closed" => ticket' = ticket
      BY <3>1, <3>2, CommitTicket
    <3>4. x.op \in Replies => x.seen = ticket
      <4>1. x.op \in Replies => r \in In(Replies)
        BY <3>1, <3>2 DEF Commit, In, Working
      <4> QED BY <3>2, <4>1 DEF AdminInv, RaceInv, Alone
    <3> QED BY <3>3, <3>4
  <2>2. CASE ~\E r \in Requests : Commit(r)
    BY <2>2 DEF Next, Panel, Answer, Others, Handler, Expiry, Navigate, SignOut, Remount, FetchList,
                Toggle, SignIn, ArriveUnauthorized, ArriveLogin, ArriveList, ArriveToggle, Accept, Refuse,
                IssueToken, ListUsers, Read, Flush, Lose, CookieExpires, TokenExpires, database
  <2> QED BY <2>1, <2>2
<1> QED BY <1>1, Invariance, PTL DEF Spec, ClosedStaysClosed

(* useApiData cancels the list it no longer waits for, so a tab never      *)
(* shows a list older than the one it shows already.                       *)
THEOREM ListsAdvance == Spec => ListNeverGoesBack
<1>1. AdminInv /\ [Next]_vars
        => [\A t \in Tabs : tab'[t].shown # NoSnapshot
                              => tab'[t].shown.version >= tab[t].shown.version]_vars
  <2> SUFFICES ASSUME AdminInv, Next, NEW t \in Tabs, tab'[t].shown # NoSnapshot
               PROVE  tab'[t].shown.version >= tab[t].shown.version
    OBVIOUS
  <2>1. tab \in [Tabs -> TabRecords] /\ tab[t].shown.version \in Int
    BY AdminAssumption DEF AdminInv, Typed, TypeOK, TabRecords
  <2>2. CASE \E r \in Requests : ArriveList(r)
    <3>1. tab[t].shown.version <= tab[t]'.shown.version
      BY <2>2, ListArrives
    <3>2. AdminInv'
      BY <2>2, ListArrives
    <3>3. tab[t]'.shown.version \in Int
      BY <3>2, AdminAssumption DEF AdminInv, Typed, TypeOK
    <3> QED BY <2>1, <3>1, <3>3
  <2>3. CASE ~\E r \in Requests : ArriveList(r)
    <3>1. tab[t]'.shown \in {tab[t].shown, NoSnapshot}
      <4>1. \A p \in {"login", "users"} : Page(p).shown = NoSnapshot
        BY PageRecord
      <4>2. UNCHANGED tab => tab[t]'.shown \in {tab[t].shown, NoSnapshot}
        OBVIOUS
      <4>3. ASSUME NEW u \in Tabs, NEW p \in {"login", "users"}, tab' = [tab EXCEPT ![u] = Page(p)]
            PROVE  tab[t]'.shown \in {tab[t].shown, NoSnapshot}
        BY <2>1, <4>1, <4>3
      <4>4. ASSUME NEW u, NEW b, tab' = [tab EXCEPT ![u].fetch = b]
            PROVE  tab[t]'.shown \in {tab[t].shown, NoSnapshot}
        <5>1. tab[t] \in TabRecords
          BY <2>1
        <5> QED BY <2>1, <4>4, <5>1 DEF TabRecords
      <4>5. CASE Panel
        <5>1. PICK u \in Tabs : \/ Navigate(u) \/ SignOut(u) \/ Remount(u)
                                \/ \E r \in Requests : \/ FetchList(u, r) \/ Toggle(u, r)
                                                       \/ \E a \in Admins : SignIn(u, r, a)
          BY <4>5 DEF Panel
        <5>2. CASE Navigate(u) \/ SignOut(u) \/ Remount(u)
          BY <5>2, <4>3 DEF Navigate, SignOut, Remount
        <5>3. CASE \E r \in Requests : FetchList(u, r)
          BY <5>3, <4>4 DEF FetchList
        <5>4. CASE \E r \in Requests : Toggle(u, r) \/ \E a \in Admins : SignIn(u, r, a)
          BY <5>4, <4>2 DEF Toggle, SignIn, browser
        <5> QED BY <5>1, <5>2, <5>3, <5>4
      <4>6. CASE Answer
        <5>1. PICK r \in Requests : ArriveUnauthorized(r) \/ ArriveLogin(r) \/ ArriveToggle(r)
          BY <2>3, <4>6 DEF Answer
        <5>2. req[r].tab # "none" => req[r].tab \in Tabs
          BY DEF AdminInv, Typed, TypeOK
        <5>3. CASE ArriveUnauthorized(r)
          BY <5>2, <5>3, <4>3 DEF ArriveUnauthorized
        <5>4. CASE ArriveLogin(r)
          BY <5>2, <5>4, <4>2, <4>3 DEF ArriveLogin
        <5>5. CASE ArriveToggle(r)
          BY <5>5, <4>4 DEF ArriveToggle
        <5> QED BY <5>1, <5>3, <5>4, <5>5
      <4>7. CASE Others \/ Handler \/ Expiry
        BY <4>2, <4>7 DEF Others, Handler, Expiry, Accept, Refuse, IssueToken, ListUsers, Read,
                          Flush,
                          Commit, Lose, CookieExpires, TokenExpires, browser
      <4> QED BY <4>5, <4>6, <4>7 DEF Next
    <3> QED BY <2>1, <3>1
  <2> QED BY <2>2, <2>3
<1> QED BY <1>1, Invariance, PTL DEF Spec, ListNeverGoesBack
=============================================================================
