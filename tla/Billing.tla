------------------------------ MODULE Billing ------------------------------
(***************************************************************************)
(* Payments, the subscriptions they buy, and promo codes: PaymentService,  *)
(* SubscriptionService and the database half of the expiry sweep.          *)
(*                                                                         *)
(* A request is one READ COMMITTED transaction without row locks: each     *)
(* SELECT sees what is committed at that moment, the changed attributes    *)
(* are written at the end whatever was committed since.  Reads and commit  *)
(* are therefore separate actions, and requests interleave between them.   *)
(* The payment provider redelivers, reorders and loses its webhooks.       *)
(* create_payment mints one pending subscription per payment, so payment   *)
(* and subscription share an identifier here.                              *)
(***************************************************************************)
EXTENDS Naturals, FiniteSets

CONSTANTS
    Payments,    \* payments (and their subscriptions) that can be created
    Owner,       \* the user who creates each payment
    Users,
    Requests,    \* request slots: how many transactions can be open at once
    NoPayment,
    Duration,    \* plan.duration_days
    MaxUses,     \* promo.max_uses
    MaxStarts,   \* bound: webhook, refund and cancel requests
    MaxTime,     \* bound on the clock
    MaxFaults    \* bound: requests and sweeps that fail half-way

ASSUME OwnerAssumption    == Owner \in [Payments -> Users]
ASSUME PaymentAssumption  == NoPayment \notin Payments
ASSUME NumbersAssumption  == /\ Duration \in Nat \ {0} /\ MaxUses \in Nat
                             /\ MaxStarts \in Nat /\ MaxTime \in Nat \ {0} /\ MaxFaults \in Nat

VARIABLES
    pay,        \* payments rows: status and whether they carry the promo code
    sub,        \* subscriptions rows: status and expires_at (0 is NULL)
    usedCount,  \* promo_codes.used_count
    redeemed,   \* promo_code_redemptions rows of each payment
    events,     \* the webhooks the provider has signed: <<payment, status>>
    refunds,    \* provider.refund_payment calls that succeeded
    tx,         \* the open transactions
    sweep,      \* the expiry sweep
    now,
    starts, faults,
    applied,    \* history: activations committed for each payment
    since,      \* history: when the payment was first activated
    disturbed,  \* history: payments on which two requests overlapped (their creation
                \*          apart), or whose refund failed between the provider and
                \*          the commit
    shared      \* history: two payments carried the code before either redeemed it

rows    == <<pay, sub, usedCount, redeemed>>
history == <<applied, since, disturbed, shared>>
vars == <<rows, events, refunds, tx, sweep, now, starts, faults, history>>

PayStatus == {"none", "pending", "succeeded", "failed", "refunded"}
SubStatus == {"none", "pending", "active", "expired", "cancelled"}
Events    == {"pending", "succeeded", "failed"}
Steps     == {"intent", "create_commit", "payment", "subscription", "promo", "commit",
              "refund_read", "refund_provider", "refund_commit",
              "cancel_read", "cancel_commit"}

(* A transaction: what it is about, what it has read, what it will write. *)
NoTx == [pc |-> "none", payment |-> NoPayment, event |-> "pending", promo |-> FALSE,
         status |-> "none", seen |-> "none", expires |-> 0, count |-> 0]

Open(t)   == tx[t].pc # "none"
On(p)     == {t \in Requests : tx[t].payment = p}
Creating(t) == tx[t].pc \in {"intent", "create_commit"}
Asking(p) == {t \in On(p) : ~Creating(t)}
Terminal  == {"succeeded", "refunded"}   \* CANCELLED is never assigned
Redemptions(u) == {p \in Payments : Owner[p] = u /\ redeemed[p] > 0}

Advance(t, step) == tx' = [tx EXCEPT ![t].pc = step]
End(t)           == tx' = [tx EXCEPT ![t] = NoTx]

-----------------------------------------------------------------------------
(* create_payment.                                                         *)

(* A payment carries the code from the check until it is redeemed. *)
Carriers == {p \in Payments : pay[p].promo /\ redeemed[p] = 0}
            \cup {tx[t].payment : t \in {x \in Requests : tx[x].promo /\ Creating(x)}}

(* Mutant: max_uses is compared with <=. *)
PromoAcceptedOnceMore(u) == usedCount <= MaxUses /\ Redemptions(u) = {}

(* Mutant: the redemptions of the user are not looked at. *)
PromoAcceptedAgain(u) == usedCount < MaxUses

(* The promo checks read used_count and the user's redemptions; the refused *)
(* request leaves nothing behind.                                          *)
PromoAccepted(u) == usedCount < MaxUses /\ Redemptions(u) = {}

CreatePaymentCheck(t, p, promo) ==
    /\ ~Open(t) /\ pay[p].status = "none" /\ On(p) = {}
    /\ \A e \in Events : <<p, e>> \notin events
    /\ promo => PromoAccepted(Owner[p])
    /\ tx' = [tx EXCEPT ![t] = [NoTx EXCEPT !.pc = "intent", !.payment = p, !.promo = promo]]
    /\ shared' = (shared \/ (promo /\ Carriers # {}))
    /\ UNCHANGED <<rows, events, refunds, sweep, now, starts, faults, applied, since, disturbed>>

(* provider.create_payment: from here on webhooks may arrive. *)
CreatePaymentIntent(t) ==
    LET p == tx[t].payment IN
    /\ tx[t].pc = "intent"
    /\ events' = events \cup {<<p, "pending">>}
    /\ Advance(t, "create_commit")
    /\ UNCHANGED <<rows, refunds, sweep, now, starts, faults, history>>

CreatePaymentCommit(t) ==
    LET p == tx[t].payment IN
    /\ tx[t].pc = "create_commit"
    /\ pay' = [pay EXCEPT ![p] = [status |-> "pending", promo |-> tx[t].promo]]
    /\ sub' = [sub EXCEPT ![p].status = "pending"]
    /\ End(t)
    /\ UNCHANGED <<usedCount, redeemed, events, refunds, sweep, now, starts, faults, history>>

-----------------------------------------------------------------------------
(* The provider (external): an intent may fail and be paid later; what it  *)
(* has signed once it may deliver any number of times, in any order.       *)

ProviderReports(p, e) ==
    /\ <<p, "pending">> \in events /\ <<p, "succeeded">> \notin events
    /\ <<p, e>> \notin events
    /\ events' = events \cup {<<p, e>>}
    /\ UNCHANGED <<rows, refunds, tx, sweep, now, starts, faults, history>>

-----------------------------------------------------------------------------
(* A request about one payment.                                            *)

Start(t, p, step, e) ==
    /\ ~Open(t) /\ starts < MaxStarts
    /\ starts' = starts + 1
    /\ tx' = [tx EXCEPT ![t] = [NoTx EXCEPT !.pc = step, !.payment = p, !.event = e]]
    /\ disturbed' = IF Asking(p) = {} THEN disturbed ELSE disturbed \cup {p}
    /\ UNCHANGED <<rows, events, refunds, sweep, now, faults, applied, since, shared>>

(* handle_webhook *)
Webhook(t, p, e) == <<p, e>> \in events /\ Start(t, p, "payment", e)

(* Mutant: only SUCCEEDED is treated as already processed. *)
WebhookReadPaymentForgetsRefunds(t) ==
    LET p == tx[t].payment  s == pay[p].status  e == tx[t].event IN
    /\ tx[t].pc = "payment"
    /\ IF s = "none" \/ s = "succeeded" THEN End(t)
       ELSE tx' = [tx EXCEPT ![t].status = s, ![t].promo = pay[p].promo,
                             ![t].pc = IF e = "succeeded" THEN "subscription" ELSE "commit"]
    /\ UNCHANGED <<rows, events, refunds, sweep, now, starts, faults, history>>

(* An unknown payment is a 404; one already in a terminal status is        *)
(* acknowledged.  Both leave the database alone.                           *)
WebhookReadPayment(t) ==
    LET p == tx[t].payment  s == pay[p].status  e == tx[t].event IN
    /\ tx[t].pc = "payment"
    /\ IF s = "none" \/ s \in Terminal THEN End(t)
       ELSE tx' = [tx EXCEPT ![t].status = s, ![t].promo = pay[p].promo,
                             ![t].pc = IF e = "succeeded" THEN "subscription" ELSE "commit"]
    /\ UNCHANGED <<rows, events, refunds, sweep, now, starts, faults, history>>

(* activate(): from the current expiry when the subscription is active and *)
(* not over, from now otherwise.                                           *)
ActivateBase(s) == IF s.status = "active" /\ s.expires > now THEN s.expires ELSE now

WebhookActivate(t) ==
    LET s == sub[tx[t].payment] IN
    /\ tx[t].pc = "subscription"
    /\ tx' = [tx EXCEPT ![t].seen = s.status, ![t].expires = ActivateBase(s) + Duration,
                        ![t].pc = IF tx[t].promo THEN "promo" ELSE "commit"]
    /\ UNCHANGED <<rows, events, refunds, sweep, now, starts, faults, history>>

WebhookReadPromo(t) ==
    /\ tx[t].pc = "promo"
    /\ tx' = [tx EXCEPT ![t].count = usedCount + 1, ![t].pc = "commit"]
    /\ UNCHANGED <<rows, events, refunds, sweep, now, starts, faults, history>>

(* The flush writes the attributes that differ from what was read. *)
CommitSuccess(t) ==
    LET p == tx[t].payment IN
    /\ pay' = [pay EXCEPT ![p].status = "succeeded"]
    /\ sub' = [sub EXCEPT ![p].expires = tx[t].expires,
                          ![p].status = IF tx[t].seen = "active" THEN sub[p].status ELSE "active"]
    /\ usedCount' = IF tx[t].promo THEN tx[t].count ELSE usedCount
    /\ redeemed' = IF tx[t].promo THEN [redeemed EXCEPT ![p] = redeemed[p] + 1] ELSE redeemed
    /\ applied' = [applied EXCEPT ![p] = applied[p] + 1]
    /\ since' = IF applied[p] = 0 THEN [since EXCEPT ![p] = tx[t].expires - Duration] ELSE since

CommitFailure(t) ==
    LET p == tx[t].payment IN
    /\ pay' = IF tx[t].status = "failed" THEN pay ELSE [pay EXCEPT ![p].status = "failed"]
    /\ UNCHANGED <<sub, usedCount, redeemed, applied, since>>

WebhookCommit(t) ==
    /\ tx[t].pc = "commit"
    /\ \/ tx[t].event = "succeeded" /\ CommitSuccess(t)
       \/ tx[t].event = "failed" /\ CommitFailure(t)
       \/ tx[t].event = "pending" /\ UNCHANGED <<rows, applied, since>>
    /\ End(t)
    /\ UNCHANGED <<events, refunds, sweep, now, starts, faults, disturbed, shared>>

-----------------------------------------------------------------------------
(* refund and cancel.                                                      *)

Refund(t, p) == pay[p].status # "none" /\ Start(t, p, "refund_read", "pending")

RefundRead(t) ==
    /\ tx[t].pc = "refund_read"
    /\ IF pay[tx[t].payment].status = "succeeded" THEN Advance(t, "refund_provider") ELSE End(t)
    /\ UNCHANGED <<rows, events, refunds, sweep, now, starts, faults, history>>

RefundProvider(t) ==
    /\ tx[t].pc = "refund_provider"
    /\ \/ /\ refunds' = [refunds EXCEPT ![tx[t].payment] = refunds[tx[t].payment] + 1]
          /\ Advance(t, "refund_commit")
       \/ UNCHANGED refunds /\ End(t)
    /\ UNCHANGED <<rows, events, sweep, now, starts, faults, history>>

(* Mutant: the status is not written back. *)
RefundForgotten(t) ==
    /\ tx[t].pc = "refund_commit" /\ End(t)
    /\ UNCHANGED <<rows, events, refunds, sweep, now, starts, faults, history>>

RefundCommit(t) ==
    /\ tx[t].pc = "refund_commit"
    /\ pay' = [pay EXCEPT ![tx[t].payment].status = "refunded"]
    /\ End(t)
    /\ UNCHANGED <<sub, usedCount, redeemed, events, refunds, sweep, now, starts, faults, history>>

Cancel(t, p) == sub[p].status # "none" /\ Start(t, p, "cancel_read", "pending")

CancelRead(t) ==
    /\ tx[t].pc = "cancel_read"
    /\ tx' = [tx EXCEPT ![t].seen = sub[tx[t].payment].status, ![t].pc = "cancel_commit"]
    /\ UNCHANGED <<rows, events, refunds, sweep, now, starts, faults, history>>

(* Mutant: the status is spelled the other way. *)
CancelCommitMisspelt(t) ==
    /\ tx[t].pc = "cancel_commit"
    /\ sub' = [sub EXCEPT ![tx[t].payment].status = "canceled"]
    /\ End(t)
    /\ UNCHANGED <<pay, usedCount, redeemed, events, refunds, sweep, now, starts, faults, history>>

CancelCommit(t) ==
    LET p == tx[t].payment IN
    /\ tx[t].pc = "cancel_commit"
    /\ sub' = IF tx[t].seen = "cancelled" THEN sub ELSE [sub EXCEPT ![p].status = "cancelled"]
    /\ End(t)
    /\ UNCHANGED <<pay, usedCount, redeemed, events, refunds, sweep, now, starts, faults, history>>

(* A request that fails rolls its transaction back; a refund the provider  *)
(* has already made stays made.                                            *)
Rollback(t) ==
    /\ Open(t) /\ faults < MaxFaults
    /\ faults' = faults + 1
    /\ disturbed' = IF tx[t].pc = "refund_commit" THEN disturbed \cup {tx[t].payment}
                                                  ELSE disturbed
    /\ End(t)
    /\ UNCHANGED <<rows, events, refunds, sweep, now, starts, applied, since, shared>>

-----------------------------------------------------------------------------
(* SubscriptionExpiryWorker.run_once: one transaction for the whole sweep. *)

NoSweep == [pc |-> "idle", subs |-> {}]

Overdue(p) == sub[p].status = "active" /\ sub[p].expires # 0 /\ sub[p].expires <= now

(* Mutant: every active subscription is listed, whatever its expires_at. *)
SweepListsAllActive ==
    /\ sweep.pc = "idle" /\ \E p \in Payments : sub[p].status = "active"
    /\ sweep' = [pc |-> "expire", subs |-> {p \in Payments : sub[p].status = "active"}]
    /\ UNCHANGED <<rows, events, refunds, tx, now, starts, faults, history>>

SweepList ==
    /\ sweep.pc = "idle" /\ \E p \in Payments : Overdue(p)
    /\ sweep' = [pc |-> "expire", subs |-> {p \in Payments : Overdue(p)}]
    /\ UNCHANGED <<rows, events, refunds, tx, now, starts, faults, history>>

SweepCommit ==
    /\ sweep.pc = "expire"
    /\ sub' = [p \in Payments |-> IF p \in sweep.subs THEN [sub[p] EXCEPT !.status = "expired"]
                                                      ELSE sub[p]]
    /\ sweep' = NoSweep
    /\ UNCHANGED <<pay, usedCount, redeemed, events, refunds, tx, now, starts, faults, history>>

(* An agent that does not answer fails the sweep: nothing is expired. *)
SweepRollback ==
    /\ sweep.pc = "expire" /\ faults < MaxFaults
    /\ sweep' = NoSweep /\ faults' = faults + 1
    /\ UNCHANGED <<rows, events, refunds, tx, now, starts, history>>

Tick ==
    /\ now < MaxTime /\ now' = now + 1
    /\ UNCHANGED <<rows, events, refunds, tx, sweep, starts, faults, history>>

-----------------------------------------------------------------------------
Init ==
    /\ pay = [p \in Payments |-> [status |-> "none", promo |-> FALSE]]
    /\ sub = [p \in Payments |-> [status |-> "none", expires |-> 0]]
    /\ usedCount = 0 /\ redeemed = [p \in Payments |-> 0]
    /\ events = {} /\ refunds = [p \in Payments |-> 0]
    /\ tx = [t \in Requests |-> NoTx] /\ sweep = NoSweep
    /\ now = 1 /\ starts = 0 /\ faults = 0
    /\ applied = [p \in Payments |-> 0] /\ since = [p \in Payments |-> 0]
    /\ disturbed = {} /\ shared = FALSE

Begin ==
    \/ \E t \in Requests, p \in Payments, promo \in BOOLEAN : CreatePaymentCheck(t, p, promo)
    \/ \E t \in Requests, p \in Payments, e \in Events : Webhook(t, p, e)
    \/ \E t \in Requests, p \in Payments : Refund(t, p)
    \/ \E t \in Requests, p \in Payments : Cancel(t, p)

Step(t) ==
    \/ CreatePaymentIntent(t) \/ CreatePaymentCommit(t)
    \/ WebhookReadPayment(t) \/ WebhookActivate(t) \/ WebhookReadPromo(t) \/ WebhookCommit(t)
    \/ RefundRead(t) \/ RefundProvider(t) \/ RefundCommit(t)
    \/ CancelRead(t) \/ CancelCommit(t)

Next ==
    \/ Begin
    \/ \E t \in Requests : Step(t)
    \/ \E t \in Requests : Rollback(t)
    \/ \E p \in Payments, e \in {"succeeded", "failed"} : ProviderReports(p, e)
    \/ SweepList \/ SweepCommit \/ SweepRollback
    \/ Tick

Spec == Init /\ [][Next]_vars

-----------------------------------------------------------------------------
(* Properties. *)

MaxExpiry == MaxTime + Duration * (MaxStarts + 1)

(* The rows, the transactions and the counters keep their types. *)
TypeOK ==
    /\ pay \in [Payments -> [status : PayStatus, promo : BOOLEAN]]
    /\ sub \in [Payments -> [status : SubStatus, expires : 0 .. MaxExpiry]]
    /\ usedCount \in 0 .. MaxStarts /\ redeemed \in [Payments -> 0 .. MaxStarts]
    /\ events \in SUBSET (Payments \X Events)
    /\ refunds \in [Payments -> 0 .. MaxStarts]
    /\ tx \in [Requests -> [pc : Steps \cup {"none"}, payment : Payments \cup {NoPayment},
                            event : Events, promo : BOOLEAN, status : PayStatus,
                            seen : SubStatus, expires : 0 .. MaxExpiry,
                            count : 0 .. MaxStarts + 1]]
    /\ sweep \in [pc : {"idle", "expire"}, subs : SUBSET Payments]
    /\ now \in 1 .. MaxTime /\ starts \in 0 .. MaxStarts /\ faults \in 0 .. MaxFaults
    /\ applied \in [Payments -> 0 .. MaxStarts] /\ since \in [Payments -> 0 .. MaxTime]
    /\ disturbed \in SUBSET Payments /\ shared \in BOOLEAN

(* handle_webhook is idempotent for deliveries that do not overlap: however *)
(* often, in whatever order and after whatever rollbacks the events of a   *)
(* payment arrive, it is activated at most once, for one plan duration,    *)
(* and redeems its code at most once; refunds and cancellations in between *)
(* do not reopen it.                                                       *)
OnePeriodPerPayment ==
    \A p \in Payments \ disturbed :
        /\ applied[p] <= 1 /\ redeemed[p] = (IF pay[p].promo THEN applied[p] ELSE 0)
        /\ applied[p] = 1 <=> pay[p].status \in Terminal
        /\ sub[p].expires = IF applied[p] = 1 THEN since[p] + Duration ELSE 0

(* The provider is asked to refund a payment at most once, and a refunded  *)
(* payment was refunded by the provider, unless requests about the payment *)
(* overlapped or failed after the provider had paid out.                   *)
RefundedOnce ==
    \A p \in Payments \ disturbed :
        /\ refunds[p] <= 1
        /\ pay[p].status = "refunded" => refunds[p] = 1
        /\ refunds[p] = 1 /\ On(p) = {} => pay[p].status = "refunded"

(* The sweep never takes away time that was paid for: a subscription it    *)
(* expired is over, even if webhooks of other payments, cancellations and  *)
(* failed sweeps ran between its query and its commit.                     *)
ExpiredIsOver ==
    \A p \in Payments \ disturbed : sub[p].status = "expired" => sub[p].expires <= now

(* What models/promo_code.py says of the redemptions: they are tracked "to *)
(* enforce one-time-per-user usage".                                       *)
OneRedemptionPerUser == \A u \in Users : Cardinality(Redemptions(u)) <= 1

(* The limit of a promo code holds as long as no second payment carries    *)
(* the code while an earlier one has yet to redeem it.                     *)
PromoWithinMaxUses ==
    ~shared /\ disturbed = {} => Cardinality({p \in Payments : redeemed[p] > 0}) <= MaxUses

(* Under the same condition no user redeems it twice. *)
PromoOnceUnlessShared == ~shared /\ disturbed = {} => OneRedemptionPerUser

(* api/v1/payments.py and docs/security.md: the webhook is idempotent, a   *)
(* replay is acknowledged without re-applying the activation.              *)
WebhookIsIdempotent == \A p \in Payments : applied[p] <= 1
=============================================================================
