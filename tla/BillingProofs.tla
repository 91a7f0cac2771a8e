---------------------------- MODULE BillingProofs ----------------------------
(***************************************************************************)
(* Proofs about Billing for any number of payments, users and requests:    *)
(* a payment whose requests did not overlap is activated and refunded at   *)
(* most once, the sweep expires only what is over, and sequential use of a *)
(* promo code keeps its limits.                                            *)
(***************************************************************************)
EXTENDS Billing, FiniteSetTheorems, TLAPS

(* Rows and transactions without the bounds of the counters. *)
TxRecords == [pc : Steps \cup {"none"}, payment : Payments \cup {NoPayment}, event : Events,
              promo : BOOLEAN, status : PayStatus, seen : SubStatus, expires : Nat, count : Nat]

Shape ==
    /\ pay \in [Payments -> [status : PayStatus, promo : BOOLEAN]]
    /\ sub \in [Payments -> [status : SubStatus, expires : Nat]]
    /\ usedCount \in Nat /\ redeemed \in [Payments -> Nat]
    /\ events \in SUBSET (Payments \X Events)
    /\ refunds \in [Payments -> Nat]
    /\ tx \in [Requests -> TxRecords]
    /\ sweep \in [pc : {"idle", "expire"}, subs : SUBSET Payments]
    /\ now \in Nat \ {0} /\ starts \in Nat /\ faults \in Nat
    /\ applied \in [Payments -> Nat] /\ since \in [Payments -> Nat]
    /\ disturbed \in SUBSET Payments /\ shared \in BOOLEAN

(* An open transaction is about a payment; one that is to activate has     *)
(* computed an expiry of at least one duration.                            *)
TxInv ==
    \A t \in Requests :
        /\ Open(t) <=> tx[t].payment \in Payments
        /\ \/ tx[t].pc = "promo"
           \/ tx[t].pc = "commit" /\ tx[t].event = "succeeded"
           => tx[t].expires >= Duration

(* The requests that may still add to a counter, and what is left of       *)
(* starts without them: no counter can exceed that.                        *)
SpendingSteps == {"payment", "subscription", "promo", "commit", "refund_read", "refund_provider"}
Spending == {t \in Requests : tx[t].pc \in SpendingSteps}
Spare    == starts - Cardinality(Spending)

Paid(n) == MaxTime + Duration * n

Bounded ==
    /\ IsFiniteSet(Spending)
    /\ usedCount <= Spare
    /\ \A p \in Payments : applied[p] <= Spare /\ redeemed[p] <= Spare /\ refunds[p] <= Spare
    /\ \A t \in Requests : tx[t].count <= Spare + 1
    /\ \A p \in Payments : sub[p].expires <= Paid(applied[p]) /\ since[p] <= MaxTime
    /\ \A t \in Requests : tx[t].expires <= (IF tx[t].payment \in Payments
                                             THEN Paid(applied[tx[t].payment] + 1) ELSE 0)
    /\ now <= MaxTime /\ starts <= MaxStarts /\ faults <= MaxFaults

(* What the rows of an undisturbed payment say of its one activation and   *)
(* its one refund.                                                         *)
Ledger(p) ==
    /\ applied[p] \in {0, 1}
    /\ applied[p] = 1 <=> pay[p].status \in Terminal
    /\ redeemed[p] = IF pay[p].promo THEN applied[p] ELSE 0
    /\ sub[p].expires = IF applied[p] = 1 THEN since[p] + Duration ELSE 0
    /\ sub[p].status = "expired" \/ p \in sweep.subs => applied[p] = 1 /\ sub[p].expires <= now
    /\ refunds[p] \in {0, 1}
    /\ pay[p].status = "refunded" => refunds[p] = 1
    /\ refunds[p] = 1 => pay[p].status = "refunded" \/ \E t \in On(p) : tx[t].pc = "refund_commit"

(* How far the one request about an undisturbed payment has got, and that  *)
(* what it has read is still true; only a webhook that came too early is   *)
(* open next to the request that creates the payment.                      *)
Progress(t) ==
    LET p == tx[t].payment IN
    /\ ~Creating(t) => Asking(p) = {t}
    /\ Creating(t) => pay[p].status = "none" /\ \A u \in On(p) : Creating(u) => u = t
    /\ tx[t].pc \in {"subscription", "promo", "commit"} =>
         /\ pay[p].status \in {"pending", "failed"}
         /\ tx[t].promo <=> pay[p].promo
    /\ tx[t].pc = "refund_provider" => pay[p].status = "succeeded" /\ refunds[p] = 0
    /\ tx[t].pc = "refund_commit" => pay[p].status = "succeeded" /\ refunds[p] = 1

LedgerInv ==
    /\ \A p \in Payments \ disturbed : Ledger(p)
    /\ \A t \in Requests : tx[t].payment \in Payments \ disturbed => Progress(t)

(* While a code is carried by one payment at a time, the counter is the    *)
(* number of redemptions, and the payment that carries the code has room.  *)
Redeemed == {p \in Payments : redeemed[p] > 0}

PromoInv ==
    ~shared /\ disturbed = {} =>
        /\ IsFiniteSet(Redeemed) /\ usedCount = Cardinality(Redeemed) /\ usedCount <= MaxUses
        /\ \A p, q \in Redeemed : Owner[p] = Owner[q] => p = q
        /\ \A c, d \in Carriers : c = d
        /\ \A c \in Carriers : usedCount < MaxUses /\ Redemptions(Owner[c]) = {}
        /\ \A t \in Requests : (tx[t].pc = "commit" /\ tx[t].event = "succeeded" /\ tx[t].promo)
                                   => tx[t].count = usedCount + 1

IInv == Shape /\ TxInv /\ Bounded /\ LedgerInv /\ PromoInv

-----------------------------------------------------------------------------
(* What a step does to the transactions. *)

Sets(t, r) == /\ r \in TxRecords
              /\ tx' \in [Requests -> TxRecords]
              /\ tx'[t] = r
              /\ \A u \in Requests \ {t} : tx'[u] = tx[u]

LEMMA Update ==
    ASSUME Shape, NEW t \in Requests, NEW r \in TxRecords, tx' = [tx EXCEPT ![t] = r]
    PROVE  Sets(t, r)
  BY DEF Shape, Sets

LEMMA NoTxRecord == NoTx \in TxRecords
  BY DEF NoTx, TxRecords, PayStatus, SubStatus, Events, Steps

LEMMA Ends == ASSUME Shape, NEW t \in Requests, End(t) PROVE Sets(t, NoTx)
  BY NoTxRecord, Update DEF End

LEMMA Advances ==
    ASSUME Shape, NEW t \in Requests, NEW s \in Steps, Advance(t, s)
    PROVE  Sets(t, [tx[t] EXCEPT !.pc = s])
<1>1. tx[t] \in TxRecords
  BY DEF Shape
<1>2. [tx[t] EXCEPT !.pc = s] \in TxRecords
  BY <1>1 DEF TxRecords
<1>3. tx' = [tx EXCEPT ![t] = [tx[t] EXCEPT !.pc = s]]
  BY DEF Advance
<1> QED BY <1>2, <1>3, Update

LEMMA CheckSets ==
    ASSUME Shape, NEW t \in Requests, NEW p \in Payments, NEW b \in BOOLEAN,
           CreatePaymentCheck(t, p, b)
    PROVE  Sets(t, [NoTx EXCEPT !.pc = "intent", !.payment = p, !.promo = b])
<1>1. [NoTx EXCEPT !.pc = "intent", !.payment = p, !.promo = b] \in TxRecords
  BY NoTxRecord DEF TxRecords, Steps, NoTx
<1> QED BY <1>1, Update DEF CreatePaymentCheck

LEMMA StartSets ==
    ASSUME Shape, NEW t \in Requests, NEW p \in Payments, NEW s \in Steps, NEW e \in Events,
           Start(t, p, s, e)
    PROVE  Sets(t, [NoTx EXCEPT !.pc = s, !.payment = p, !.event = e])
<1>1. [NoTx EXCEPT !.pc = s, !.payment = p, !.event = e] \in TxRecords
  BY NoTxRecord DEF TxRecords, NoTx
<1> QED BY <1>1, Update DEF Start

LEMMA ReadPaymentSets ==
    ASSUME Shape, TxInv, NEW t \in Requests, WebhookReadPayment(t)
    PROVE  LET s == pay[tx[t].payment].status IN
           /\ tx[t].payment \in Payments
           /\ \/ (s = "none" \/ s \in Terminal) /\ Sets(t, NoTx)
              \/ /\ s \notin {"none"} \cup Terminal
                 /\ Sets(t, [tx[t] EXCEPT !.status = s, !.promo = pay[tx[t].payment].promo,
                             !.pc = IF tx[t].event = "succeeded" THEN "subscription"
                                                                 ELSE "commit"])
<1> DEFINE p == tx[t].payment
           s == pay[p].status
           r == [tx[t] EXCEPT !.status = s, !.promo = pay[p].promo,
                              !.pc = IF tx[t].event = "succeeded" THEN "subscription" ELSE "commit"]
<1>1. p \in Payments /\ tx[t] \in TxRecords
  BY DEF WebhookReadPayment, TxInv, Open, Shape
<1>2. s \in PayStatus /\ pay[p].promo \in BOOLEAN
  BY <1>1 DEF Shape
<1>3. r \in TxRecords
  BY <1>1, <1>2 DEF TxRecords, Steps
<1>4. CASE s = "none" \/ s \in Terminal
  BY <1>1, <1>4, Ends DEF WebhookReadPayment
<1>5. CASE s \notin {"none"} \cup Terminal
  <2>1. tx' = [tx EXCEPT ![t] = r]
    BY <1>5 DEF WebhookReadPayment
  <2> QED BY <1>1, <1>3, <1>5, <2>1, Update
<1> QED BY <1>4, <1>5

LEMMA ActivateSets ==
    ASSUME Shape, TxInv, NEW t \in Requests, WebhookActivate(t)
    PROVE  LET s == sub[tx[t].payment]
               r == [tx[t] EXCEPT !.seen = s.status, !.expires = ActivateBase(s) + Duration,
                                  !.pc = IF tx[t].promo THEN "promo" ELSE "commit"]
           IN  tx[t].payment \in Payments /\ ActivateBase(s) \in Nat /\ Sets(t, r)
<1> DEFINE s == sub[tx[t].payment]
           r == [tx[t] EXCEPT !.seen = s.status, !.expires = ActivateBase(s) + Duration,
                              !.pc = IF tx[t].promo THEN "promo" ELSE "commit"]
<1>1. tx[t].payment \in Payments /\ tx[t] \in TxRecords
  BY DEF WebhookActivate, TxInv, Open, Shape
<1>2. s \in [status : SubStatus, expires : Nat]
  BY <1>1 DEF Shape
<1>3. ActivateBase(s) \in Nat
  BY <1>2 DEF ActivateBase, Shape
<1>4. r \in TxRecords
  <2>1. ActivateBase(s) + Duration \in Nat
    BY <1>3, NumbersAssumption
  <2>2. (IF tx[t].promo THEN "promo" ELSE "commit") \in Steps
    BY DEF Steps
  <2> HIDE DEF s
  <2> QED BY <1>1, <1>2, <2>1, <2>2 DEF TxRecords
<1>5. tx' = [tx EXCEPT ![t] = r]
  BY DEF WebhookActivate
<1> QED BY <1>1, <1>3, <1>4, <1>5, Update

LEMMA ReadPromoSets ==
    ASSUME Shape, NEW t \in Requests, WebhookReadPromo(t)
    PROVE  Sets(t, [tx[t] EXCEPT !.count = usedCount + 1, !.pc = "commit"])
<1>1. tx[t] \in TxRecords /\ usedCount + 1 \in Nat
  BY DEF Shape
<1>2. [tx[t] EXCEPT !.count = usedCount + 1, !.pc = "commit"] \in TxRecords
  BY <1>1 DEF TxRecords, Steps
<1>3. tx' = [tx EXCEPT ![t] = [tx[t] EXCEPT !.count = usedCount + 1, !.pc = "commit"]]
  BY DEF WebhookReadPromo
<1> QED BY <1>2, <1>3, Update

LEMMA CancelReadSets ==
    ASSUME Shape, TxInv, NEW t \in Requests, CancelRead(t)
    PROVE  /\ tx[t].payment \in Payments
           /\ Sets(t, [tx[t] EXCEPT !.seen = sub[tx[t].payment].status, !.pc = "cancel_commit"])
<1>1. tx[t].payment \in Payments /\ tx[t] \in TxRecords
  BY DEF CancelRead, TxInv, Open, Shape
<1>2. sub[tx[t].payment].status \in SubStatus
  BY <1>1 DEF Shape
<1>3. [tx[t] EXCEPT !.seen = sub[tx[t].payment].status, !.pc = "cancel_commit"] \in TxRecords
  BY <1>1, <1>2 DEF TxRecords, Steps
<1>4. tx' = [tx EXCEPT ![t] = [tx[t] EXCEPT !.seen = sub[tx[t].payment].status,
                                            !.pc = "cancel_commit"]]
  BY DEF CancelRead
<1> QED BY <1>1, <1>3, <1>4, Update

-----------------------------------------------------------------------------
(* Shape and TxInv are inductive. *)

LEMMA InitShape == Init => Shape /\ TxInv
PROOF
<1> SUFFICES ASSUME Init PROVE Shape /\ TxInv
  OBVIOUS
<1>1. pay \in [Payments -> [status : PayStatus, promo : BOOLEAN]]
  BY DEF Init, PayStatus
<1>2. sub \in [Payments -> [status : SubStatus, expires : Nat]]
  BY DEF Init, SubStatus
<1>3. tx \in [Requests -> TxRecords]
  BY NoTxRecord DEF Init
<1>4. sweep \in [pc : {"idle", "expire"}, subs : SUBSET Payments]
  BY DEF Init, NoSweep
<1>5. /\ usedCount \in Nat /\ redeemed \in [Payments -> Nat] /\ refunds \in [Payments -> Nat]
      /\ applied \in [Payments -> Nat] /\ since \in [Payments -> Nat]
      /\ now \in Nat \ {0} /\ starts \in Nat /\ faults \in Nat
  BY DEF Init
<1>7. Shape
  BY <1>1, <1>2, <1>3, <1>4, <1>5, Zenon DEF Init, Shape
<1>6. TxInv
  BY PaymentAssumption DEF Init, TxInv, Open, NoTx
<1> QED BY <1>6, <1>7

(* The transaction's new record is in order. *)
GoodTx(r) == /\ r.pc # "none" <=> r.payment \in Payments
             /\ \/ r.pc = "promo"
                \/ r.pc = "commit" /\ r.event = "succeeded"
                => r.expires >= Duration

LEMMA TxKept ==
    ASSUME TxInv, NEW t \in Requests, NEW r, Sets(t, r), GoodTx(r)
    PROVE  TxInv'
  BY DEF TxInv, Sets, GoodTx, Open

LEMMA GoodNoTx == GoodTx(NoTx)
  BY PaymentAssumption DEF GoodTx, NoTx

LEMMA ShapeNext ==
    ASSUME Shape, TxInv, [Next]_vars
    PROVE  Shape' /\ TxInv'
PROOF
<1> USE DEF rows, history
<1> USE NumbersAssumption
<1>0. \A t \in Requests : tx[t] \in TxRecords /\ (Open(t) => tx[t].payment \in Payments)
  BY DEF Shape, TxInv
<1>1. ASSUME NEW t \in Requests, NEW p \in Payments, NEW b \in BOOLEAN, CreatePaymentCheck(t, p, b)
      PROVE Shape' /\ TxInv'
  <2>1. GoodTx([NoTx EXCEPT !.pc = "intent", !.payment = p, !.promo = b])
    BY DEF GoodTx, NoTx
  <2>2. TxInv'
    BY <1>1, <2>1, CheckSets, TxKept
  <2>3. tx' \in [Requests -> TxRecords]
    BY <1>1, CheckSets DEF Sets
  <2> QED BY <1>1, <2>2, <2>3 DEF CreatePaymentCheck, Shape
<1>2. ASSUME NEW t \in Requests, NEW p \in Payments, NEW e \in Events,
             NEW s \in {"payment", "refund_read", "cancel_read"}, Start(t, p, s, e)
      PROVE Shape' /\ TxInv'
  <2>0. s \in Steps
    BY DEF Steps
  <2>1. GoodTx([NoTx EXCEPT !.pc = s, !.payment = p, !.event = e])
    BY DEF GoodTx, NoTx
  <2>2. TxInv'
    BY <1>2, <2>0, <2>1, StartSets, TxKept
  <2>3. tx' \in [Requests -> TxRecords]
    BY <1>2, <2>0, StartSets DEF Sets
  <2> QED BY <1>2, <2>2, <2>3 DEF Start, Shape
<1>3. ASSUME NEW t \in Requests, CreatePaymentIntent(t) PROVE Shape' /\ TxInv'
  <2>1. tx[t].payment \in Payments /\ "create_commit" \in Steps
    BY <1>0, <1>3 DEF CreatePaymentIntent, Open, Steps
  <2>2. Sets(t, [tx[t] EXCEPT !.pc = "create_commit"])
    BY <1>3, <2>1, Advances DEF CreatePaymentIntent
  <2>3. GoodTx([tx[t] EXCEPT !.pc = "create_commit"])
    BY <1>0, <2>1 DEF GoodTx, TxRecords
  <2>4. TxInv' /\ tx' \in [Requests -> TxRecords]
    BY <2>2, <2>3, TxKept DEF Sets
  <2>5. events' \in SUBSET (Payments \X Events)
    BY <1>3, <2>1 DEF CreatePaymentIntent, Shape, Events
  <2> QED BY <1>3, <2>4, <2>5 DEF CreatePaymentIntent, Shape
<1>4. ASSUME NEW t \in Requests, CreatePaymentCommit(t) PROVE Shape' /\ TxInv'
  <2>1. tx[t].payment \in Payments /\ tx[t].promo \in BOOLEAN
    BY <1>0, <1>4 DEF CreatePaymentCommit, Open, TxRecords
  <2>2. TxInv' /\ tx' \in [Requests -> TxRecords]
    BY <1>4, Ends, TxKept, GoodNoTx DEF CreatePaymentCommit, Sets
  <2>3. pay' \in [Payments -> [status : PayStatus, promo : BOOLEAN]]
    BY <1>4, <2>1 DEF CreatePaymentCommit, Shape, PayStatus
  <2>4. sub' \in [Payments -> [status : SubStatus, expires : Nat]]
    BY <1>4, <2>1 DEF CreatePaymentCommit, Shape, SubStatus
  <2> QED BY <1>4, <2>2, <2>3, <2>4 DEF CreatePaymentCommit, Shape
<1>5. ASSUME NEW t \in Requests, WebhookReadPayment(t) PROVE Shape' /\ TxInv'
  <2> DEFINE s == pay[tx[t].payment].status
             r == [tx[t] EXCEPT !.status = s, !.promo = pay[tx[t].payment].promo,
                                !.pc = IF tx[t].event = "succeeded" THEN "subscription"
                                                                    ELSE "commit"]
  <2>1. GoodTx(r)
    BY <1>0, <1>5 DEF WebhookReadPayment, Open, GoodTx, TxRecords
  <2>2. TxInv' /\ tx' \in [Requests -> TxRecords]
    BY <1>5, <2>1, ReadPaymentSets, GoodNoTx, TxKept DEF Sets
  <2> QED BY <1>5, <2>2 DEF WebhookReadPayment, Shape
<1>6. ASSUME NEW t \in Requests, WebhookActivate(t) PROVE Shape' /\ TxInv'
  <2> DEFINE s == sub[tx[t].payment]
             r == [tx[t] EXCEPT !.seen = s.status, !.expires = ActivateBase(s) + Duration,
                                !.pc = IF tx[t].promo THEN "promo" ELSE "commit"]
  <2>1. ActivateBase(s) \in Nat /\ Sets(t, r) /\ tx[t].payment \in Payments
    BY <1>6, ActivateSets
  <2>2. GoodTx(r)
    BY <1>0, <2>1 DEF GoodTx, TxRecords
  <2>3. TxInv' /\ tx' \in [Requests -> TxRecords]
    BY <2>1, <2>2, TxKept DEF Sets
  <2> QED BY <1>6, <2>3 DEF WebhookActivate, Shape
<1>7. ASSUME NEW t \in Requests, WebhookReadPromo(t) PROVE Shape' /\ TxInv'
  <2>1. GoodTx([tx[t] EXCEPT !.count = usedCount + 1, !.pc = "commit"])
    BY <1>0, <1>7 DEF WebhookReadPromo, GoodTx, TxRecords, TxInv, Open
  <2>2. TxInv' /\ tx' \in [Requests -> TxRecords]
    BY <1>7, <2>1, ReadPromoSets, TxKept DEF Sets
  <2> QED BY <1>7, <2>2 DEF WebhookReadPromo, Shape
<1>8. ASSUME NEW t \in Requests, WebhookCommit(t) PROVE Shape' /\ TxInv'
  <2>1. tx[t].payment \in Payments /\ tx[t] \in TxRecords
    BY <1>0, <1>8 DEF WebhookCommit, Open
  <2>2. TxInv' /\ tx' \in [Requests -> TxRecords]
    BY <1>8, Ends, TxKept, GoodNoTx DEF WebhookCommit, Sets
  <2>3. CASE tx[t].event = "succeeded" /\ CommitSuccess(t)
    <3>1. tx[t].expires - Duration \in Nat
      BY <1>8, <2>1, <2>3 DEF WebhookCommit, TxInv, TxRecords
    <3>2. pay' \in [Payments -> [status : PayStatus, promo : BOOLEAN]]
      BY <2>1, <2>3 DEF CommitSuccess, Shape, PayStatus
    <3>4. sub' \in [Payments -> [status : SubStatus, expires : Nat]]
      <4> DEFINE x == IF tx[t].seen = "active" THEN sub[tx[t].payment].status ELSE "active"
      <4>1. x \in SubStatus /\ tx[t].expires \in Nat
        BY <2>1 DEF Shape, SubStatus, TxRecords
      <4>2. sub' = [sub EXCEPT ![tx[t].payment].expires = tx[t].expires,
                               ![tx[t].payment].status = x]
        BY <2>3 DEF CommitSuccess
      <4> HIDE DEF x
      <4> QED BY <2>1, <4>1, <4>2 DEF Shape
    <3>3. /\ usedCount' \in Nat /\ redeemed' \in [Payments -> Nat]
          /\ applied' \in [Payments -> Nat] /\ since' \in [Payments -> Nat]
      BY <2>1, <2>3, <3>1 DEF CommitSuccess, Shape, TxRecords
    <3> QED BY <1>8, <2>2, <3>2, <3>3, <3>4 DEF WebhookCommit, Shape
  <2>4. CASE tx[t].event = "failed" /\ CommitFailure(t)
    <3>1. pay' \in [Payments -> [status : PayStatus, promo : BOOLEAN]]
      <4>1. CASE pay' = pay
        BY <4>1 DEF Shape
      <4>2. CASE pay' = [pay EXCEPT ![tx[t].payment].status = "failed"]
        BY <2>1, <4>2 DEF Shape, PayStatus
      <4> QED BY <2>4, <4>1, <4>2 DEF CommitFailure
    <3> QED BY <1>8, <2>2, <2>4, <3>1 DEF WebhookCommit, CommitFailure, Shape
  <2>5. CASE tx[t].event = "pending" /\ UNCHANGED <<rows, applied, since>>
    BY <1>8, <2>2, <2>5 DEF WebhookCommit, Shape
  <2> QED BY <1>8, <2>3, <2>4, <2>5 DEF WebhookCommit
<1>9. ASSUME NEW t \in Requests, RefundRead(t) PROVE Shape' /\ TxInv'
  <2>1. tx[t].payment \in Payments /\ "refund_provider" \in Steps
    BY <1>0, <1>9 DEF RefundRead, Open, Steps
  <2>2. GoodTx([tx[t] EXCEPT !.pc = "refund_provider"])
    BY <1>0, <2>1 DEF GoodTx, TxRecords
  <2>3. TxInv' /\ tx' \in [Requests -> TxRecords]
    BY <1>9, <2>1, <2>2, Advances, Ends, GoodNoTx, TxKept DEF Sets, RefundRead
  <2> QED BY <1>9, <2>3 DEF RefundRead, Shape
<1>10. ASSUME NEW t \in Requests, RefundProvider(t) PROVE Shape' /\ TxInv'
  <2>1. tx[t].payment \in Payments /\ "refund_commit" \in Steps
    BY <1>0, <1>10 DEF RefundProvider, Open, Steps
  <2>2. GoodTx([tx[t] EXCEPT !.pc = "refund_commit"])
    BY <1>0, <2>1 DEF GoodTx, TxRecords
  <2>3. TxInv' /\ tx' \in [Requests -> TxRecords]
    BY <1>10, <2>1, <2>2, Advances, Ends, GoodNoTx, TxKept DEF Sets, RefundProvider
  <2>4. refunds' \in [Payments -> Nat]
    BY <1>10, <2>1 DEF RefundProvider, Shape
  <2> QED BY <1>10, <2>3, <2>4 DEF RefundProvider, Shape
<1>11. ASSUME NEW t \in Requests, RefundCommit(t) PROVE Shape' /\ TxInv'
  <2>1. TxInv' /\ tx' \in [Requests -> TxRecords]
    BY <1>11, Ends, TxKept, GoodNoTx DEF RefundCommit, Sets
  <2>2. pay' \in [Payments -> [status : PayStatus, promo : BOOLEAN]]
    BY <1>11 DEF RefundCommit, Shape, PayStatus
  <2> QED BY <1>11, <2>1, <2>2 DEF RefundCommit, Shape
<1>12. ASSUME NEW t \in Requests, CancelRead(t) PROVE Shape' /\ TxInv'
  <2>1. tx[t].payment \in Payments
        /\ Sets(t, [tx[t] EXCEPT !.seen = sub[tx[t].payment].status, !.pc = "cancel_commit"])
    BY <1>12, CancelReadSets
  <2>2. GoodTx([tx[t] EXCEPT !.seen = sub[tx[t].payment].status, !.pc = "cancel_commit"])
    BY <1>0, <2>1 DEF GoodTx, TxRecords
  <2>3. TxInv' /\ tx' \in [Requests -> TxRecords]
    BY <2>1, <2>2, TxKept DEF Sets
  <2> QED BY <1>12, <2>3 DEF CancelRead, Shape
<1>13. ASSUME NEW t \in Requests, CancelCommit(t) PROVE Shape' /\ TxInv'
  <2>1. TxInv' /\ tx' \in [Requests -> TxRecords]
    BY <1>13, Ends, TxKept, GoodNoTx DEF CancelCommit, Sets
  <2>2. sub' \in [Payments -> [status : SubStatus, expires : Nat]]
    BY <1>13 DEF CancelCommit, Shape, SubStatus
  <2> QED BY <1>13, <2>1, <2>2 DEF CancelCommit, Shape
<1>14. ASSUME NEW t \in Requests, Rollback(t) PROVE Shape' /\ TxInv'
  <2>1. TxInv' /\ tx' \in [Requests -> TxRecords]
    BY <1>14, Ends, TxKept, GoodNoTx DEF Rollback, Sets
  <2>2. disturbed' \in SUBSET Payments
    BY <1>0, <1>14 DEF Rollback, Shape
  <2> QED BY <1>14, <2>1, <2>2 DEF Rollback, Shape
<1>15. ASSUME NEW p \in Payments, NEW e \in {"succeeded", "failed"}, ProviderReports(p, e)
       PROVE Shape' /\ TxInv'
  BY <1>15 DEF ProviderReports, Shape, TxInv, Open, Events
<1>16. CASE SweepList
  BY <1>16 DEF SweepList, Shape, TxInv, Open
<1>17. CASE SweepCommit
  <2>1. sub' \in [Payments -> [status : SubStatus, expires : Nat]]
    BY <1>17 DEF SweepCommit, Shape, SubStatus
  <2> QED BY <1>17, <2>1 DEF SweepCommit, Shape, TxInv, Open, NoSweep
<1>18. CASE SweepRollback
  BY <1>18 DEF SweepRollback, Shape, TxInv, Open, NoSweep
<1>19. CASE Tick
  BY <1>19 DEF Tick, Shape, TxInv, Open
<1>20. CASE UNCHANGED vars
  BY <1>20 DEF vars, Shape, TxInv, Open
<1>21. "pending" \in Events
  BY DEF Events
<1> QED
  BY <1>1, <1>2, <1>3, <1>4, <1>5, <1>6, <1>7, <1>8, <1>9, <1>10, <1>11, <1>12, <1>13, <1>14,
     <1>15, <1>16, <1>17, <1>18, <1>19, <1>20, <1>21
  DEF Next, Begin, Step, Webhook, Refund, Cancel

-----------------------------------------------------------------------------
(* Bounded is inductive: every addition to a counter uses up a request.    *)

LEMMA PaidGrows ==
    ASSUME NEW n \in Nat
    PROVE  /\ Paid(n) \in Nat /\ Paid(n + 1) = Paid(n) + Duration
           /\ \A m \in Nat : m <= n => Paid(m) <= Paid(n)
<1> USE NumbersAssumption DEF Paid
<1>1. Duration * n \in Nat /\ Duration * (n + 1) = Duration * n + Duration
  OBVIOUS
<1>2. ASSUME NEW m \in Nat, m <= n PROVE Duration * m <= Duration * n
  <2>1. n - m \in Nat /\ Duration * (n - m) \in Nat
    BY <1>2
  <2>2. Duration * n = Duration * m + Duration * (n - m)
    OBVIOUS
  <2>3. Duration * m \in Nat
    OBVIOUS
  <2> QED BY <1>1, <2>1, <2>2, <2>3
<1>3. \A m \in Nat : Duration * m \in Nat
  OBVIOUS
<1> QED BY <1>1, <1>2, <1>3

LEMMA SpendingSize ==
    ASSUME Shape, IsFiniteSet(Spending), NEW t \in Requests, NEW r, Sets(t, r)
    PROVE  /\ IsFiniteSet(Spending)' /\ Spare \in Int
           /\ starts' = starts =>
                Spare' = IF tx[t].pc \in SpendingSteps /\ r.pc \notin SpendingSteps THEN Spare + 1
                         ELSE IF tx[t].pc \notin SpendingSteps /\ r.pc \in SpendingSteps
                         THEN Spare - 1
                         ELSE Spare
           /\ starts' = starts + 1 /\ tx[t].pc \notin SpendingSteps => Spare' \in {Spare, Spare + 1}
<1>0. Cardinality(Spending) \in Nat /\ starts \in Nat
  BY FS_CardinalityType DEF Shape
<1>1. \A u \in Requests : u \in Spending' <=> tx'[u].pc \in SpendingSteps
  BY DEF Spending
<1>2. CASE tx[t].pc \in SpendingSteps <=> r.pc \in SpendingSteps
  <2>1. Spending' = Spending
    BY <1>2 DEF Spending, Sets
  <2> QED BY <1>0, <1>2, <2>1 DEF Spare
<1>3. CASE tx[t].pc \notin SpendingSteps /\ r.pc \in SpendingSteps
  <2>1. Spending' = Spending \cup {t} /\ t \notin Spending
    BY <1>3 DEF Spending, Sets
  <2>2. IsFiniteSet(Spending') /\ Cardinality(Spending') = Cardinality(Spending) + 1
    BY <2>1, FS_AddElement
  <2> QED BY <1>0, <1>3, <2>2 DEF Spare
<1>4. CASE tx[t].pc \in SpendingSteps /\ r.pc \notin SpendingSteps
  <2>1. Spending' = Spending \ {t} /\ t \in Spending
    BY <1>4 DEF Spending, Sets
  <2>2. IsFiniteSet(Spending') /\ Cardinality(Spending') = Cardinality(Spending) - 1
    BY <2>1, FS_RemoveElement
  <2> QED BY <1>0, <1>4, <2>2 DEF Spare
<1> QED BY <1>2, <1>3, <1>4

(* A step that adds to no counter. *)
LEMMA BoundedStep ==
    ASSUME Shape, Bounded, NEW t \in Requests, NEW r, Sets(t, r),
           IsFiniteSet(Spending)', Spare' \in Int, Spare' >= Spare,
           UNCHANGED <<usedCount, redeemed, refunds, applied, since, now>>,
           \A p \in Payments : sub'[p].expires = sub[p].expires,
           r.count <= Spare' + 1,
           r.expires <= (IF r.payment \in Payments THEN Paid(applied[r.payment] + 1) ELSE 0),
           starts' <= MaxStarts, faults' <= MaxFaults
    PROVE  Bounded'
<1>1. Spare \in Int
  BY FS_CardinalityType DEF Spare, Shape, Bounded
<1>2. usedCount' <= Spare'
  BY <1>1 DEF Bounded, Shape
<1>3. \A p \in Payments : applied'[p] <= Spare' /\ redeemed'[p] <= Spare' /\ refunds'[p] <= Spare'
  BY <1>1 DEF Bounded, Shape
<1>4. \A u \in Requests : tx'[u].count <= Spare' + 1
  <2>1. \A u \in Requests : tx[u].count \in Nat
    BY DEF Shape, TxRecords
  <2> QED BY <1>1, <2>1 DEF Bounded, Sets
<1>5. \A p \in Payments : sub'[p].expires <= Paid(applied'[p]) /\ since'[p] <= MaxTime
  BY DEF Bounded, Paid
<1>6. \A u \in Requests : tx'[u].expires <= (IF tx'[u].payment \in Payments
                                             THEN Paid(applied'[tx'[u].payment] + 1) ELSE 0)
  BY DEF Bounded, Sets, Paid
<1> QED BY <1>2, <1>3, <1>4, <1>5, <1>6 DEF Bounded, Paid

LEMMA InitBounded == Init => Bounded
<1> SUFFICES ASSUME Init PROVE Bounded
  OBVIOUS
<1>1. Spending = {}
  BY DEF Init, Spending, NoTx, SpendingSteps
<1>2. IsFiniteSet(Spending) /\ Spare = 0
  BY <1>1, FS_EmptySet DEF Init, Spare
<1>3. \A p \in Payments : 0 <= Paid(applied[p])
  BY PaidGrows DEF Init
<1> QED BY <1>2, <1>3, NumbersAssumption, PaymentAssumption DEF Init, Bounded, NoTx

LEMMA BoundedNext ==
    ASSUME Shape, Shape', TxInv, Bounded, [Next]_vars
    PROVE  Bounded'
<1> USE NumbersAssumption DEF rows, history
<1>0. /\ IsFiniteSet(Spending) /\ Spare \in Nat
      /\ \A t \in Requests : tx[t] \in TxRecords /\ (Open(t) => tx[t].payment \in Payments)
  <2>1. Cardinality(Spending) \in Nat
    BY FS_CardinalityType DEF Bounded
  <2> QED BY <2>1 DEF Shape, TxInv, Spare, Bounded
<1>a. ASSUME NEW t \in Requests, Sets(t, NoTx), UNCHANGED <<usedCount, redeemed, refunds, applied>>,
             UNCHANGED <<since, now, starts>>, faults' <= MaxFaults,
             \A p \in Payments : sub'[p].expires = sub[p].expires
      PROVE Bounded'
  <2>1. IsFiniteSet(Spending)' /\ Spare' \in {Spare, Spare + 1}
    BY <1>0, <1>a, SpendingSize DEF NoTx, SpendingSteps
  <2>2. NoTx.count = 0 /\ NoTx.expires = 0 /\ NoTx.payment \notin Payments
    BY PaymentAssumption DEF NoTx
  <2>3. starts' <= MaxStarts
    BY <1>a DEF Bounded
  <2> QED BY <1>0, <1>a, <2>1, <2>2, <2>3, BoundedStep
(* A step of an open transaction that keeps what it has computed.          *)
<1>b. ASSUME NEW t \in Requests, NEW r, Sets(t, r), Open(t), r.payment = tx[t].payment,
             r.expires = tx[t].expires, r.count = tx[t].count \/ r.count = usedCount + 1,
             tx[t].pc \in SpendingSteps <=> r.pc \in SpendingSteps,
             UNCHANGED <<usedCount, redeemed, refunds, applied, since, now, starts, faults, sub>>
      PROVE Bounded'
  <2>1. IsFiniteSet(Spending)' /\ Spare' = Spare
    BY <1>0, <1>b, SpendingSize
  <2>2. r.count <= Spare' + 1
    BY <1>0, <1>b, <2>1 DEF Bounded, Shape
  <2>3. r.expires <= (IF r.payment \in Payments THEN Paid(applied[r.payment] + 1) ELSE 0)
    BY <1>b DEF Bounded
  <2>4. starts' <= MaxStarts /\ faults' <= MaxFaults
    BY <1>b DEF Bounded
  <2> QED BY <1>0, <1>b, <2>1, <2>2, <2>3, <2>4, BoundedStep
<1>1. ASSUME NEW t \in Requests, NEW p \in Payments, NEW b \in BOOLEAN, CreatePaymentCheck(t, p, b)
      PROVE Bounded'
  <2> DEFINE r == [NoTx EXCEPT !.pc = "intent", !.payment = p, !.promo = b]
  <2>1. Sets(t, r)
    BY <1>1, CheckSets
  <2>2. r.count = 0 /\ r.expires = 0 /\ r.payment = p /\ r.pc = "intent"
    BY DEF NoTx
  <2>3. IsFiniteSet(Spending)' /\ Spare' = Spare
    BY <1>0, <1>1, <2>1, <2>2, SpendingSize DEF CreatePaymentCheck, Open, SpendingSteps
  <2>4. 0 <= Paid(applied[p] + 1)
    BY PaidGrows DEF Shape
  <2>5. starts' <= MaxStarts /\ faults' <= MaxFaults
    BY <1>1 DEF Bounded, CreatePaymentCheck
  <2> HIDE DEF r
  <2> QED BY <1>0, <1>1, <2>1, <2>2, <2>3, <2>4, <2>5, BoundedStep DEF CreatePaymentCheck
<1>2. ASSUME NEW t \in Requests, NEW p \in Payments, NEW e \in Events, NEW s \in Steps,
             Start(t, p, s, e)
      PROVE Bounded'
  <2> DEFINE r == [NoTx EXCEPT !.pc = s, !.payment = p, !.event = e]
  <2>1. Sets(t, r)
    BY <1>2, StartSets
  <2>2. r.count = 0 /\ r.expires = 0 /\ r.payment = p
    BY DEF NoTx
  <2>3. IsFiniteSet(Spending)' /\ Spare' \in {Spare, Spare + 1}
    BY <1>0, <1>2, <2>1, SpendingSize DEF Start, Open, SpendingSteps
  <2>4. 0 <= Paid(applied[p] + 1)
    BY PaidGrows DEF Shape
  <2>5. starts' <= MaxStarts /\ faults' <= MaxFaults
    BY <1>2 DEF Bounded, Start, Shape
  <2> HIDE DEF r
  <2> QED BY <1>0, <1>2, <2>1, <2>2, <2>3, <2>4, <2>5, BoundedStep DEF Start
<1>3. ASSUME NEW t \in Requests, CreatePaymentIntent(t) PROVE Bounded'
  <2>1. Sets(t, [tx[t] EXCEPT !.pc = "create_commit"])
    BY <1>3, Advances DEF CreatePaymentIntent, Steps
  <2> QED BY <1>0, <1>3, <2>1, <1>b DEF CreatePaymentIntent, TxRecords, Open, SpendingSteps
<1>4. ASSUME NEW t \in Requests, CreatePaymentCommit(t) PROVE Bounded'
  <2>1. Sets(t, NoTx) /\ faults' <= MaxFaults
    BY <1>4, Ends DEF CreatePaymentCommit, Bounded
  <2>2. \A p \in Payments : sub'[p].expires = sub[p].expires
    BY <1>4 DEF CreatePaymentCommit, Shape
  <2> QED BY <1>4, <2>1, <2>2, <1>a DEF CreatePaymentCommit
<1>5. ASSUME NEW t \in Requests, WebhookReadPayment(t) PROVE Bounded'
  <2> DEFINE s == pay[tx[t].payment].status
             r == [tx[t] EXCEPT !.status = s, !.promo = pay[tx[t].payment].promo,
                                !.pc = IF tx[t].event = "succeeded" THEN "subscription"
                                                                    ELSE "commit"]
  <2>1. CASE Sets(t, NoTx)
    BY <1>5, <2>1, <1>a DEF WebhookReadPayment, Bounded
  <2>2. CASE Sets(t, r)
    BY <1>0, <1>5, <2>2, <1>b DEF WebhookReadPayment, TxRecords, Open, SpendingSteps
  <2> QED BY <1>5, <2>1, <2>2, ReadPaymentSets
<1>6. ASSUME NEW t \in Requests, WebhookActivate(t) PROVE Bounded'
  <2> DEFINE p == tx[t].payment
             s == sub[p]
             r == [tx[t] EXCEPT !.seen = s.status, !.expires = ActivateBase(s) + Duration,
                                !.pc = IF tx[t].promo THEN "promo" ELSE "commit"]
  <2>1. p \in Payments /\ Sets(t, r) /\ ActivateBase(s) \in Nat
    BY <1>6, ActivateSets
  <2>2. r.count = tx[t].count /\ r.payment = p /\ r.expires = ActivateBase(s) + Duration
        /\ r.pc \in SpendingSteps
    BY <1>0 DEF TxRecords, SpendingSteps
  <2>3. IsFiniteSet(Spending)' /\ Spare' = Spare
    BY <1>0, <1>6, <2>1, <2>2, SpendingSize DEF WebhookActivate, SpendingSteps
  <2>4. ActivateBase(s) <= Paid(applied[p])
    <3>1. applied[p] \in Nat /\ sub[p].expires \in Nat /\ sub[p].expires <= Paid(applied[p])
      BY <2>1 DEF Bounded, Shape
    <3>2. MaxTime <= Paid(applied[p]) /\ now <= MaxTime /\ now \in Nat
      BY <3>1 DEF Paid, Bounded, Shape
    <3>3. Paid(applied[p]) \in Nat
      BY <3>1, PaidGrows
    <3>4. ActivateBase(s) = sub[p].expires \/ ActivateBase(s) = now
      BY DEF ActivateBase
    <3> QED BY <3>1, <3>2, <3>3, <3>4, NumbersAssumption
  <2>5. r.expires <= Paid(applied[p] + 1)
    BY <2>1, <2>2, <2>4, PaidGrows DEF Shape
  <2>6. r.count <= Spare' + 1 /\ starts' <= MaxStarts /\ faults' <= MaxFaults
    BY <1>6, <2>2, <2>3 DEF Bounded, WebhookActivate
  <2> HIDE DEF r
  <2> QED BY <1>0, <1>6, <2>1, <2>2, <2>3, <2>5, <2>6, BoundedStep DEF WebhookActivate
<1>7. ASSUME NEW t \in Requests, WebhookReadPromo(t) PROVE Bounded'
  BY <1>0, <1>7, ReadPromoSets, <1>b DEF WebhookReadPromo, TxRecords, Open, SpendingSteps
<1>8. ASSUME NEW t \in Requests, WebhookCommit(t) PROVE Bounded'
  <2> DEFINE p == tx[t].payment
  <2>1. p \in Payments /\ Sets(t, NoTx) /\ tx[t] \in TxRecords
    BY <1>0, <1>8, Ends DEF WebhookCommit, Open
  <2>2. IsFiniteSet(Spending)' /\ Spare' = Spare + 1
    BY <1>0, <1>8, <2>1, SpendingSize DEF WebhookCommit, NoTx, SpendingSteps
  <2>3. CASE tx[t].event = "succeeded" /\ CommitSuccess(t)
    <3>1. applied'[p] = applied[p] + 1 /\ \A q \in Payments \ {p} : applied'[q] = applied[q]
      BY <2>1, <2>3 DEF CommitSuccess, Shape
    <3>2. /\ sub'[p].expires = tx[t].expires
          /\ \A q \in Payments \ {p} : sub'[q].expires = sub[q].expires
      BY <2>1, <2>3 DEF CommitSuccess, Shape
    <3>3. usedCount' <= Spare'
      BY <1>0, <2>1, <2>2, <2>3 DEF CommitSuccess, Bounded, Shape, TxRecords
    <3>4. \A q \in Payments : applied'[q] <= Spare' /\ redeemed'[q] <= Spare'
                                 /\ refunds'[q] <= Spare'
      BY <1>0, <1>8, <2>1, <2>2, <2>3, <3>1 DEF CommitSuccess, Bounded, Shape, WebhookCommit
    <3>5. \A u \in Requests : tx'[u].count <= Spare' + 1
      BY <1>0, <2>1, <2>2 DEF Bounded, Sets, NoTx, TxRecords
    <3>6. tx[t].expires <= Paid(applied[p] + 1) /\ tx[t].expires >= Duration
      BY <1>8, <2>1, <2>3 DEF Bounded, WebhookCommit, TxInv
    <3>7. \A q \in Payments : sub'[q].expires <= Paid(applied'[q])
      BY <3>1, <3>2, <3>6 DEF Bounded, Paid
    <3>8. \A q \in Payments : since'[q] <= MaxTime
      <4>1. applied[p] = 0 => tx[t].expires - Duration <= MaxTime
        BY <2>1, <3>6, PaidGrows DEF Paid, TxRecords
      <4> QED BY <2>1, <2>3, <4>1 DEF CommitSuccess, Bounded, Shape
    <3>9. \A q \in Payments : /\ Paid(applied[q] + 1) <= Paid(applied'[q] + 1)
                              /\ Paid(applied[q] + 1) \in Nat /\ Paid(applied'[q] + 1) \in Nat
      <4> TAKE q \in Payments
      <4>1. applied[q] \in Nat /\ applied'[q] \in {applied[q], applied[q] + 1}
        BY <3>1 DEF Shape
      <4>2. applied[q] + 1 \in Nat /\ applied'[q] + 1 \in Nat /\ applied[q] + 1 <= applied'[q] + 1
        BY <4>1
      <4> QED BY <4>2, PaidGrows
    <3>10. \A u \in Requests : tx'[u].expires <= (IF tx'[u].payment \in Payments
                                              THEN Paid(applied'[tx'[u].payment] + 1) ELSE 0)
      <4> TAKE u \in Requests
      <4>1. CASE u = t
        BY <2>1, <4>1, PaymentAssumption DEF Sets, NoTx
      <4>2. CASE u # t
        <5>1. tx'[u] = tx[u] /\ tx[u].expires \in Nat
          BY <1>0, <2>1, <4>2 DEF Sets, TxRecords
        <5>2. tx[u].expires <= (IF tx[u].payment \in Payments
                                THEN Paid(applied[tx[u].payment] + 1) ELSE 0)
          BY DEF Bounded
        <5> QED BY <3>9, <5>1, <5>2
      <4> QED BY <4>1, <4>2
    <3>11. now' <= MaxTime /\ starts' <= MaxStarts /\ faults' <= MaxFaults
      BY <1>8 DEF WebhookCommit, Bounded
    <3> QED BY <2>2, <3>3, <3>4, <3>5, <3>7, <3>8, <3>10, <3>11 DEF Bounded, Paid
  <2>4. CASE tx[t].event # "succeeded"
    <3>1. UNCHANGED <<usedCount, redeemed, refunds, applied, since, now, starts, faults, sub>>
      BY <1>8, <2>4 DEF WebhookCommit, CommitFailure
    <3> QED BY <2>1, <3>1, <1>a DEF Bounded
  <2> QED BY <1>8, <2>3, <2>4 DEF WebhookCommit
<1>9. ASSUME NEW t \in Requests, RefundRead(t) PROVE Bounded'
  <2>1. CASE Sets(t, NoTx)
    BY <1>9, <2>1, <1>a DEF RefundRead, Bounded
  <2>2. CASE Sets(t, [tx[t] EXCEPT !.pc = "refund_provider"])
    BY <1>0, <1>9, <2>2, <1>b DEF RefundRead, TxRecords, Open, SpendingSteps
  <2>3. "refund_provider" \in Steps
    BY DEF Steps
  <2> QED BY <1>9, <2>1, <2>2, <2>3, Advances, Ends DEF RefundRead
<1>10. ASSUME NEW t \in Requests, RefundProvider(t) PROVE Bounded'
  <2> DEFINE p == tx[t].payment
             r == [tx[t] EXCEPT !.pc = "refund_commit"]
  <2>1. p \in Payments /\ tx[t] \in TxRecords /\ "refund_commit" \in Steps
    BY <1>0, <1>10 DEF RefundProvider, Open, Steps
  <2>2. CASE UNCHANGED refunds /\ End(t)
    BY <1>10, <2>2, <1>a, Ends DEF RefundProvider, Bounded
  <2>3. CASE refunds' = [refunds EXCEPT ![p] = refunds[p] + 1] /\ Advance(t, "refund_commit")
    <3>1. Sets(t, r)
      BY <2>1, <2>3, Advances
    <3>2. /\ r.pc = "refund_commit" /\ r.payment = p
          /\ r.expires = tx[t].expires /\ r.count = tx[t].count
      BY <2>1 DEF TxRecords
    <3>3. IsFiniteSet(Spending)' /\ Spare' = Spare + 1
      BY <1>0, <1>10, <3>1, <3>2, SpendingSize DEF RefundProvider, SpendingSteps
    <3>4. usedCount' <= Spare' /\ now' <= MaxTime /\ starts' <= MaxStarts /\ faults' <= MaxFaults
      BY <1>0, <1>10, <3>3 DEF RefundProvider, Bounded, Shape
    <3>5. \A q \in Payments : applied'[q] <= Spare' /\ redeemed'[q] <= Spare'
                                 /\ refunds'[q] <= Spare'
      BY <1>0, <1>10, <2>1, <2>3, <3>3 DEF RefundProvider, Bounded, Shape
    <3>6. \A u \in Requests : /\ tx'[u].count = tx[u].count /\ tx'[u].expires = tx[u].expires
                              /\ tx'[u].payment = tx[u].payment
      BY <3>1, <3>2 DEF Sets
    <3>7. \A u \in Requests : tx'[u].count <= Spare' + 1
      BY <1>0, <3>3, <3>6 DEF Bounded, TxRecords
    <3>8. UNCHANGED <<sub, applied, since>>
      BY <1>10 DEF RefundProvider
    <3> QED BY <3>3, <3>4, <3>5, <3>6, <3>7, <3>8 DEF Bounded, Paid
  <2> QED BY <1>10, <2>2, <2>3 DEF RefundProvider
<1>11. ASSUME NEW t \in Requests, RefundCommit(t) PROVE Bounded'
  BY <1>11, <1>a, Ends DEF RefundCommit, Bounded
<1>12. ASSUME NEW t \in Requests, CancelRead(t) PROVE Bounded'
  BY <1>0, <1>12, <1>b, CancelReadSets DEF CancelRead, TxRecords, Open, SpendingSteps
<1>13. ASSUME NEW t \in Requests, CancelCommit(t) PROVE Bounded'
  <2>1. \A p \in Payments : sub'[p].expires = sub[p].expires
    BY <1>13 DEF CancelCommit, Shape
  <2> QED BY <1>13, <2>1, <1>a, Ends DEF CancelCommit, Bounded
<1>14. ASSUME NEW t \in Requests, Rollback(t) PROVE Bounded'
  <2>1. faults' <= MaxFaults
    BY <1>14 DEF Rollback, Shape
  <2> QED BY <1>14, <2>1, <1>a, Ends DEF Rollback
<1>15. ASSUME UNCHANGED <<usedCount, redeemed, refunds, applied, since, tx, starts>>,
              \A p \in Payments : sub'[p].expires = sub[p].expires,
              now' <= MaxTime, faults' <= MaxFaults
       PROVE Bounded'
  <2>1. Spending' = Spending /\ Spare' = Spare
    BY <1>15 DEF Spending, Spare
  <2> QED BY <1>15, <2>1 DEF Bounded, Paid
<1>16. ASSUME NEW p \in Payments, NEW e \in {"succeeded", "failed"}, ProviderReports(p, e)
       PROVE Bounded'
  BY <1>15, <1>16 DEF ProviderReports, Bounded
<1>17. CASE SweepList
  BY <1>15, <1>17 DEF SweepList, Bounded
<1>18. CASE SweepCommit
  <2>1. \A p \in Payments : sub'[p].expires = sub[p].expires
    BY <1>18 DEF SweepCommit, Shape
  <2> QED BY <1>15, <1>18, <2>1 DEF SweepCommit, Bounded
<1>19. CASE SweepRollback
  <2>1. faults' <= MaxFaults
    BY <1>19 DEF SweepRollback, Shape
  <2> QED BY <1>15, <1>19, <2>1 DEF SweepRollback, Bounded
<1>20. CASE Tick
  <2>1. now' <= MaxTime
    BY <1>20 DEF Tick, Shape
  <2> QED BY <1>15, <1>20, <2>1 DEF Tick, Bounded
<1>21. CASE UNCHANGED vars
  BY <1>15, <1>21 DEF vars, Bounded
<1>22. "pending" \in Events /\ {"payment", "refund_read", "cancel_read"} \subseteq Steps
  BY DEF Events, Steps
<1> QED
  BY <1>1, <1>2, <1>3, <1>4, <1>5, <1>6, <1>7, <1>8, <1>9, <1>10, <1>11, <1>12, <1>13, <1>14,
     <1>16, <1>17, <1>18, <1>19, <1>20, <1>21, <1>22
  DEF Next, Begin, Step, Webhook, Refund, Cancel

-----------------------------------------------------------------------------
(* LedgerInv is inductive. *)

(* The rows and the history of a payment. *)
RowsKept(p) == /\ pay'[p] = pay[p] /\ sub'[p] = sub[p] /\ redeemed'[p] = redeemed[p]
               /\ refunds'[p] = refunds[p] /\ applied'[p] = applied[p] /\ since'[p] = since[p]

CreateSteps == {"intent", "create_commit"}
RowSteps    == {"subscription", "promo", "commit", "refund_provider", "refund_commit"}

(* Of two requests about an undisturbed payment one creates it, and the    *)
(* other one has not found it.                                             *)
LEMMA Beside ==
    ASSUME LedgerInv, NEW t \in Requests, tx[t].payment \in Payments \ disturbed,
           NEW u \in On(tx[t].payment) \ {t}
    PROVE  /\ ~(Creating(u) <=> Creating(t))
           /\ pay[tx[t].payment].status = "none"
           /\ tx[u].pc \notin RowSteps /\ tx[t].pc \notin RowSteps
<1>1. Progress(t) /\ Progress(u) /\ u \in Requests /\ tx[u].payment = tx[t].payment
  BY DEF LedgerInv, On
<1>2. t \in On(tx[t].payment) /\ t # u
  BY DEF On
<1>3. ~(Creating(u) <=> Creating(t))
  BY <1>1, <1>2 DEF Progress, Asking
<1>4. pay[tx[t].payment].status = "none"
  BY <1>1, <1>3 DEF Progress
<1> QED BY <1>1, <1>3, <1>4 DEF Progress, RowSteps, Creating

LEMMA Alone ==
    ASSUME LedgerInv, NEW t \in Requests, tx[t].payment \in Payments \ disturbed,
           tx[t].pc \in RowSteps
    PROVE  On(tx[t].payment) = {t}
  BY Beside DEF On

(* A step of one transaction about one payment is a matter of these two.   *)
LEMMA LedgerStep ==
    ASSUME Shape, LedgerInv, NEW t \in Requests, NEW r, Sets(t, r), NEW p \in Payments,
           tx[t].payment \in {p, NoPayment}, r.payment \in {p, NoPayment},
           disturbed \subseteq disturbed', UNCHANGED <<sweep, now>>,
           \A q \in Payments \ {p} : RowsKept(q),
           p \notin disturbed' => \A u \in On(p) \ {t} :
               /\ r.payment = p => ~(Creating(u) <=> r.pc \in CreateSteps)
               /\ Creating(u) => pay'[p].status = "none"
               /\ tx[u].pc \notin RowSteps,
           p \notin disturbed' => Ledger(p)',
           p \notin disturbed' /\ r.payment = p =>
               /\ r.pc \in CreateSteps => pay'[p].status = "none"
               /\ r.pc \in {"subscription", "promo", "commit"} =>
                    /\ pay'[p].status \in {"pending", "failed"}
                    /\ r.promo <=> pay'[p].promo
               /\ r.pc = "refund_provider" => pay'[p].status = "succeeded" /\ refunds'[p] = 0
               /\ r.pc = "refund_commit" => pay'[p].status = "succeeded" /\ refunds'[p] = 1
    PROVE  LedgerInv'
<1> USE PaymentAssumption
<1>1. ASSUME NEW q \in Payments \ disturbed', q # p PROVE Ledger(q)'
  <2>1. Ledger(q)
    BY <1>1 DEF LedgerInv
  <2>2. \A u \in On(q) : u \in On(q)' /\ tx'[u] = tx[u]
    BY <1>1 DEF On, Sets
  <2> QED BY <1>1, <2>1, <2>2 DEF Ledger, RowsKept
<1>2. ASSUME NEW u \in Requests, tx'[u].payment \in Payments \ disturbed', tx'[u].payment # p
      PROVE Progress(u)'
  <2>1. u # t /\ tx'[u] = tx[u]
    BY <1>2 DEF Sets
  <2>2. Progress(u)
    BY <1>2, <2>1 DEF LedgerInv
  <2>3. /\ On(tx[u].payment)' = On(tx[u].payment)
        /\ \A v \in On(tx[u].payment) : Creating(v)' <=> Creating(v)
    BY <1>2, <2>1 DEF On, Sets, Creating
  <2> QED BY <1>2, <2>1, <2>2, <2>3 DEF Progress, RowsKept, Asking, Creating
<1>3. ASSUME NEW u \in Requests, tx'[u].payment = p, p \notin disturbed' PROVE Progress(u)'
  <2>1. \A v \in Requests \ {t} : tx'[v] = tx[v] /\ (Creating(v)' <=> Creating(v))
    BY DEF Sets, Creating
  <2>2. tx'[t] = r /\ (Creating(t)' <=> r.pc \in CreateSteps)
    BY DEF Sets, Creating, CreateSteps
  <2>3. \A v \in On(p)' : v \in Requests /\ (v = t \/ v \in On(p) \ {t})
    BY <2>1 DEF On
  <2>4. CASE u = t
    <3>1. r.payment = p
      BY <1>3, <2>2, <2>4
    <3>2. t \in On(p)'
      BY <1>3, <2>4 DEF On
    <3>3. \A v \in On(p)' \ {t} : ~(Creating(v)' <=> r.pc \in CreateSteps)
      BY <1>3, <2>1, <2>3, <3>1
    <3> QED BY <1>3, <2>2, <2>4, <3>1, <3>2, <3>3 DEF Progress, Asking
  <2>5. CASE u # t
    <3>1. u \in On(p) \ {t} /\ tx'[u] = tx[u] /\ (Creating(u)' <=> Creating(u))
      BY <1>3, <2>1, <2>5 DEF On
    <3>2. tx[u].payment = p /\ p \notin disturbed
      BY <1>3, <3>1 DEF On
    <3>3. Progress(u)
      BY <3>2 DEF LedgerInv
    <3>4. t \in On(p)' => r.payment = p
      BY <2>2 DEF On
    <3>5. u \in On(p)'
      BY <1>3 DEF On
    <3>6. ~Creating(u)' => Asking(p)' = {u}
      BY <1>3, <2>1, <2>2, <2>3, <3>1, <3>2, <3>3, <3>4, <3>5 DEF Progress, Asking
    <3>7. Creating(u)' => pay'[p].status = "none" /\ \A v \in On(p)' : Creating(v)' => v = u
      BY <1>3, <2>1, <2>2, <2>3, <3>1, <3>2, <3>3, <3>4 DEF Progress
    <3> QED BY <1>3, <3>1, <3>2, <3>6, <3>7 DEF Progress, RowSteps
  <2> QED BY <2>4, <2>5
<1> QED BY <1>1, <1>2, <1>3 DEF LedgerInv

(* The ledger is not touched where the rows are not, unless a refund that  *)
(* the provider has made ends.                                             *)
LEMMA LedgerKept ==
    ASSUME NEW t \in Requests, NEW r, Sets(t, r), NEW p \in Payments, Ledger(p), RowsKept(p),
           UNCHANGED <<sweep, now>>,
           tx[t].pc # "refund_commit" \/ tx[t].payment # p
    PROVE  Ledger(p)'
<1>1. \A u \in On(p) : tx[u].pc = "refund_commit" => u \in On(p)' /\ tx'[u].pc = "refund_commit"
  BY DEF On, Sets
<1> QED BY <1>1 DEF Ledger, RowsKept

LEMMA LedgerNext ==
    ASSUME Shape, Shape', TxInv, LedgerInv, [Next]_vars
    PROVE  LedgerInv'
PROOF
<1> USE NumbersAssumption, PaymentAssumption DEF rows, history
<1>0. \A t \in Requests : tx[t] \in TxRecords /\ (Open(t) <=> tx[t].payment \in Payments)
  BY DEF Shape, TxInv
<1>n. NoTx.payment = NoPayment /\ NoTx.pc = "none"
  BY DEF NoTx
(* A transaction that reads and goes on. *)
<1>a. ASSUME NEW t \in Requests, Open(t), tx[t].pc # "refund_commit", NEW r, Sets(t, r),
             r.payment \in {tx[t].payment, NoPayment}, disturbed' = disturbed,
             UNCHANGED <<rows, refunds, applied, since, sweep, now>>,
             tx[t].payment \notin disturbed /\ r.payment = tx[t].payment =>
               /\ Creating(t) <=> r.pc \in CreateSteps
               /\ r.pc \in CreateSteps => pay[r.payment].status = "none"
               /\ r.pc \in {"subscription", "promo", "commit"} =>
                    /\ pay[r.payment].status \in {"pending", "failed"}
                    /\ r.promo <=> pay[r.payment].promo
               /\ r.pc = "refund_provider" => pay[r.payment].status = "succeeded"
                                              /\ refunds[r.payment] = 0
               /\ r.pc # "refund_commit"
      PROVE LedgerInv'
  <2>p. PICK p \in Payments : p = tx[t].payment
    BY <1>0, <1>a
  <2> USE <2>p
  <2>1. p \in Payments
    BY <1>0, <1>a
  <2>2. \A q \in Payments : RowsKept(q)
    BY <1>a DEF RowsKept
  <2>3. p \notin disturbed => Ledger(p)'
    BY <1>a, <2>1, <2>2, LedgerKept DEF LedgerInv
  <2>4. p \notin disturbed => \A u \in On(p) \ {t} :
               /\ ~(Creating(u) <=> Creating(t)) /\ pay[p].status = "none"
               /\ tx[u].pc \notin RowSteps
    BY <2>1, Beside
  <2>5. pay' = pay
    BY <1>a
  <2> QED BY <1>a, <2>1, <2>2, <2>3, <2>4, <2>5, LedgerStep
(* A transaction that ends without having changed the rows. *)
<1>b. ASSUME NEW t \in Requests, Open(t), Sets(t, NoTx),
             UNCHANGED <<rows, refunds, applied, since, sweep, now>>,
             disturbed' = IF tx[t].pc = "refund_commit" THEN disturbed \cup {tx[t].payment}
                                                        ELSE disturbed
      PROVE LedgerInv'
  <2>p. PICK p \in Payments : p = tx[t].payment
    BY <1>0, <1>b
  <2> USE <2>p
  <2>1. p \in Payments
    BY <1>0, <1>b
  <2>2. \A q \in Payments : RowsKept(q)
    BY <1>b DEF RowsKept
  <2>3. p \notin disturbed' => p \notin disturbed /\ tx[t].pc # "refund_commit"
    BY <1>b
  <2>4. p \notin disturbed' => Ledger(p)'
    BY <1>b, <2>1, <2>2, <2>3, LedgerKept DEF LedgerInv
  <2>5. disturbed \subseteq disturbed' /\ NoTx.payment # p
    BY <1>b, <1>n, <2>1
  <2>6. p \notin disturbed => \A u \in On(p) \ {t} :
               pay[p].status = "none" /\ tx[u].pc \notin RowSteps
    BY <2>1, Beside
  <2> QED BY <1>b, <1>n, <2>1, <2>2, <2>3, <2>4, <2>5, <2>6, LedgerStep
<1>1. ASSUME NEW t \in Requests, NEW p \in Payments, NEW b \in BOOLEAN, CreatePaymentCheck(t, p, b)
      PROVE LedgerInv'
  <2> DEFINE r == [NoTx EXCEPT !.pc = "intent", !.payment = p, !.promo = b]
  <2>1. Sets(t, r) /\ r.payment = p /\ r.pc = "intent"
    BY <1>1, CheckSets DEF NoTx
  <2>2. \A q \in Payments : RowsKept(q)
    BY <1>1 DEF RowsKept, CreatePaymentCheck
  <2>3. tx[t].payment = NoPayment
    BY <1>0, <1>1 DEF CreatePaymentCheck, TxRecords
  <2>4. p \notin disturbed => Ledger(p)'
    BY <1>1, <2>1, <2>2, <2>3, LedgerKept DEF LedgerInv, CreatePaymentCheck
  <2> HIDE DEF r
  <2> QED BY <1>1, <2>1, <2>2, <2>3, <2>4, LedgerStep DEF CreatePaymentCheck
<1>2. ASSUME NEW t \in Requests, NEW p \in Payments, NEW e \in Events,
             NEW s \in {"payment", "refund_read", "cancel_read"}, Start(t, p, s, e)
      PROVE LedgerInv'
  <2> DEFINE r == [NoTx EXCEPT !.pc = s, !.payment = p, !.event = e]
  <2>0. s \in Steps
    BY DEF Steps
  <2>1. Sets(t, r) /\ r.payment = p /\ r.pc = s
    BY <1>2, <2>0, StartSets DEF NoTx
  <2>2. \A q \in Payments : RowsKept(q)
    BY <1>2 DEF RowsKept, Start
  <2>3. tx[t].payment = NoPayment
    BY <1>0, <1>2 DEF Start, TxRecords
  <2>4. disturbed \subseteq disturbed' /\ (p \notin disturbed' => Asking(p) = {})
    BY <1>2 DEF Start
  <2>6. p \notin disturbed' => \A u \in On(p) :
             Creating(u) /\ pay[p].status = "none" /\ tx[u].pc \notin RowSteps
    <3> SUFFICES ASSUME p \notin disturbed', NEW u \in On(p)
                 PROVE  Creating(u) /\ pay[p].status = "none" /\ tx[u].pc \notin RowSteps
      OBVIOUS
    <3>1. Creating(u) /\ u \in Requests /\ tx[u].payment = p
      BY <2>4 DEF On, Asking
    <3>2. Progress(u)
      BY <2>4, <3>1 DEF LedgerInv
    <3> QED BY <3>1, <3>2 DEF Progress, Creating, RowSteps
  <2>7. r.pc \notin CreateSteps /\ r.pc \notin RowSteps /\ pay' = pay
    BY <1>2, <2>1 DEF CreateSteps, RowSteps, Start
  <2>5. p \notin disturbed' => Ledger(p)'
    BY <1>2, <2>1, <2>2, <2>3, <2>4, LedgerKept DEF LedgerInv, Start
  <2> HIDE DEF r
  <2> QED BY <1>2, <2>1, <2>2, <2>3, <2>4, <2>5, <2>6, <2>7, LedgerStep DEF Start
<1>3. ASSUME NEW t \in Requests, CreatePaymentIntent(t) PROVE LedgerInv'
  <2>1. Sets(t, [tx[t] EXCEPT !.pc = "create_commit"])
    BY <1>3, Advances DEF CreatePaymentIntent, Steps
  <2>2. tx[t].payment \in Payments \ disturbed => pay[tx[t].payment].status = "none"
    BY <1>3 DEF CreatePaymentIntent, LedgerInv, Progress, Creating
  <2> QED BY <1>0, <1>3, <2>1, <2>2, <1>a
          DEF CreatePaymentIntent, TxRecords, Open, Creating, CreateSteps
<1>4. ASSUME NEW t \in Requests, CreatePaymentCommit(t) PROVE LedgerInv'
  <2>p. PICK p \in Payments : p = tx[t].payment
    BY <1>0, <1>4 DEF CreatePaymentCommit, Open
  <2> USE <2>p
  <2>1. p \in Payments /\ Sets(t, NoTx)
    BY <1>0, <1>4, Ends DEF CreatePaymentCommit, Open
  <2>2. \A q \in Payments \ {p} : RowsKept(q)
    BY <1>4 DEF RowsKept, CreatePaymentCommit, Shape
  <2>3. p \notin disturbed =>
             /\ pay[p].status = "none" /\ Ledger(p)
             /\ \A u \in On(p) \ {t} : ~Creating(u) /\ tx[u].pc \notin RowSteps
    BY <1>4, <2>1, Beside DEF CreatePaymentCommit, LedgerInv, Progress, Creating
  <2>4. p \notin disturbed => Ledger(p)'
    BY <1>4, <2>1, <2>3 DEF Ledger, CreatePaymentCommit, Terminal, On, Shape, RowSteps
  <2>5. disturbed' = disturbed /\ UNCHANGED <<sweep, now>>
    BY <1>4 DEF CreatePaymentCommit
  <2> QED BY <1>n, <2>1, <2>2, <2>3, <2>4, <2>5, LedgerStep
<1>5. ASSUME NEW t \in Requests, WebhookReadPayment(t) PROVE LedgerInv'
  <2> DEFINE s == pay[tx[t].payment].status
             r == [tx[t] EXCEPT !.status = s, !.promo = pay[tx[t].payment].promo,
                                !.pc = IF tx[t].event = "succeeded" THEN "subscription"
                                                                    ELSE "commit"]
  <2>1. CASE Sets(t, NoTx)
    BY <1>5, <1>n, <2>1, <1>b DEF WebhookReadPayment, Open
  <2>2. CASE s \notin {"none"} \cup Terminal /\ Sets(t, r)
    <3>1. tx[t].payment \in Payments /\ Open(t)
      BY <1>0, <1>5 DEF WebhookReadPayment, Open
    <3>2. s \in {"pending", "failed"}
      BY <2>2, <3>1 DEF Shape, PayStatus, Terminal
    <3>3. /\ r.payment = tx[t].payment /\ r.promo = pay[tx[t].payment].promo
          /\ r.pc \in {"subscription", "commit"}
      BY <1>0 DEF TxRecords
    <3>4. ~Creating(t) /\ r.pc \notin CreateSteps
      BY <1>5, <3>3 DEF WebhookReadPayment, Creating, CreateSteps
    <3> HIDE DEF r
    <3> QED BY <1>5, <2>2, <3>1, <3>2, <3>3, <3>4, <1>a DEF WebhookReadPayment
  <2> QED BY <1>5, <2>1, <2>2, ReadPaymentSets
<1>6. ASSUME NEW t \in Requests, WebhookActivate(t) PROVE LedgerInv'
  <2> DEFINE p == tx[t].payment
             s == sub[p]
             r == [tx[t] EXCEPT !.seen = s.status, !.expires = ActivateBase(s) + Duration,
                                !.pc = IF tx[t].promo THEN "promo" ELSE "commit"]
  <2>1. p \in Payments /\ Sets(t, r)
    BY <1>6, ActivateSets
  <2>2. r.payment = p /\ r.promo = tx[t].promo /\ r.pc \in {"promo", "commit"}
    BY <1>0 DEF TxRecords
  <2>3. p \notin disturbed => Progress(t)
    BY <2>1 DEF LedgerInv
  <2> HIDE DEF r
  <2> QED BY <1>6, <2>1, <2>2, <2>3, <1>a DEF WebhookActivate, Progress, Open, Creating, CreateSteps
<1>7. ASSUME NEW t \in Requests, WebhookReadPromo(t) PROVE LedgerInv'
  <2> DEFINE r == [tx[t] EXCEPT !.count = usedCount + 1, !.pc = "commit"]
  <2>1. tx[t].payment \in Payments /\ Sets(t, r)
    BY <1>0, <1>7, ReadPromoSets DEF WebhookReadPromo, Open
  <2>2. r.payment = tx[t].payment /\ r.promo = tx[t].promo /\ r.pc = "commit"
    BY <1>0 DEF TxRecords
  <2>3. tx[t].payment \notin disturbed => Progress(t)
    BY <2>1 DEF LedgerInv
  <2> HIDE DEF r
  <2> QED BY <1>7, <2>1, <2>2, <2>3, <1>a DEF WebhookReadPromo, Progress, Open, Creating, CreateSteps
<1>8. ASSUME NEW t \in Requests, WebhookCommit(t) PROVE LedgerInv'
  <2>p. PICK p \in Payments : p = tx[t].payment
    BY <1>0, <1>8 DEF WebhookCommit, Open
  <2> USE <2>p
  <2>1. p \in Payments /\ Sets(t, NoTx) /\ tx[t] \in TxRecords
    BY <1>0, <1>8, Ends DEF WebhookCommit, Open
  <2>2. p \notin disturbed => Ledger(p) /\ Progress(t)
    BY <2>1 DEF LedgerInv
  <2>3. p \notin disturbed => /\ On(p) = {t} /\ pay[p].status \in {"pending", "failed"}
                              /\ (tx[t].promo <=> pay[p].promo)
                              /\ applied[p] = 0 /\ redeemed[p] = 0 /\ refunds[p] = 0
                              /\ sub[p].expires = 0 /\ sub[p].status # "expired"
                              /\ p \notin sweep.subs
    <3>1. p \notin disturbed => /\ On(p) = {t} /\ pay[p].status \in {"pending", "failed"}
                                /\ (tx[t].promo <=> pay[p].promo)
      BY <1>8, <2>1, <2>2, Alone DEF Progress, WebhookCommit, RowSteps
    <3> QED BY <1>8, <2>2, <3>1 DEF Ledger, WebhookCommit, Terminal, On
  <2>4. UNCHANGED <<sweep, now, refunds, disturbed>>
    BY <1>8 DEF WebhookCommit
  <2>5. CASE tx[t].event = "succeeded" /\ CommitSuccess(t)
    <3>1. \A q \in Payments \ {p} : RowsKept(q)
      BY <2>1, <2>4, <2>5 DEF RowsKept, CommitSuccess, Shape
    <3>2. /\ pay'[p].status = "succeeded" /\ (pay'[p].promo <=> pay[p].promo)
          /\ applied'[p] = applied[p] + 1
          /\ sub'[p].expires = tx[t].expires /\ sub'[p].status \in {sub[p].status, "active"}
          /\ redeemed'[p] = IF tx[t].promo THEN redeemed[p] + 1 ELSE redeemed[p]
          /\ since'[p] = IF applied[p] = 0 THEN tx[t].expires - Duration ELSE since[p]
      BY <2>1, <2>5 DEF CommitSuccess, Shape
    <3>3. tx[t].expires \in Nat
      BY <2>1 DEF TxRecords
    <3>4. p \notin disturbed => Ledger(p)'
      BY <2>3, <2>4, <3>2, <3>3 DEF Ledger, Terminal
    <3> QED BY <1>n, <2>1, <2>3, <2>4, <3>1, <3>4, LedgerStep
  <2>6. CASE tx[t].event # "succeeded"
    <3>1. UNCHANGED <<sub, redeemed, applied, since>>
      BY <1>8, <2>6 DEF WebhookCommit, CommitFailure
    <3>2. /\ \A q \in Payments \ {p} : pay'[q] = pay[q]
          /\ pay'[p].status \in {pay[p].status, "failed"} /\ (pay'[p].promo <=> pay[p].promo)
      <4>1. CASE pay' = pay
        BY <4>1 DEF Shape
      <4>2. CASE pay' = [pay EXCEPT ![p].status = "failed"]
        BY <4>2 DEF Shape
      <4> QED BY <1>8, <2>6, <4>1, <4>2 DEF WebhookCommit, CommitFailure
    <3>3. \A q \in Payments \ {p} : RowsKept(q)
      BY <2>4, <3>1, <3>2 DEF RowsKept
    <3>4. p \notin disturbed => Ledger(p)'
      BY <2>3, <2>4, <3>1, <3>2 DEF Ledger, Terminal
    <3> QED BY <1>n, <2>1, <2>3, <2>4, <3>3, <3>4, LedgerStep
  <2> QED BY <1>8, <2>5, <2>6 DEF WebhookCommit
<1>9. ASSUME NEW t \in Requests, RefundRead(t) PROVE LedgerInv'
  <2> DEFINE p == tx[t].payment
             r == [tx[t] EXCEPT !.pc = "refund_provider"]
  <2>1. p \in Payments /\ tx[t] \in TxRecords /\ "refund_provider" \in Steps
    BY <1>0, <1>9 DEF RefundRead, Open, Steps
  <2>2. CASE pay[p].status = "succeeded"
    <3>1. Sets(t, r) /\ r.payment = p /\ r.pc = "refund_provider"
      BY <1>9, <2>1, <2>2, Advances DEF RefundRead, TxRecords
    <3>2. p \notin disturbed => refunds[p] = 0
      <4> SUFFICES ASSUME p \notin disturbed, refunds[p] # 0 PROVE FALSE
        OBVIOUS
      <4>1. PICK u \in On(p) : tx[u].pc = "refund_commit"
        BY <2>1, <2>2 DEF LedgerInv, Ledger
      <4>2. u # t
        BY <1>9, <4>1 DEF RefundRead
      <4> QED BY <2>1, <4>1, <4>2, Beside DEF RowSteps
    <3> HIDE DEF r
    <3> QED BY <1>9, <2>2, <3>1, <3>2, <1>a DEF RefundRead, Open, Creating, CreateSteps
  <2>3. CASE pay[p].status # "succeeded"
    BY <1>9, <1>b, <2>3, Ends DEF RefundRead, Open
  <2> QED BY <2>2, <2>3
<1>10. ASSUME NEW t \in Requests, RefundProvider(t) PROVE LedgerInv'
  <2>p. PICK p \in Payments : p = tx[t].payment
    BY <1>0, <1>10 DEF RefundProvider, Open
  <2> USE <2>p
  <2> DEFINE r == [tx[t] EXCEPT !.pc = "refund_commit"]
  <2>1. p \in Payments /\ tx[t] \in TxRecords /\ "refund_commit" \in Steps
    BY <1>0, <1>10 DEF RefundProvider, Open, Steps
  <2>2. CASE UNCHANGED refunds /\ End(t)
    BY <1>10, <1>b, <2>2, Ends DEF RefundProvider, Open
  <2>3. CASE refunds' = [refunds EXCEPT ![p] = refunds[p] + 1] /\ Advance(t, "refund_commit")
    <3>1. Sets(t, r) /\ r.payment = p /\ r.pc = "refund_commit"
      BY <2>1, <2>3, Advances DEF TxRecords
    <3>2. UNCHANGED <<rows, applied, since, sweep, now, disturbed>>
      BY <1>10 DEF RefundProvider
    <3>3. refunds'[p] = refunds[p] + 1 /\ \A q \in Payments \ {p} : refunds'[q] = refunds[q]
      BY <2>1, <2>3 DEF Shape
    <3>4. \A q \in Payments \ {p} : RowsKept(q)
      BY <3>2, <3>3 DEF RowsKept
    <3>5. p \notin disturbed => /\ On(p) = {t} /\ pay[p].status = "succeeded" /\ refunds[p] = 0
                                /\ Ledger(p)
      BY <1>10, <2>1, Alone DEF LedgerInv, Progress, RefundProvider, RowSteps
    <3>6. t \in On(p)' /\ tx'[t].pc = "refund_commit"
      BY <3>1 DEF On, Sets
    <3>7. p \notin disturbed => Ledger(p)'
      BY <3>2, <3>3, <3>5, <3>6 DEF Ledger
    <3>8. /\ r.pc \notin CreateSteps /\ pay' = pay /\ disturbed' = disturbed
          /\ p \notin disturbed => \A u \in On(p) : u = t
      BY <3>1, <3>2, <3>5 DEF CreateSteps
    <3> HIDE DEF r
    <3> QED BY <2>1, <3>1, <3>2, <3>3, <3>4, <3>5, <3>7, <3>8, LedgerStep
  <2> QED BY <1>10, <2>2, <2>3 DEF RefundProvider
<1>11. ASSUME NEW t \in Requests, RefundCommit(t) PROVE LedgerInv'
  <2>p. PICK p \in Payments : p = tx[t].payment
    BY <1>0, <1>11 DEF RefundCommit, Open
  <2> USE <2>p
  <2>1. p \in Payments /\ Sets(t, NoTx)
    BY <1>0, <1>11, Ends DEF RefundCommit, Open
  <2>2. /\ pay'[p].status = "refunded" /\ (pay'[p].promo <=> pay[p].promo)
        /\ \A q \in Payments \ {p} : pay'[q] = pay[q]
    BY <1>11, <2>1 DEF RefundCommit, Shape
  <2>3. UNCHANGED <<sub, redeemed, refunds, applied, since, sweep, now, disturbed>>
    BY <1>11 DEF RefundCommit
  <2>4. \A q \in Payments \ {p} : RowsKept(q)
    BY <2>2, <2>3 DEF RowsKept
  <2>5. p \notin disturbed => /\ On(p) = {t} /\ pay[p].status = "succeeded" /\ refunds[p] = 1
                              /\ Ledger(p)
    BY <1>11, <2>1, Alone DEF LedgerInv, Progress, RefundCommit, RowSteps
  <2>6. p \notin disturbed => Ledger(p)'
    BY <2>2, <2>3, <2>5 DEF Ledger, Terminal
  <2> QED BY <1>n, <2>1, <2>3, <2>4, <2>5, <2>6, LedgerStep
<1>12. ASSUME NEW t \in Requests, CancelRead(t) PROVE LedgerInv'
  <2> DEFINE r == [tx[t] EXCEPT !.seen = sub[tx[t].payment].status, !.pc = "cancel_commit"]
  <2>1. Sets(t, r) /\ r.payment = tx[t].payment /\ r.pc = "cancel_commit"
    BY <1>0, <1>12, CancelReadSets DEF TxRecords
  <2> HIDE DEF r
  <2> QED BY <1>12, <2>1, <1>a DEF CancelRead, Open, Creating, CreateSteps
<1>13. ASSUME NEW t \in Requests, CancelCommit(t) PROVE LedgerInv'
  <2>p. PICK p \in Payments : p = tx[t].payment
    BY <1>0, <1>13 DEF CancelCommit, Open
  <2> USE <2>p
  <2>1. p \in Payments /\ Sets(t, NoTx)
    BY <1>0, <1>13, Ends DEF CancelCommit, Open
  <2>2. /\ \A q \in Payments \ {p} : sub'[q] = sub[q]
        /\ sub'[p].expires = sub[p].expires /\ sub'[p].status \in {sub[p].status, "cancelled"}
    <3>1. CASE sub' = sub
      BY <3>1 DEF Shape
    <3>2. CASE sub' = [sub EXCEPT ![p].status = "cancelled"]
      BY <3>2 DEF Shape
    <3> QED BY <1>13, <3>1, <3>2 DEF CancelCommit
  <2>3. UNCHANGED <<pay, redeemed, refunds, applied, since, sweep, now, disturbed>>
    BY <1>13 DEF CancelCommit
  <2>4. \A q \in Payments \ {p} : RowsKept(q)
    BY <2>2, <2>3 DEF RowsKept
  <2>5. p \notin disturbed => Ledger(p)
    BY <1>13, <2>1 DEF LedgerInv
  <2>6. p \notin disturbed => Ledger(p)'
    <3>1. \A u \in On(p) : tx[u].pc = "refund_commit" => u \in On(p)' /\ tx'[u].pc = "refund_commit"
      BY <1>13, <2>1 DEF On, Sets, CancelCommit
    <3> QED BY <1>13, <2>2, <2>3, <2>5, <3>1 DEF Ledger, CancelCommit
  <2>7. p \notin disturbed => \A u \in On(p) \ {t} :
               pay[p].status = "none" /\ tx[u].pc \notin RowSteps
    BY <2>1, Beside
  <2> QED BY <1>n, <2>1, <2>3, <2>4, <2>5, <2>6, <2>7, LedgerStep
<1>14. ASSUME NEW t \in Requests, Rollback(t) PROVE LedgerInv'
  BY <1>14, <1>b, Ends DEF Rollback
(* The provider, the sweep and the clock leave transactions alone. *)
<1>15. ASSUME UNCHANGED <<tx, pay, refunds, disturbed>>,
              \A p \in Payments \ disturbed : Ledger(p)'
       PROVE LedgerInv'
  <2>1. \A t \in Requests : tx[t].payment \in Payments \ disturbed => Progress(t)'
    BY <1>15 DEF LedgerInv, Progress, On, Asking, Creating
  <2> QED BY <1>15, <2>1 DEF LedgerInv
<1>16. ASSUME NEW p \in Payments, NEW e \in {"succeeded", "failed"}, ProviderReports(p, e)
       PROVE LedgerInv'
  BY <1>15, <1>16 DEF ProviderReports, LedgerInv, Ledger, On
<1>17. CASE SweepList
  <2>1. ASSUME NEW p \in Payments \ disturbed PROVE Ledger(p)'
    <3>1. Ledger(p) /\ applied[p] \in Nat
      BY DEF LedgerInv, Shape
    <3>2. p \in sweep'.subs <=> Overdue(p)
      BY <1>17 DEF SweepList
    <3> QED BY <1>17, <3>1, <3>2 DEF SweepList, Ledger, Overdue, On
  <2> QED BY <1>15, <1>17, <2>1 DEF SweepList
<1>18. CASE SweepCommit
  <2>1. ASSUME NEW p \in Payments \ disturbed PROVE Ledger(p)'
    <3>1. Ledger(p) /\ sub[p] \in [status : SubStatus, expires : Nat]
      BY DEF LedgerInv, Shape
    <3>2. /\ sub'[p].expires = sub[p].expires
          /\ sub'[p].status = IF p \in sweep.subs THEN "expired" ELSE sub[p].status
      BY <1>18, <3>1 DEF SweepCommit
    <3> QED BY <1>18, <3>1, <3>2 DEF SweepCommit, NoSweep, Ledger, On
  <2> QED BY <1>15, <1>18, <2>1 DEF SweepCommit
<1>19. CASE SweepRollback
  <2>1. ASSUME NEW p \in Payments \ disturbed PROVE Ledger(p)'
    BY <1>19 DEF SweepRollback, NoSweep, LedgerInv, Ledger, On
  <2> QED BY <1>15, <1>19, <2>1 DEF SweepRollback
<1>20. CASE Tick
  <2>1. ASSUME NEW p \in Payments \ disturbed PROVE Ledger(p)'
    BY <1>20 DEF Tick, Shape, LedgerInv, Ledger, On
  <2> QED BY <1>15, <1>20, <2>1 DEF Tick
<1>21. CASE UNCHANGED vars
  BY <1>15, <1>21 DEF vars, LedgerInv, Ledger, On
<1>22. "pending" \in Events
  BY DEF Events
<1> QED
  BY <1>1, <1>2, <1>3, <1>4, <1>5, <1>6, <1>7, <1>8, <1>9, <1>10, <1>11, <1>12, <1>13, <1>14,
     <1>16, <1>17, <1>18, <1>19, <1>20, <1>21, <1>22
  DEF Next, Begin, Step, Webhook, Refund, Cancel

-----------------------------------------------------------------------------
(* PromoInv is inductive. *)

Redeems(r) == r.pc = "commit" /\ r.event = "succeeded" /\ r.promo
Mints(r)   == r.promo /\ r.pc \in CreateSteps

(* A step that redeems nothing, hands the code to nobody, and lets a       *)
(* request on to its commit only with the counter it has just read.        *)
LEMMA PromoKept ==
    ASSUME PromoInv, UNCHANGED <<usedCount, redeemed>>, shared => shared',
           disturbed \subseteq disturbed',
           Carriers' \subseteq Carriers,
           \A t \in Requests : Redeems(tx'[t]) =>
               \/ tx'[t].count = usedCount + 1
               \/ Redeems(tx[t]) /\ tx'[t].count = tx[t].count
    PROVE  PromoInv'
<1> SUFFICES ASSUME ~shared', disturbed' = {}
             PROVE  PromoInv'
  BY DEF PromoInv
<1>1. ~shared /\ disturbed = {}
  OBVIOUS
<1>2. Redeemed' = Redeemed /\ \A u : Redemptions(u)' = Redemptions(u)
  BY DEF Redeemed, Redemptions
<1>3. \A t \in Requests : Redeems(tx'[t]) => tx'[t].count = usedCount + 1
  BY <1>1 DEF PromoInv, Redeems
<1>4. /\ \A c, d \in Carriers' : c = d
      /\ \A c \in Carriers' : usedCount < MaxUses /\ Redemptions(Owner[c]) = {}
  BY <1>1 DEF PromoInv
<1> QED BY <1>1, <1>2, <1>3, <1>4 DEF PromoInv, Redeems

(* The steps of one transaction that leave the codes of payments alone. *)
LEMMA PromoStep ==
    ASSUME PromoInv, NEW t \in Requests, NEW r, Sets(t, r), UNCHANGED <<usedCount, redeemed>>,
           \A p \in Payments : pay'[p].promo <=> pay[p].promo,
           shared => shared', disturbed \subseteq disturbed',
           Mints(r) => Mints(tx[t]) /\ r.payment = tx[t].payment,
           Redeems(r) => \/ r.count = usedCount + 1
                         \/ Redeems(tx[t]) /\ r.count = tx[t].count
    PROVE  PromoInv'
<1>1. Carriers' \subseteq Carriers
  BY DEF Carriers, Sets, Mints, Creating, CreateSteps
<1>2. \A u \in Requests : Redeems(tx'[u]) =>
               \/ tx'[u].count = usedCount + 1
               \/ Redeems(tx[u]) /\ tx'[u].count = tx[u].count
  BY DEF Sets
<1> QED BY <1>1, <1>2, PromoKept

LEMMA InitPromo == Init => PromoInv
<1> SUFFICES ASSUME Init PROVE PromoInv
  OBVIOUS
<1>1. Redeemed = {} /\ Carriers = {}
  BY DEF Init, Redeemed, Carriers, NoTx, Creating
<1>2. \A t \in Requests : tx[t].pc # "commit"
  BY DEF Init, NoTx
<1> QED BY <1>1, <1>2, FS_EmptySet, NumbersAssumption DEF Init, PromoInv

LEMMA PromoNext ==
    ASSUME Shape, TxInv, LedgerInv, PromoInv, [Next]_vars
    PROVE  PromoInv'
PROOF
<1> USE NumbersAssumption, PaymentAssumption DEF rows, history
<1>0. \A t \in Requests : tx[t] \in TxRecords /\ (Open(t) <=> tx[t].payment \in Payments)
  BY DEF Shape, TxInv
<1>n. ~Mints(NoTx) /\ ~Redeems(NoTx)
  BY DEF NoTx, Mints, Redeems, CreateSteps
<1>1. ASSUME NEW t \in Requests, NEW p \in Payments, NEW b \in BOOLEAN, CreatePaymentCheck(t, p, b)
      PROVE PromoInv'
  <2> DEFINE r == [NoTx EXCEPT !.pc = "intent", !.payment = p, !.promo = b]
  <2>1. Sets(t, r) /\ r.pc = "intent" /\ r.payment = p /\ (r.promo <=> b)
    BY <1>1, CheckSets DEF NoTx
  <2>2. UNCHANGED <<usedCount, redeemed, pay, disturbed>>
    BY <1>1 DEF CreatePaymentCheck
  <2> HIDE DEF r
  <2>3. CASE ~b
    BY <1>1, <2>1, <2>2, <2>3, PromoStep DEF CreatePaymentCheck, Mints, Redeems, CreateSteps
  <2>4. CASE b /\ Carriers = {}
    <3>1. Carriers' \subseteq {p}
      BY <2>1, <2>2, <2>4 DEF Carriers, Sets, Creating, CreateSteps
    <3>2. usedCount < MaxUses /\ Redemptions(Owner[p]) = {}
      BY <1>1, <2>4 DEF CreatePaymentCheck, PromoAccepted
    <3>3. Redeemed' = Redeemed /\ \A u : Redemptions(u)' = Redemptions(u)
      BY <2>2 DEF Redeemed, Redemptions
    <3>4. \A u \in Requests : Redeems(tx'[u]) => Redeems(tx[u]) /\ tx'[u].count = tx[u].count
      BY <2>1 DEF Sets, Redeems
    <3> QED BY <1>1, <2>2, <3>1, <3>2, <3>3, <3>4 DEF PromoInv, CreatePaymentCheck, Redeems
  <2>5. CASE b /\ Carriers # {}
    BY <1>1, <2>5 DEF CreatePaymentCheck, PromoInv
  <2> QED BY <2>3, <2>4, <2>5
<1>2. ASSUME NEW t \in Requests, NEW p \in Payments, NEW e \in Events,
             NEW s \in {"payment", "refund_read", "cancel_read"}, Start(t, p, s, e)
      PROVE PromoInv'
  <2> DEFINE r == [NoTx EXCEPT !.pc = s, !.payment = p, !.event = e]
  <2>0. s \in Steps
    BY DEF Steps
  <2>1. Sets(t, r) /\ r.pc = s
    BY <1>2, <2>0, StartSets DEF NoTx
  <2> HIDE DEF r
  <2> QED BY <1>2, <2>1, PromoStep DEF Start, Mints, Redeems, CreateSteps
<1>3. ASSUME NEW t \in Requests, CreatePaymentIntent(t) PROVE PromoInv'
  <2>1. Sets(t, [tx[t] EXCEPT !.pc = "create_commit"])
    BY <1>3, Advances DEF CreatePaymentIntent, Steps
  <2> QED BY <1>0, <1>3, <2>1, PromoStep DEF CreatePaymentIntent, TxRecords, Mints, Redeems, CreateSteps
<1>4. ASSUME NEW t \in Requests, CreatePaymentCommit(t) PROVE PromoInv'
  <2>p. PICK p \in Payments : p = tx[t].payment
    BY <1>0, <1>4 DEF CreatePaymentCommit, Open
  <2>1. Sets(t, NoTx)
    BY <1>4, Ends DEF CreatePaymentCommit
  <2>2. /\ pay'[p].promo = tx[t].promo
        /\ \A q \in Payments \ {p} : pay'[q] = pay[q]
    BY <1>4, <2>p DEF CreatePaymentCommit, Shape
  <2>3. tx[t].promo => p \in Carriers
    BY <1>4, <2>p DEF Carriers, CreatePaymentCommit, Creating, CreateSteps
  <2>4. Carriers' \subseteq Carriers
    BY <1>4, <1>n, <2>1, <2>2, <2>3 DEF Carriers, Sets, Mints, CreatePaymentCommit, Creating, CreateSteps
  <2>5. \A u \in Requests : Redeems(tx'[u]) => Redeems(tx[u]) /\ tx'[u].count = tx[u].count
    BY <1>n, <2>1 DEF Sets
  <2> QED BY <1>4, <2>4, <2>5, PromoKept DEF CreatePaymentCommit
<1>5. ASSUME NEW t \in Requests, WebhookReadPayment(t) PROVE PromoInv'
  <2> DEFINE s == pay[tx[t].payment].status
             r == [tx[t] EXCEPT !.status = s, !.promo = pay[tx[t].payment].promo,
                                !.pc = IF tx[t].event = "succeeded" THEN "subscription"
                                                                    ELSE "commit"]
  <2>1. ~Mints(r) /\ ~Redeems(r)
    BY <1>0 DEF Mints, Redeems, TxRecords, CreateSteps
  <2>2. Sets(t, NoTx) \/ Sets(t, r)
    BY <1>5, ReadPaymentSets
  <2> HIDE DEF r
  <2> QED BY <1>5, <1>n, <2>1, <2>2, PromoStep DEF WebhookReadPayment
<1>6. ASSUME NEW t \in Requests, WebhookActivate(t) PROVE PromoInv'
  <2> DEFINE s == sub[tx[t].payment]
             r == [tx[t] EXCEPT !.seen = s.status, !.expires = ActivateBase(s) + Duration,
                                !.pc = IF tx[t].promo THEN "promo" ELSE "commit"]
  <2>1. ~Mints(r) /\ ~Redeems(r)
    BY <1>0 DEF Mints, Redeems, TxRecords, CreateSteps
  <2>2. Sets(t, r)
    BY <1>6, ActivateSets
  <2> HIDE DEF r
  <2> QED BY <1>6, <2>1, <2>2, PromoStep DEF WebhookActivate
<1>7. ASSUME NEW t \in Requests, WebhookReadPromo(t) PROVE PromoInv'
  <2> DEFINE r == [tx[t] EXCEPT !.count = usedCount + 1, !.pc = "commit"]
  <2>1. ~Mints(r) /\ r.count = usedCount + 1
    BY <1>0 DEF Mints, TxRecords, CreateSteps
  <2>2. Sets(t, r)
    BY <1>7, ReadPromoSets
  <2> HIDE DEF r
  <2> QED BY <1>7, <2>1, <2>2, PromoStep DEF WebhookReadPromo
<1>8. ASSUME NEW t \in Requests, WebhookCommit(t) PROVE PromoInv'
  <2>p. PICK p \in Payments : p = tx[t].payment
    BY <1>0, <1>8 DEF WebhookCommit, Open
  <2>1. Sets(t, NoTx) /\ UNCHANGED <<disturbed, shared>>
    BY <1>8, Ends DEF WebhookCommit
  <2>2. \A q \in Payments : pay'[q].promo <=> pay[q].promo
    <3>1. pay' = pay \/ \E s \in PayStatus : pay' = [pay EXCEPT ![p].status = s]
      BY <1>8, <2>p DEF WebhookCommit, CommitSuccess, CommitFailure, PayStatus
    <3> QED BY <3>1 DEF Shape
  <2>3. CASE UNCHANGED <<usedCount, redeemed>>
    BY <1>n, <2>1, <2>2, <2>3, PromoStep
  <2>4. CASE tx[t].event = "succeeded" /\ tx[t].promo /\ CommitSuccess(t)
    <3> SUFFICES ASSUME ~shared, disturbed = {} PROVE PromoInv'
      BY <2>1 DEF PromoInv
    <3>1. \A u \in Requests : tx[u].payment \in Payments => Progress(u) /\ Ledger(tx[u].payment)
      BY DEF LedgerInv
    (* The payment of a request that is to redeem carries the code. *)
    <3>2. ASSUME NEW u \in Requests, Redeems(tx[u])
          PROVE  /\ tx[u].payment \in Carriers /\ redeemed[tx[u].payment] = 0
                 /\ On(tx[u].payment) = {u}
      <4>1. tx[u].payment \in Payments
        BY <1>0, <3>2 DEF Redeems, Open
      <4>2. On(tx[u].payment) = {u}
        BY <3>2, <4>1, Alone DEF Redeems, RowSteps
      <4> QED BY <3>1, <3>2, <4>1, <4>2 DEF Progress, Ledger, Redeems, Carriers, Terminal
    <3>3. Redeems(tx[t])
      BY <1>8, <2>4 DEF Redeems, WebhookCommit
    <3>4. /\ IsFiniteSet(Redeemed) /\ usedCount = Cardinality(Redeemed)
          /\ \A c \in Carriers : c = p
          /\ usedCount < MaxUses /\ Redemptions(Owner[p]) = {}
          /\ tx[t].count = usedCount + 1
      BY <2>p, <3>2, <3>3 DEF PromoInv, Redeems
    <3>5. /\ usedCount' = usedCount + 1 /\ redeemed'[p] = 1
          /\ \A q \in Payments \ {p} : redeemed'[q] = redeemed[q]
      BY <2>p, <2>4, <3>2, <3>3, <3>4 DEF CommitSuccess, Shape
    <3>6. Redeemed' = Redeemed \cup {p} /\ p \notin Redeemed
      BY <2>p, <3>2, <3>3, <3>5 DEF Redeemed
    <3>7. IsFiniteSet(Redeemed') /\ usedCount' = Cardinality(Redeemed')
      BY <3>4, <3>5, <3>6, FS_AddElement
    <3>8. Carriers' = {}
      <4>1. ASSUME NEW q \in Payments, pay'[q].promo, redeemed'[q] = 0 PROVE FALSE
        BY <2>2, <3>4, <3>5, <4>1 DEF Carriers
      <4>2. ASSUME NEW u \in Requests, Mints(tx'[u]) PROVE FALSE
        <5>1. u # t /\ Mints(tx[u]) /\ tx[u].payment \in Carriers
          BY <1>n, <2>1, <4>2 DEF Sets, Mints, Carriers, Creating, CreateSteps
        <5>2. u \in On(p) /\ On(p) = {t}
          BY <2>p, <3>2, <3>3, <3>4, <5>1 DEF On
        <5> QED BY <5>1, <5>2
      <4> QED BY <4>1, <4>2 DEF Carriers, Mints, Creating, CreateSteps
    <3>9. \A c, d \in Redeemed' : Owner[c] = Owner[d] => c = d
      <4>1. \A c, d \in Redeemed : Owner[c] = Owner[d] => c = d
        BY DEF PromoInv
      <4>2. \A c \in Redeemed : Owner[c] # Owner[p]
        BY <3>4 DEF Redeemed, Redemptions
      <4> QED BY <3>6, <4>1, <4>2
    <3>10. \A u \in Requests : ~Redeems(tx'[u])
      <4> SUFFICES ASSUME NEW u \in Requests, Redeems(tx'[u]) PROVE FALSE
        OBVIOUS
      <4>1. u # t /\ Redeems(tx[u])
        BY <1>n, <2>1 DEF Sets
      <4>2. u \in On(p) /\ On(p) = {t}
        BY <2>p, <3>2, <3>3, <3>4, <4>1 DEF On
      <4> QED BY <4>1, <4>2
    <3>11. usedCount' <= MaxUses
      BY <3>4, <3>5 DEF Shape
    <3> QED BY <3>7, <3>8, <3>9, <3>10, <3>11 DEF PromoInv, Redeems
  <2> QED BY <1>8, <2>3, <2>4 DEF WebhookCommit, CommitSuccess, CommitFailure
<1>9. ASSUME NEW t \in Requests, RefundRead(t) PROVE PromoInv'
  <2> DEFINE r == [tx[t] EXCEPT !.pc = "refund_provider"]
  <2>1. Sets(t, NoTx) \/ Sets(t, r)
    BY <1>9, Advances, Ends DEF RefundRead, Steps
  <2>2. ~Mints(r) /\ ~Redeems(r)
    BY <1>0 DEF TxRecords, Mints, Redeems, CreateSteps
  <2> HIDE DEF r
  <2> QED BY <1>9, <1>n, <2>1, <2>2, PromoStep DEF RefundRead
<1>10. ASSUME NEW t \in Requests, RefundProvider(t) PROVE PromoInv'
  <2> DEFINE r == [tx[t] EXCEPT !.pc = "refund_commit"]
  <2>1. Sets(t, NoTx) \/ Sets(t, r)
    BY <1>10, Advances, Ends DEF RefundProvider, Steps
  <2>2. ~Mints(r) /\ ~Redeems(r)
    BY <1>0 DEF TxRecords, Mints, Redeems, CreateSteps
  <2> HIDE DEF r
  <2> QED BY <1>10, <1>n, <2>1, <2>2, PromoStep DEF RefundProvider
<1>11. ASSUME NEW t \in Requests, RefundCommit(t) PROVE PromoInv'
  <2>1. \A q \in Payments : pay'[q].promo <=> pay[q].promo
    BY <1>11 DEF RefundCommit, Shape
  <2> QED BY <1>11, <1>n, <2>1, Ends, PromoStep DEF RefundCommit
<1>12. ASSUME NEW t \in Requests, CancelRead(t) PROVE PromoInv'
  <2> DEFINE r == [tx[t] EXCEPT !.seen = sub[tx[t].payment].status, !.pc = "cancel_commit"]
  <2>1. Sets(t, r) /\ ~Mints(r) /\ ~Redeems(r)
    BY <1>0, <1>12, CancelReadSets DEF TxRecords, Mints, Redeems, CreateSteps
  <2> HIDE DEF r
  <2> QED BY <1>12, <2>1, PromoStep DEF CancelRead
<1>13. ASSUME NEW t \in Requests, CancelCommit(t) PROVE PromoInv'
  BY <1>13, <1>n, Ends, PromoStep DEF CancelCommit
<1>14. ASSUME NEW t \in Requests, Rollback(t) PROVE PromoInv'
  <2>1. disturbed \subseteq disturbed'
    BY <1>14 DEF Rollback
  <2> QED BY <1>14, <1>n, <2>1, Ends, PromoStep DEF Rollback
<1>15. ASSUME UNCHANGED <<tx, pay, usedCount, redeemed, disturbed, shared>> PROVE PromoInv'
  <2>1. Carriers' = Carriers
    BY <1>15 DEF Carriers, Creating
  <2> QED BY <1>15, <2>1, PromoKept
<1>16. ASSUME NEW p \in Payments, NEW e \in {"succeeded", "failed"}, ProviderReports(p, e)
       PROVE PromoInv'
  BY <1>15, <1>16 DEF ProviderReports
<1>17. CASE SweepList \/ SweepCommit \/ SweepRollback \/ Tick
  BY <1>15, <1>17 DEF SweepList, SweepCommit, SweepRollback, Tick
<1>18. CASE UNCHANGED vars
  BY <1>15, <1>18 DEF vars
<1>19. "pending" \in Events
  BY DEF Events
<1> QED
  BY <1>1, <1>2, <1>3, <1>4, <1>5, <1>6, <1>7, <1>8, <1>9, <1>10, <1>11, <1>12, <1>13, <1>14,
     <1>16, <1>17, <1>18, <1>19
  DEF Next, Begin, Step, Webhook, Refund, Cancel

-----------------------------------------------------------------------------
(* The theorems. *)

LEMMA InitLedger == Init => LedgerInv
  BY PaymentAssumption DEF Init, LedgerInv, Ledger, Terminal, NoSweep, NoTx

LEMMA Inductive == Spec => []IInv
PROOF
<1>1. Init => IInv
  BY InitShape, InitBounded, InitLedger, InitPromo DEF IInv
<1>2. IInv /\ [Next]_vars => IInv'
  BY ShapeNext, BoundedNext, LedgerNext, PromoNext DEF IInv
<1> QED BY <1>1, <1>2, PTL DEF Spec

(* The rows, the transactions and the counters of the billing code keep    *)
(* their types and the bounds that follow from the number of requests:     *)
(* every counter was raised by a request of its own.                       *)
THEOREM TypeCorrect == Spec => []TypeOK
PROOF
<1>1. ASSUME IInv PROVE TypeOK
  <2> USE <1>1, NumbersAssumption DEF IInv
  <2>1. Spare \in Nat /\ Spare <= MaxStarts
    <3>1. Cardinality(Spending) \in Nat
      BY FS_CardinalityType DEF Bounded
    <3> QED BY <3>1 DEF Spare, Bounded, Shape
  <2>2. \A n \in 0 .. MaxStarts + 1 : Paid(n) \in Nat /\ Paid(n) <= MaxExpiry
    BY PaidGrows DEF Paid, MaxExpiry
  <2>3. sub \in [Payments -> [status : SubStatus, expires : 0 .. MaxExpiry]]
    <3>1. \A p \in Payments : applied[p] \in 0 .. MaxStarts + 1
      BY <2>1 DEF Bounded, Shape
    <3>2. \A p \in Payments : sub[p].expires \in 0 .. MaxExpiry
      BY <2>2, <3>1 DEF Bounded, Shape, MaxExpiry
    <3> QED BY <3>2 DEF Shape
  <2>4. \A t \in Requests : tx[t].expires \in 0 .. MaxExpiry /\ tx[t].count \in 0 .. MaxStarts + 1
    <3> TAKE t \in Requests
    <3>1. tx[t].expires \in Nat /\ tx[t].count \in Nat
      BY DEF Shape, TxRecords
    <3>2. tx[t].payment \in Payments => applied[tx[t].payment] + 1 \in 0 .. MaxStarts + 1
      BY <2>1 DEF Bounded, Shape
    <3>3. Paid(0) \in Nat /\ Paid(0) <= MaxExpiry
      BY <2>2
    <3>4. tx[t].expires <= MaxExpiry
      BY <2>2, <3>1, <3>2, <3>3 DEF Bounded, MaxExpiry
    <3>5. MaxExpiry \in Nat
      BY <2>2 DEF Paid, MaxExpiry
    <3> QED BY <2>1, <3>1, <3>4, <3>5 DEF Bounded
  <2>5. tx \in [Requests -> [pc : Steps \cup {"none"}, payment : Payments \cup {NoPayment},
                             event : Events, promo : BOOLEAN, status : PayStatus,
                             seen : SubStatus, expires : 0 .. MaxExpiry,
                             count : 0 .. MaxStarts + 1]]
    BY <2>4 DEF Shape, TxRecords
  <2>6. /\ usedCount \in 0 .. MaxStarts /\ redeemed \in [Payments -> 0 .. MaxStarts]
        /\ refunds \in [Payments -> 0 .. MaxStarts]
        /\ applied \in [Payments -> 0 .. MaxStarts] /\ since \in [Payments -> 0 .. MaxTime]
    BY <2>1 DEF Bounded, Shape
  <2>7. now \in 1 .. MaxTime /\ starts \in 0 .. MaxStarts /\ faults \in 0 .. MaxFaults
    BY DEF Bounded, Shape
  <2> QED BY <2>3, <2>5, <2>6, <2>7 DEF TypeOK, Shape
<1> QED BY <1>1, Inductive, PTL

(* However often, in whatever order and after whatever rollbacks the       *)
(* events of a payment are delivered, handle_webhook activates it once,    *)
(* for one duration, and redeems its code once, unless requests about it   *)
(* overlapped.                                                             *)
THEOREM PaidOnce == Spec => []OnePeriodPerPayment
PROOF
<1>1. IInv => OnePeriodPerPayment
  BY DEF IInv, LedgerInv, Ledger, OnePeriodPerPayment
<1> QED BY <1>1, Inductive, PTL

(* refund asks the provider at most once, and the payment says so as soon  *)
(* as the request has ended.                                               *)
THEOREM RefundOnce == Spec => []RefundedOnce
PROOF
<1>1. IInv => RefundedOnce
  BY DEF IInv, LedgerInv, Ledger, RefundedOnce
<1> QED BY <1>1, Inductive, PTL

(* What the sweep expired is over. *)
THEOREM SweepTakesNothing == Spec => []ExpiredIsOver
PROOF
<1>1. IInv => ExpiredIsOver
  BY DEF IInv, LedgerInv, Ledger, ExpiredIsOver
<1> QED BY <1>1, Inductive, PTL

(* A code used by one payment at a time is redeemed at most max_uses times *)
(* in all (create_payment's checks, handle_webhook's counting).            *)
THEOREM PromoUses == Spec => []PromoWithinMaxUses
PROOF
<1>1. IInv => PromoWithinMaxUses
  BY DEF IInv, PromoInv, Redeemed, PromoWithinMaxUses
<1> QED BY <1>1, Inductive, PTL

(* A code used by one payment at a time is redeemed at most once by each   *)
(* user (create_payment's look at the redemptions).                        *)
THEOREM PromoOnce == Spec => []PromoOnceUnlessShared
PROOF
<1>1. ASSUME IInv, ~shared, disturbed = {}, NEW u \in Users
      PROVE  Cardinality(Redemptions(u)) <= 1
  <2>1. \A p, q \in Redemptions(u) : p = q
    BY <1>1 DEF IInv, PromoInv, Redemptions, Redeemed
  <2>2. CASE Redemptions(u) = {}
    BY <2>2, FS_EmptySet
  <2>3. CASE \E p : Redemptions(u) = {p}
    BY <2>3, FS_Singleton
  <2> QED BY <2>1, <2>2, <2>3
<1>2. IInv => PromoOnceUnlessShared
  BY <1>1 DEF PromoOnceUnlessShared, OneRedemptionPerUser
<1> QED BY <1>2, Inductive, PTL
=============================================================================
