---------------------------- MODULE Settlement ----------------------------
(***************************************************************************)
(* Execution and settlement of ONE bounded authorization over the ordinary *)
(* order path: consume, Razorpay webhooks with capture confirmation,       *)
(* manual reconciliation, the reconciliation worker, refund and revoke.    *)
(* No handler touches the rows of two authorizations, so one is enough.    *)
(*                                                                         *)
(* Every handler is a database session with its own copy of the            *)
(* transaction row.  SQLAlchemy reads the row, keeps it across provider    *)
(* calls, and at commit writes the changed columns by primary key with no  *)
(* version check: reading, asking the provider and committing are          *)
(* therefore separate steps that interleave with other sessions.           *)
(***************************************************************************)
EXTENDS PaariTransitions, Naturals

CONSTANTS
  Sessions,         \* request threads and worker threads with a session open
  Workers,          \* the sessions that run ReconciliationWorker._run_batch
  Pays,             \* ids of the payment attempts a payer can make
  Matching,         \* attempts whose amount and currency equal the authorization's
  NoPay, NoEvent,   \* SQL NULL in the two id columns
  Closings,         \* the ways the provider can close an unpaid order
  DeadLetterAfter,  \* ReconciliationWorker.dead_letter_after
  RefundParts       \* refunds the provider accepts before the capture is used up

ASSUME SettlementAssumption ==
  /\ Workers \subseteq Sessions
  /\ Matching \subseteq Pays
  /\ NoPay \notin Pays
  /\ Closings \subseteq {"cancelled", "expired"}
  /\ DeadLetterAfter \in Nat \ {0}
  /\ RefundParts \in Nat \ {0}

MaxUsage == 1

EventTypes == {"payment.authorized", "payment.captured", "payment.failed"}
\* One event id for each (type, payment): a redelivery carries the same id.
EventIds == [type : EventTypes, pay : Pays]

ASSUME NoEventAssumption == NoEvent \notin EventIds

PayStates == {"none", "created", "authorized", "captured", "failed", "declined"}
OrderStates == {"none", "open", "cancelled", "expired"}

VARIABLES
  usage,     \* bounded_authorizations.usage_count
  revoked,   \* history: the use was burned by revoke_authorization
  txn,       \* the provider_transactions row
  sess,      \* what each session holds between two of its steps
  calls,     \* history: create_payment calls made for this authorization
  order,     \* the provider: status of the order with our receipt
  pays,      \* the provider: status of every payment attempt
  last,      \* the provider: the latest attempt on the order
  events,    \* the provider: webhook events sent; each arrives any number of
             \* times, in any order, or never
  refunds    \* the provider: refunds accepted

provider == <<order, pays, last, events, refunds>>
vars == <<usage, revoked, txn, sess, calls, provider>>

Row == [state : TxnStates, order : BOOLEAN, pay : Pays \cup {NoPay},
        evt : EventIds \cup {NoEvent}, attempts : 0 .. DeadLetterAfter]

\* What a session read from the provider: the order found by receipt and one
\* payment.  NoPay means that there is none or that the read raised.
Observation == [order : OrderStates, pay : Pays \cup {NoPay}, status : PayStates]
NoObs == [order |-> "none", pay |-> NoPay, status |-> "none"]

Answers == {"none", "created", "mismatch", "timeout", "error"}

FreshRow == [state |-> "AUTHORIZED", order |-> FALSE, pay |-> NoPay,
             evt |-> NoEvent, attempts |-> 0]

Pcs == {"idle",
        "reserved", "answered", "recording",             \* consume
        "applying", "confirm", "confirming", "confirmed", \* webhook
        "reading", "observed", "recount", "counting",     \* reconcile, worker
        "refunding", "refunded"}                          \* refund

Session == [pc : Pcs, row : Row, evt : EventIds \cup {NoEvent},
            obs : Observation, ans : Answers]
Idle == [pc |-> "idle", row |-> FreshRow, evt |-> NoEvent, obs |-> NoObs, ans |-> "none"]

Init ==
  /\ usage = 0 /\ revoked = FALSE /\ calls = 0
  /\ txn = FreshRow
  /\ sess = [s \in Sessions |-> Idle]
  /\ order = "none" /\ last = NoPay /\ events = {} /\ refunds = 0
  /\ pays = [p \in Pays |-> "none"]

-----------------------------------------------------------------------------
(* The database session.                                                   *)

At(s, pc) == sess[s].pc = pc
Handler(s) == s \notin Workers
Become(s, rec) == sess' = [sess EXCEPT ![s] = rec]
Finish(s) == Become(s, Idle)

\* A unit of work writes the columns that differ from the copy it loaded and
\* leaves the others as the database has them now.
Merged(db, old, new) ==
  [state    |-> IF new.state = old.state THEN db.state ELSE new.state,
   order    |-> IF new.order = old.order THEN db.order ELSE new.order,
   pay      |-> IF new.pay = old.pay THEN db.pay ELSE new.pay,
   evt      |-> IF new.evt = old.evt THEN db.evt ELSE new.evt,
   attempts |-> IF new.attempts = old.attempts THEN db.attempts ELSE new.attempts]

Commit(s, new) == txn' = Merged(txn, sess[s].row, new)

\* The counter is only compared with DeadLetterAfter, so it saturates there.
OneMore(n) == IF n < DeadLetterAfter THEN n + 1 ELSE n

\* Mutant: a state is assigned without consulting the table.
TryUnchecked(from, to) == to

\* `try: transition_txn(txn, to) except IllegalTransitionError: pass`
Try(from, to) == IF Legal(from, to) THEN to ELSE from

\* Mutant: amount and currency are not compared.
ValueUnchecked(p) == TRUE

\* The provider's amount and currency equal the authorization's.
ValueMatches(p) == p \in Matching

\* The payment a corroborating read asks for.
Queried(row, hasOrder) ==
  IF row.pay # NoPay THEN row.pay ELSE IF hasOrder THEN last ELSE NoPay

Observed(o, p) == [order |-> o, pay |-> p,
                   status |-> IF p = NoPay THEN "none" ELSE pays[p]]

\* The process dies or the request is aborted: what was not committed is lost.
Crash(s) ==
  /\ ~At(s, "idle")
  /\ Finish(s)
  /\ UNCHANGED <<usage, revoked, txn, calls, provider>>

-----------------------------------------------------------------------------
(* consume_authorization and revoke_authorization.                         *)

\* Mutant: the reservation is no longer conditional.
UnusedUnchecked == TRUE

\* The WHERE clause both conditional UPDATEs share.
Unused == usage < MaxUsage

\* The conditional UPDATE on usage_count and the commit that makes the
\* reservation durable before the provider is called.
ConsumeReserve(s) ==
  /\ Handler(s) /\ At(s, "idle")
  /\ Unused
  /\ usage' = usage + 1
  /\ txn' = [txn EXCEPT !.attempts = OneMore(@)]
  /\ Become(s, [Idle EXCEPT !.pc = "reserved"])
  /\ UNCHANGED <<revoked, calls, provider>>

\* create_payment.  The order exists when the provider says so, and may exist
\* when the call times out or fails on the way back.
SubmitOrder(s, answer) ==
  /\ At(s, "reserved")
  /\ calls' = calls + 1
  /\ order' \in IF answer \in {"created", "mismatch"}
                THEN {IF order = "none" THEN "open" ELSE order}
                ELSE {order, IF order = "none" THEN "open" ELSE order}
  /\ Become(s, [sess[s] EXCEPT !.pc = "answered", !.ans = answer])
  /\ UNCHANGED <<usage, revoked, txn, pays, last, events, refunds>>

\* The row expired at the reservation commit: it is loaded again here.
ConsumeLoad(s) ==
  /\ At(s, "answered")
  /\ Become(s, [sess[s] EXCEPT !.pc = "recording", !.row = txn])
  /\ UNCHANGED <<usage, revoked, txn, calls, provider>>

\* An illegal PROVIDER_SUBMITTED lands in the generic handler, which tries
\* FAILED and still commits the order id set before it.
ConsumeOutcome(row, answer) ==
  CASE answer = "created" ->
         [row EXCEPT !.order = TRUE,
            !.state = IF Legal(@, "PROVIDER_SUBMITTED") THEN "PROVIDER_SUBMITTED"
                      ELSE Try(@, "FAILED")]
    [] answer = "timeout" -> [row EXCEPT !.state = Try(@, "PROVIDER_UNKNOWN")]
    [] OTHER -> [row EXCEPT !.state = Try(@, "FAILED")]

ConsumeRecord(s) ==
  /\ At(s, "recording")
  /\ Commit(s, ConsumeOutcome(sess[s].row, sess[s].ans))
  /\ Finish(s)
  /\ UNCHANGED <<usage, revoked, calls, provider>>

\* Mutant: revocation is recorded but the use is not burned.
RevokeWithoutBurn ==
  /\ Unused /\ ~revoked
  /\ revoked' = TRUE
  /\ UNCHANGED <<usage, txn, sess, calls, provider>>

\* One conditional UPDATE; the transaction row is left as it is.
Revoke ==
  /\ Unused
  /\ usage' = MaxUsage
  /\ revoked' = TRUE
  /\ UNCHANGED <<txn, sess, calls, provider>>

-----------------------------------------------------------------------------
(* razorpay_webhook and confirm_capture.                                   *)

\* Mutant: a capture event settles the payment by itself.
WebhookTargetPaid == [t \in EventTypes |->
  CASE t = "payment.authorized" -> "PROVIDER_AUTHORIZED"
    [] t = "payment.captured"   -> "PAID"
    [] t = "payment.failed"     -> "FAILED"]

WebhookTarget == [t \in EventTypes |->
  CASE t = "payment.authorized" -> "PROVIDER_AUTHORIZED"
    [] t = "payment.captured"   -> "CAPTURED"
    [] t = "payment.failed"     -> "FAILED"]

\* A delivery that passes every early return: the order id is known, the event
\* is not the last one applied, the value matches and the transition is legal
\* from the state just read.  Any other delivery changes nothing.
WebhookRead(s, e) ==
  /\ Handler(s) /\ At(s, "idle")
  /\ e \in events
  /\ txn.order
  /\ txn.evt # e
  /\ ValueMatches(e.pay)
  /\ Legal(txn.state, WebhookTarget[e.type])
  /\ Become(s, [Idle EXCEPT !.pc = "applying", !.row = txn, !.evt = e])
  /\ UNCHANGED <<usage, revoked, txn, calls, provider>>

WebhookApply(s) ==
  LET e == sess[s].evt IN
  /\ At(s, "applying")
  /\ Commit(s, [sess[s].row EXCEPT
                  !.state = WebhookTarget[e.type], !.evt = e,
                  !.pay = IF e.type = "payment.captured" THEN e.pay ELSE @])
  /\ Become(s, IF e.type = "payment.captured"
               THEN [Idle EXCEPT !.pc = "confirm"] ELSE Idle)
  /\ UNCHANGED <<usage, revoked, calls, provider>>

ConfirmLoad(s) ==
  /\ At(s, "confirm")
  /\ Become(s, [sess[s] EXCEPT !.pc = "confirming", !.row = txn])
  /\ UNCHANGED <<usage, revoked, txn, calls, provider>>

\* A failed read leaves the row alone: that case is Crash.
ConfirmRead(s) ==
  LET p == Queried(sess[s].row, sess[s].row.order) IN
  /\ At(s, "confirming")
  /\ p # NoPay
  /\ Become(s, [sess[s] EXCEPT !.pc = "confirmed", !.obs = Observed("none", p)])
  /\ UNCHANGED <<usage, revoked, txn, calls, provider>>

ConfirmOutcome(row, obs) ==
  CASE obs.status = "captured" /\ ValueMatches(obs.pay) /\ Legal(row.state, "PAID") ->
         [row EXCEPT !.state = "PAID", !.pay = obs.pay]
    [] obs.status \in {"failed", "declined"} ->
         [row EXCEPT !.state = Try(@, "PROVIDER_UNKNOWN")]
    [] OTHER -> row

ConfirmCommit(s) ==
  /\ At(s, "confirmed")
  /\ Commit(s, ConfirmOutcome(sess[s].row, sess[s].obs))
  /\ Finish(s)
  /\ UNCHANGED <<usage, revoked, calls, provider>>

-----------------------------------------------------------------------------
(* reconcile_one, called by manual_reconcile and by the worker.            *)

\* Mutant: the receipt is looked up before the outcome is known to be unknown.
NeedsReceiptEarly(row) == row.state = "AUTHORIZED" /\ ~row.order

\* An execution whose outcome is unknown and whose order id was never learned.
NeedsReceipt(row) == row.state = "PROVIDER_UNKNOWN" /\ ~row.order

HasOrder(row, obs) == row.order \/ (NeedsReceipt(row) /\ obs.order # "none")

ReconcileRead(s) ==
  /\ At(s, "idle")
  /\ txn.state \notin TerminalStates
  /\ Become(s, [Idle EXCEPT !.pc = "reading", !.row = txn])
  /\ UNCHANGED <<usage, revoked, txn, calls, provider>>

\* The provider reads, seen as one: sight of the order and of the payment can
\* each fail, except that a failed receipt lookup of an unknown execution
\* aborts the call (that case is Crash).
ReconcileObserve(s, o, p) ==
  LET row == sess[s].row IN
  /\ At(s, "reading")
  /\ o \in IF NeedsReceipt(row) THEN {order} ELSE {order, "none"}
  /\ p \in {Queried(row, row.order \/ (NeedsReceipt(row) /\ o # "none")), NoPay}
  /\ Become(s, [sess[s] EXCEPT !.pc = "observed", !.obs = Observed(o, p)])
  /\ UNCHANGED <<usage, revoked, txn, calls, provider>>

StatusTarget == [status \in {"captured", "failed", "authorized"} |->
  CASE status = "captured"   -> "PAID"
    [] status = "failed"     -> "FAILED"
    [] status = "authorized" -> "PROVIDER_AUTHORIZED"]

ClosedTarget == [status \in {"cancelled", "expired"} |->
  IF status = "cancelled" THEN "CANCELLED" ELSE "EXPIRED"]

OrderClosed(row, obs) == HasOrder(row, obs) /\ obs.order \in DOMAIN ClosedTarget

\* The state reconcile_one wants, "none" when it has nothing to say.  A decline
\* is believed without the value checks that every other status passes.
ReconcileTarget(row, obs) ==
  IF obs.pay = NoPay THEN "none"
  ELSE IF OrderClosed(row, obs) THEN ClosedTarget[obs.order]
  ELSE IF obs.status = "declined" THEN "DECLINED"
  ELSE IF obs.status \in DOMAIN StatusTarget /\ ValueMatches(obs.pay)
       THEN StatusTarget[obs.status]
  ELSE "none"

Reconciles(row, obs) ==
  LET to == ReconcileTarget(row, obs) IN to = row.state \/ Legal(row.state, to)

\* Mutant: a settlement the reconciler found does not record its payment.
ReconcileSettleNameless(s) ==
  LET row == sess[s].row
      obs == sess[s].obs
  IN
  /\ At(s, "observed")
  /\ Reconciles(row, obs)
  /\ Commit(s, [row EXCEPT !.state = ReconcileTarget(row, obs), !.order = HasOrder(row, obs)])
  /\ Finish(s)
  /\ UNCHANGED <<usage, revoked, calls, provider>>

ReconcileSettle(s) ==
  LET row == sess[s].row
      obs == sess[s].obs
      to  == ReconcileTarget(row, obs)
  IN
  /\ At(s, "observed")
  /\ Reconciles(row, obs)
  /\ Commit(s, [row EXCEPT !.state = to, !.order = HasOrder(row, obs),
                           !.pay = IF to = "PAID" THEN obs.pay ELSE @])
  /\ Finish(s)
  /\ UNCHANGED <<usage, revoked, calls, provider>>

\* The unreconciled exits that commit (no payment seen, or a wrong value); the
\* others return with the session still open.
GivesUpWithCommit(row, obs) ==
  \/ obs.pay = NoPay
  \/ /\ ~OrderClosed(row, obs)
     /\ obs.status \in DOMAIN StatusTarget
     /\ ~ValueMatches(obs.pay)

\* The manual call returns to the agent, the worker goes on to count.
ReconcileGiveUp(s) ==
  LET row == sess[s].row
      obs == sess[s].obs
  IN
  /\ At(s, "observed")
  /\ ~Reconciles(row, obs)
  /\ GivesUpWithCommit(row, obs) \/ Handler(s)
  /\ IF GivesUpWithCommit(row, obs)
     THEN Commit(s, [row EXCEPT !.order = HasOrder(row, obs)])
     ELSE UNCHANGED txn
  /\ Become(s, IF Handler(s) THEN Idle ELSE [Idle EXCEPT !.pc = "recount"])
  /\ UNCHANGED <<usage, revoked, calls, provider>>

-----------------------------------------------------------------------------
(* ReconciliationWorker._run_batch, after reconcile_one.                   *)

\* A commit expired the row, so the worker loads it again before counting.
WorkerReload(s) ==
  /\ At(s, "recount")
  /\ Become(s, [Idle EXCEPT !.pc = "counting", !.row = txn])
  /\ UNCHANGED <<usage, revoked, txn, calls, provider>>

\* Count one more failed attempt and dead-letter the row at the limit, from the
\* reloaded row or, when nothing was committed, from the stale one.
WorkerCount(s) ==
  LET row == sess[s].row
      obs == sess[s].obs
      n   == OneMore(row.attempts)
  IN
  /\ s \in Workers
  /\ \/ At(s, "counting")
     \/ At(s, "observed") /\ ~Reconciles(row, obs) /\ ~GivesUpWithCommit(row, obs)
  /\ Commit(s, [row EXCEPT !.attempts = n, !.order = HasOrder(row, obs),
                  !.state = IF n >= DeadLetterAfter
                            THEN Try(@, "PROVIDER_UNKNOWN") ELSE @])
  /\ Finish(s)
  /\ UNCHANGED <<usage, revoked, calls, provider>>

-----------------------------------------------------------------------------
(* refund_authorization.                                                   *)

\* Mutant: the refund is recorded without waiting for the provider.
RefundReadAndRecord(s) ==
  /\ Handler(s) /\ At(s, "idle")
  /\ txn.state = "PAID" /\ txn.pay # NoPay
  /\ Become(s, [Idle EXCEPT !.pc = "refunded", !.row = txn])
  /\ UNCHANGED <<usage, revoked, txn, calls, provider>>

RefundRead(s) ==
  /\ Handler(s) /\ At(s, "idle")
  /\ txn.state = "PAID" /\ txn.pay # NoPay
  /\ Become(s, [Idle EXCEPT !.pc = "refunding", !.row = txn])
  /\ UNCHANGED <<usage, revoked, txn, calls, provider>>

\* The provider refunds a captured payment while value is left in it.  When its
\* answer is lost the handler only records the error; so does a refusal (Crash).
RefundCall(s, answered) ==
  /\ At(s, "refunding")
  /\ pays[sess[s].row.pay] = "captured" /\ refunds < RefundParts
  /\ refunds' = refunds + 1
  /\ Become(s, IF answered THEN [sess[s] EXCEPT !.pc = "refunded"] ELSE Idle)
  /\ UNCHANGED <<usage, revoked, txn, calls, order, pays, last, events>>

RefundRecord(s) ==
  /\ At(s, "refunded")
  /\ Commit(s, [sess[s].row EXCEPT !.state = "REFUNDED"])
  /\ Finish(s)
  /\ UNCHANGED <<usage, revoked, calls, provider>>

-----------------------------------------------------------------------------
(* The provider and the payer (external).                                  *)

Announce(type, p) == events' = events \cup {[type |-> type, pay |-> p]}

\* Checkout needs the order id, which Paari gives out once it is recorded; a
\* new attempt follows a failed one.
PayerAttempt(p) ==
  /\ order = "open" /\ txn.order
  /\ pays[p] = "none"
  /\ last # NoPay => pays[last] \in {"failed", "declined"}
  /\ pays' = [pays EXCEPT ![p] = "created"]
  /\ last' = p
  /\ UNCHANGED <<usage, revoked, txn, sess, calls, order, events, refunds>>

ProviderAuthorizes(p) ==
  /\ pays[p] = "created"
  /\ pays' = [pays EXCEPT ![p] = "authorized"]
  /\ Announce("payment.authorized", p)
  /\ UNCHANGED <<usage, revoked, txn, sess, calls, order, last, refunds>>

\* The announcement and the fact are two things: a capture may be announced
\* and not land.
ProviderAnnouncesCapture(p) ==
  /\ pays[p] = "authorized"
  /\ Announce("payment.captured", p)
  /\ UNCHANGED <<usage, revoked, txn, sess, calls, order, pays, last, refunds>>

ProviderCaptures(p) ==
  /\ pays[p] = "authorized"
  /\ pays' = [pays EXCEPT ![p] = "captured"]
  /\ Announce("payment.captured", p)
  /\ UNCHANGED <<usage, revoked, txn, sess, calls, order, last, refunds>>

ProviderFails(p, how) ==
  /\ pays[p] \in {"created", "authorized"}
  /\ pays' = [pays EXCEPT ![p] = how]
  /\ Announce("payment.failed", p)
  /\ UNCHANGED <<usage, revoked, txn, sess, calls, order, last, refunds>>

ProviderCloses(how) ==
  /\ order = "open"
  /\ \A p \in Pays : pays[p] # "captured"
  /\ order' = how
  /\ UNCHANGED <<usage, revoked, txn, sess, calls, pays, last, events, refunds>>

-----------------------------------------------------------------------------
ConsumeStep(s) ==
  \/ ConsumeReserve(s)
  \/ \E answer \in Answers \ {"none"} : SubmitOrder(s, answer)
  \/ ConsumeLoad(s)
  \/ ConsumeRecord(s)

WebhookStep(s) ==
  \/ \E e \in EventIds : WebhookRead(s, e)
  \/ WebhookApply(s)
  \/ ConfirmLoad(s)
  \/ ConfirmRead(s)
  \/ ConfirmCommit(s)

ReconcileStep(s) ==
  \/ ReconcileRead(s)
  \/ \E o \in OrderStates, p \in Pays \cup {NoPay} : ReconcileObserve(s, o, p)
  \/ ReconcileSettle(s)
  \/ ReconcileGiveUp(s)
  \/ WorkerReload(s)
  \/ WorkerCount(s)

RefundStep(s) ==
  \/ RefundRead(s)
  \/ \E answered \in BOOLEAN : RefundCall(s, answered)
  \/ RefundRecord(s)

SessionStep(s) == ConsumeStep(s) \/ WebhookStep(s) \/ ReconcileStep(s) \/ RefundStep(s) \/ Crash(s)

ProviderStep ==
  \/ \E p \in Pays : \/ PayerAttempt(p)
                     \/ ProviderAuthorizes(p)
                     \/ ProviderAnnouncesCapture(p)
                     \/ ProviderCaptures(p)
                     \/ \E how \in {"failed", "declined"} : ProviderFails(p, how)
  \/ \E how \in Closings : ProviderCloses(how)

Next == (\E s \in Sessions : SessionStep(s)) \/ Revoke \/ ProviderStep

Spec == Init /\ [][Next]_vars

\* The same system when at most one session is open at a time; the provider and
\* the payer still act between any two of its steps.
Serial == \A s, t \in Sessions : s # t => At(s, "idle") \/ At(t, "idle")

SerialSpec == Init /\ [][Next /\ Serial']_vars

\* The worker's loop runs every interval_seconds for ever.  Weak fairness starts
\* its passes; strong fairness says that a crash or an unreachable provider does
\* not strike the same step in every pass.  No request is assumed to finish.
Fairness == \A w \in Workers :
  /\ WF_vars(ReconcileRead(w))
  /\ SF_vars(\E p \in Pays \cup {NoPay} :
               /\ p = Queried(sess[w].row, HasOrder(sess[w].row, Observed(order, NoPay)))
               /\ ReconcileObserve(w, order, p))
  /\ SF_vars(ReconcileSettle(w))
  /\ SF_vars(ReconcileGiveUp(w))
  /\ SF_vars(WorkerReload(w))
  /\ SF_vars(WorkerCount(w))

FairSpec == Spec /\ Fairness

-----------------------------------------------------------------------------
(* Properties.                                                             *)

\* Every variable holds a value of its type: in particular usage_count never
\* passes max_usage, and the row only holds states of the table.
TypeOK ==
  /\ usage \in 0 .. MaxUsage /\ revoked \in BOOLEAN /\ calls \in Nat
  /\ txn \in Row
  /\ sess \in [Sessions -> Session]
  /\ \A s \in Sessions : At(s, "applying") => sess[s].evt \in EventIds
  /\ order \in OrderStates /\ last \in Pays \cup {NoPay}
  /\ pays \in [Pays -> PayStates]
  /\ events \subseteq EventIds
  /\ refunds \in 0 .. RefundParts

\* Whatever races, crashes and retries consume meets, the provider is asked for
\* an order at most once per authorization.
SingleSubmission == calls <= 1

\* A revoked authorization has reached no provider: revoke and consume exclude
\* each other, and neither the webhook, the reconciler nor the dead-letter of
\* the worker can carry its row past PROVIDER_UNKNOWN.
RevokedNeverExecutes ==
  revoked => /\ calls = 0 /\ order = "none" /\ ~txn.order
             /\ txn.state \in {"AUTHORIZED", "PROVIDER_UNKNOWN"}

\* The row says PAID or REFUNDED only if the provider really captured a payment
\* of the authorized value.  Holds although commits are blind writes of a state
\* computed from an old copy, and although a capture may be announced that
\* never lands.
SettledOnlyIfCaptured ==
  txn.state \in {"PAID", "REFUNDED"} => \E p \in Matching : pays[p] = "captured"

\* The row says REFUNDED only if the provider accepted a refund.
RefundedOnlyIfPaidBack == txn.state = "REFUNDED" => refunds > 0

\* The payment id that a refund will be sent to is one of the authorized value,
\* whichever of the webhook, the confirmation and the reconciler wrote it last.
RecordedPaymentMatches == txn.pay \in Matching \cup {NoPay}

\* A settled row can be refunded: it names an order and a payment, although the
\* state, the order id and the payment id of one row may be written by different
\* sessions from copies of different age (refund_authorization answers 409
\* without a payment id).
SettledNamesPayment ==
  txn.state \in {"PAID", "REFUNDED"} => txn.pay # NoPay /\ txn.order

\* An authorization reaches the provider at most once, and not at all once it has
\* been revoked.
ExecutesOnce == SingleSubmission /\ RevokedNeverExecutes

\* PAID and REFUNDED are backed by what the provider did.
BackedByProvider == SettledOnlyIfCaptured /\ RefundedOnlyIfPaidBack

\* Whoever wrote its columns last, the row names a payment of the authorized value
\* or none, and one that is settled names it together with its order.
RowSound == RecordedPaymentMatches /\ SettledNamesPayment

\* No row is ever CANCELLED or EXPIRED, whatever the provider does with the order:
\* reconcile_one's branches for a closed order need an order id, and the table
\* allows the two states only from AUTHORIZED, which a row with an order id has
\* always left.  README.md:149 and tests/test_state_reachability.py:26 name both
\* among the states a payment can reach.
NeverClosed == txn.state \notin {"CANCELLED", "EXPIRED"}

\* The use, the money and the reports that PaymentLifecycle speaks of.
Grant == IF revoked THEN "revoked" ELSE IF usage = 0 THEN "open" ELSE "spent"

Money == IF \E p \in Matching : pays[p] = "captured"
           THEN IF refunds > 0 THEN "returned" ELSE "taken"
           ELSE "kept"

Told == CASE txn.state = "PAID" -> "paid"
          [] txn.state = "REFUNDED" -> "refunded"
          [] OTHER -> "unsettled"

L == INSTANCE PaymentLifecycle WITH
       grant <- Grant, requests <- calls, money <- Money, report <- Told

\* The order rail implements the promise of an authorization: every step of
\* every handler, of the worker and of the provider is one of its steps or none.
ImplementsLifecycle == L!Spec

\* Every change of the row's state is one the table allows (transitions.py:
\* "illegal jumps fail loudly").  Holds when sessions do not overlap.
LegalTransitions == [][txn'.state # txn.state => Legal(txn.state, txn'.state)]_vars

\* An order the provider holds is found again after a crash or a lost answer:
\* its id is recorded, unless the row has ended or consume marked it FAILED.
OrderIsRecovered ==
  order # "none" ~> (txn.order \/ txn.state \in TerminalStates \cup {"FAILED"})

\* A capture of the authorized value is eventually recorded as settled, with no
\* help from webhooks and however confirmations and requests die.
CaptureIsSettled ==
  (\E p \in Matching : pays[p] = "captured") ~> txn.state \in {"PAID", "REFUNDED"}
=============================================================================
