----------------------- MODULE AutonomousSettlement -----------------------
(***************************************************************************)
(* Execution of ONE bounded authorization over a provider-native mandate:  *)
(* revalidation of the authority, the reservation, the choice of rail, the *)
(* debit (authorize, capture, read back) and what reconciliation and its   *)
(* worker make of the row afterwards.  The ordinary order rail is followed *)
(* up to the order; Settlement.tla has the rest of it.                     *)
(*                                                                         *)
(* A request keeps its copy of the row across provider calls, as in        *)
(* Settlement.tla.  Unlike there, the debit is FLUSHED before the capture: *)
(* the database then holds the row's lock until the request commits, and   *)
(* what was flushed is lost when the request dies.                         *)
(***************************************************************************)
EXTENDS PaariTransitions, Deployment, Naturals

CONSTANTS
  Sessions,         \* request threads and worker threads with a session open
  Workers,          \* the sessions that run ReconciliationWorker._run_batch
  Deployments,      \* deployment records; one that starts is picked
  Refs,             \* provider_mandate_ref values, each bound at most once
  Withdrawable,     \* grounds that may be withdrawn during a behaviour
  Restorable,       \* those of them that may come back
  DeadLetterAfter,  \* ReconciliationWorker.dead_letter_after
  NoSession, NoRef

\* What _revalidate_execution asks, each refused for a reason of its own.
Grounds ==
  {"agent", "parent", "delegation", "credential", "authorization",
   "mandate", "window", "signature", "limit", "currency", "merchant", "category"}

ASSUME AutonomousAssumption ==
  /\ Workers \subseteq Sessions
  /\ NoSession \notin Sessions /\ NoRef \notin Refs
  /\ Deployments \subseteq DeploymentType
  /\ Withdrawable \subseteq Grounds /\ Restorable \subseteq Withdrawable
  /\ DeadLetterAfter \in Nat \ {0}

MaxUsage == 1

VARIABLES
  dep,       \* the deployment the process was started with
  grounds,   \* the grounds that hold now
  usage,     \* bounded_authorizations.usage_count
  revoked,   \* history: the use was burned by revoke_authorization
  txn,       \* the provider_transactions row, as committed
  lock,      \* who holds its row lock across a flush
  bindings,  \* payment_instrument_bindings of the mandate, by provider reference
  sess,      \* what each session holds between two of its steps
  asked,     \* history: debits and orders requested for this authorization
  instr,     \* the provider: is its mandate active
  debit,     \* the provider: the payment under our idempotency key
  order      \* the provider: does the order with our receipt exist

provider == <<asked, instr, debit, order>>
vars == <<dep, grounds, usage, revoked, txn, lock, bindings, sess, provider>>

Environments == {"unknown", "simulated", "test", "live"}

Row == [state : TxnStates, pay : BOOLEAN, order : BOOLEAN,
        env : Environments, attempts : 0 .. DeadLetterAfter]
FreshRow == [state |-> "AUTHORIZED", pay |-> FALSE, order |-> FALSE,
             env |-> "unknown", attempts |-> 0]

\* `right`: amount and currency are those of the authorization.
Debit == [status : {"none", "authorized", "captured", "failed", "declined"},
          right : BOOLEAN]
NoDebit == [status |-> "none", right |-> FALSE]

Pcs == {"idle", "revalidated", "reserved", "validating", "authorizing",
        "answered", "recording", "capturing", "corroborating", "settling",
        "loaded", "observed", "recount", "counting"}

CaptureAnswers == {"captured", "pending", "failed", "declined", "unclear", "raised"}
ReadbackAnswers == {"corroborated", "denied", "readtimeout", "readerror"}
Answers == {"none", "refused", "timeout", "accepted", "ordered"}
           \cup CaptureAnswers \cup ReadbackAnswers

Session == [pc : Pcs, row : Row, ref : Refs \cup {NoRef}, ans : Answers,
            seen : Debit, found : BOOLEAN]
Idle == [pc |-> "idle", row |-> FreshRow, ref |-> NoRef, ans |-> "none",
         seen |-> NoDebit, found |-> FALSE]

Init ==
  /\ dep \in {d \in Deployments : Starts(d)}
  /\ grounds = Grounds
  /\ usage = 0 /\ revoked = FALSE /\ asked = [debits |-> 0, orders |-> 0]
  /\ txn = FreshRow /\ lock = NoSession
  /\ bindings = [r \in Refs |-> "none"]
  /\ instr = [r \in Refs |-> TRUE]
  /\ sess = [s \in Sessions |-> Idle]
  /\ debit = NoDebit /\ order = FALSE

-----------------------------------------------------------------------------
(* The database session.                                                   *)

At(s, pc) == sess[s].pc = pc
Handler(s) == s \notin Workers
Become(s, rec) == sess' = [sess EXCEPT ![s] = rec]
Finish(s) == Become(s, Idle)

\* A unit of work writes the columns that differ from the copy it loaded.
Merged(db, old, new) ==
  [state    |-> IF new.state = old.state THEN db.state ELSE new.state,
   pay      |-> IF new.pay = old.pay THEN db.pay ELSE new.pay,
   order    |-> IF new.order = old.order THEN db.order ELSE new.order,
   env      |-> IF new.env = old.env THEN db.env ELSE new.env,
   attempts |-> IF new.attempts = old.attempts THEN db.attempts ELSE new.attempts]

\* An UPDATE waits for the session that has flushed the row.
Commit(s, new) ==
  /\ lock \in {NoSession, s}
  /\ txn' = Merged(txn, sess[s].row, new)
  /\ lock' = NoSession

OneMore(n) == IF n < DeadLetterAfter THEN n + 1 ELSE n
Try(from, to) == IF Legal(from, to) THEN to ELSE from

\* Mutant: the lock of a flushed row outlives the request.
CrashKeepsLock(s) ==
  /\ ~At(s, "idle")
  /\ Finish(s)
  /\ UNCHANGED <<dep, grounds, usage, revoked, txn, lock, bindings, provider>>

\* The process dies or the request is aborted: what was not committed is lost,
\* a flushed debit included.
Crash(s) ==
  /\ ~At(s, "idle")
  /\ Finish(s)
  /\ lock' = IF lock = s THEN NoSession ELSE lock
  /\ UNCHANGED <<dep, grounds, usage, revoked, txn, bindings, provider>>

-----------------------------------------------------------------------------
(* consume_authorization, up to the choice of rail.                        *)

\* Mutant: the mandate is not looked at again at execution time.
IntactWithoutMandate == Grounds \ {"mandate"} \subseteq grounds

\* _revalidate_execution passes.
Intact == Grounds \subseteq grounds

Revalidate(s) ==
  /\ Handler(s) /\ At(s, "idle")
  /\ Intact
  /\ Become(s, [Idle EXCEPT !.pc = "revalidated"])
  /\ UNCHANGED <<dep, grounds, usage, revoked, txn, lock, bindings, provider>>

\* Mutant: the reservation is no longer conditional.
UnusedUnchecked == TRUE

Unused == usage < MaxUsage

\* The conditional UPDATE and the commit that makes it durable before any
\* provider is called.
Reserve(s) ==
  /\ At(s, "revalidated")
  /\ Unused
  /\ usage' = usage + 1
  /\ txn' = [txn EXCEPT !.attempts = OneMore(@)]
  /\ Become(s, [sess[s] EXCEPT !.pc = "reserved"])
  /\ UNCHANGED <<dep, grounds, revoked, lock, bindings, provider>>

\* Mutant: a deployment without a capable adapter always falls back to checkout.
OrdersIfIncapable(d) == Adapter(d) # "malformed" /\ ~Capable(d)

\* Only outside the autonomous posture, and only without a capable adapter, may
\* an ordinary order be created.
TakesOrderRail(d) == Adapter(d) # "malformed" /\ ~Capable(d) /\ ~Autonomous(d)

\* Neither rail: an adapter that cannot be loaded, autonomous mode without a
\* capable one, or a tenant without an account of its own.
NoRail(d) ==
  \/ Adapter(d) = "malformed"
  \/ ~Capable(d) /\ ~TakesOrderRail(d)
  \/ TakesOrderRail(d) /\ ~AccountResolves(d)

RefuseRail(s) ==
  /\ At(s, "reserved")
  /\ NoRail(dep)
  /\ Become(s, [sess[s] EXCEPT !.pc = "answered", !.ans = "refused"])
  /\ UNCHANGED <<dep, grounds, usage, revoked, txn, lock, bindings, provider>>

\* create_payment: the order may exist although the call timed out or failed,
\* or answered with an order that does not match.
SubmitOrder(s, ans) ==
  /\ At(s, "reserved")
  /\ TakesOrderRail(dep) /\ AccountResolves(dep)
  /\ asked' = [asked EXCEPT !.orders = @ + 1]
  /\ order' \in IF ans = "ordered" THEN {TRUE} ELSE {order, TRUE}
  /\ Become(s, [sess[s] EXCEPT !.pc = "answered", !.ans = ans])
  /\ UNCHANGED <<dep, grounds, usage, revoked, txn, lock, bindings, instr, debit>>

\* The row expired at the reservation commit: it is loaded again here.
Load(s) ==
  /\ At(s, "answered")
  /\ Become(s, [sess[s] EXCEPT !.pc = "recording", !.row = txn])
  /\ UNCHANGED <<dep, grounds, usage, revoked, txn, lock, bindings, provider>>

Outcome(row, ans) ==
  CASE ans = "ordered" ->
         [row EXCEPT !.order = TRUE, !.env = Environment(dep),
            !.state = IF Legal(@, "PROVIDER_SUBMITTED") THEN "PROVIDER_SUBMITTED"
                      ELSE Try(@, "FAILED")]
    [] ans = "timeout" -> [row EXCEPT !.state = Try(@, "PROVIDER_UNKNOWN")]
    [] OTHER -> [row EXCEPT !.state = Try(@, "FAILED")]

\* Every exit of consume before a debit is accepted.
Record(s) ==
  /\ At(s, "recording")
  /\ sess[s].ans # "accepted" \/ ~Legal(sess[s].row.state, "PROVIDER_SUBMITTED")
  /\ Commit(s, Outcome(sess[s].row, sess[s].ans))
  /\ Finish(s)
  /\ UNCHANGED <<dep, grounds, usage, revoked, bindings, provider>>

-----------------------------------------------------------------------------
(* _consume_agentic_settlement: the debit.                                 *)

UsesMandate(d) == Adapter(d) # "malformed" /\ Capable(d)
Simulated == Adapter(dep) = "reference"
ActiveBindings == {r \in Refs : bindings[r] = "active"}

ChooseBinding(s, r) ==
  /\ At(s, "reserved")
  /\ UsesMandate(dep)
  /\ r \in ActiveBindings
  /\ Become(s, [sess[s] EXCEPT !.pc = "validating", !.ref = r])
  /\ UNCHANGED <<dep, grounds, usage, revoked, txn, lock, bindings, provider>>

NoBinding(s) ==
  /\ At(s, "reserved")
  /\ UsesMandate(dep)
  /\ ActiveBindings = {}
  /\ Become(s, [sess[s] EXCEPT !.pc = "answered", !.ans = "refused"])
  /\ UNCHANGED <<dep, grounds, usage, revoked, txn, lock, bindings, provider>>

Took(ans, d) == [ans |-> ans, debit |-> d]
Requested(right) ==
  IF debit.status = "none" THEN [status |-> "authorized", right |-> right] ELSE debit
Moved == [debit EXCEPT !.status = "captured"]

\* The adapters: what a call may answer, and the debit it leaves behind.  The
\* reference adapter, in memory, believes every reference it is given.
ReferenceValidate == {"valid"}
ReferenceAuthorize == {Took("accepted", Requested(TRUE))}
ReferenceCapture == {IF debit.right THEN Took("captured", Moved) ELSE Took("raised", debit)}

\* Invalid or any other error is "refused"; only a timeout is told apart.  With
\* neither a validate path nor a token list there is nothing to ask.
RazorpayValidate(r) ==
  {"refused", "timeout"}
  \cup (IF instr[r] /\ (dep.validatePath \/ dep.tokenList) THEN {"valid"} ELSE {})

\* The provider debits only an active mandate, once per idempotency key, and may
\* have done so although its answer was lost.
RazorpayAuthorize(r) ==
  {Took(ans, debit) : ans \in {"refused", "timeout"}}
  \cup (IF instr[r]
        THEN {Took(ans, Requested(right)) : ans \in {"accepted", "refused", "timeout"},
                                            right \in BOOLEAN}
        ELSE {})

\* Without a capture path the adapter only reads; any read or call may raise.  The
\* answer of the capture call is the provider's word alone: it may say captured of
\* a payment that is only authorized, still to be captured or to fail.
RazorpayCapture ==
  {Took("raised", debit)} \cup
  CASE debit.status = "captured" /\ dep.word = "captured" -> {Took("captured", debit)}
    [] debit.status = "captured" /\ dep.word = "paid" -> {Took("unclear", debit)}
    [] debit.status = "authorized" /\ dep.capturePath ->
         {Took(IF dep.word = "captured" THEN "captured" ELSE "unclear", d) : d \in {Moved, debit}}
         \cup {Took("raised", Moved), Took("unclear", Moved),
               Took("pending", debit), Took("unclear", debit)}
         \cup {Took(how, [debit EXCEPT !.status = how]) : how \in {"failed", "declined"}}
    [] OTHER -> {}

Validate(s, ans) ==
  /\ At(s, "validating")
  /\ ans \in IF Simulated THEN ReferenceValidate ELSE RazorpayValidate(sess[s].ref)
  /\ Become(s, IF ans = "valid" THEN [sess[s] EXCEPT !.pc = "authorizing"]
                ELSE [sess[s] EXCEPT !.pc = "answered", !.ans = ans])
  /\ UNCHANGED <<dep, grounds, usage, revoked, txn, lock, bindings, provider>>

\* The debit request, under an idempotency key made of the authorization's id.
Authorize(s) ==
  /\ At(s, "authorizing")
  /\ asked' = [asked EXCEPT !.debits = @ + 1]
  /\ \E result \in IF Simulated THEN ReferenceAuthorize ELSE RazorpayAuthorize(sess[s].ref) :
       /\ debit' = result.debit
       /\ Become(s, [sess[s] EXCEPT !.pc = "answered", !.ans = result.ans])
  /\ UNCHANGED <<dep, grounds, usage, revoked, txn, lock, bindings, instr, order>>

\* PROVIDER_SUBMITTED, the payment id and two audit events are flushed, not
\* committed, and the row stays locked.
Submit(s) ==
  /\ At(s, "recording") /\ sess[s].ans = "accepted"
  /\ Legal(sess[s].row.state, "PROVIDER_SUBMITTED")
  /\ lock = NoSession
  /\ lock' = s
  /\ Become(s, [sess[s] EXCEPT !.pc = "capturing", !.ans = "none"])
  /\ UNCHANGED <<dep, grounds, usage, revoked, txn, bindings, provider>>

Capture(s) ==
  /\ At(s, "capturing")
  /\ \E result \in IF Simulated THEN ReferenceCapture ELSE RazorpayCapture :
       /\ debit' = result.debit
       /\ Become(s, [sess[s] EXCEPT !.ans = result.ans,
                       !.pc = IF result.ans = "captured" THEN "corroborating" ELSE "settling"])
  /\ UNCHANGED <<dep, grounds, usage, revoked, txn, lock, bindings, asked, instr, order>>

\* Mutant: the amount read back is not compared.
CorroboratedByStatus(d) == d.status = "captured" /\ dep.word = "captured"

\* Mutant: the status read back is not compared.
CorroboratedByValue(d) == d.right

\* The provider, asked directly, reports this exact value as captured.
Corroborated(d) == d.status = "captured" /\ dep.word = "captured" /\ d.right

Readback(s, ans) ==
  /\ At(s, "corroborating")
  /\ \/ ans = IF Corroborated(debit) THEN "corroborated" ELSE "denied"
     \/ ~Simulated /\ ans \in {"readtimeout", "readerror"}
  /\ Become(s, [sess[s] EXCEPT !.pc = "settling", !.ans = ans])
  /\ UNCHANGED <<dep, grounds, usage, revoked, txn, lock, bindings, provider>>

\* The state each outcome is left in.  A read that fails after the capture leads
\* to the handlers of consume: FAILED is illegal from CAPTURED and is dropped.
SettledState == [ans \in CaptureAnswers \cup ReadbackAnswers |->
  CASE ans = "corroborated" -> "PAID"
    [] ans \in {"captured", "denied", "readerror"} -> "CAPTURED"
    [] ans = "pending" -> "PROVIDER_AUTHORIZED"
    [] ans = "failed" -> "FAILED"
    [] ans = "declined" -> "DECLINED"
    [] OTHER -> "PROVIDER_UNKNOWN"]

\* Mutant: the payment id is not among the committed columns.
SettleWithoutPay(s) ==
  /\ At(s, "settling") /\ lock = s
  /\ txn' = [txn EXCEPT !.state = SettledState[sess[s].ans]]
  /\ lock' = NoSession
  /\ Finish(s)
  /\ UNCHANGED <<dep, grounds, usage, revoked, bindings, provider>>

\* The commit that makes the flushed columns and the outcome durable together.
Settle(s) ==
  /\ At(s, "settling") /\ lock = s
  /\ txn' = [txn EXCEPT !.state = SettledState[sess[s].ans], !.pay = TRUE,
               !.env = IF DebitEnvironment(dep) = "unknown" THEN @ ELSE DebitEnvironment(dep)]
  /\ lock' = NoSession
  /\ Finish(s)
  /\ UNCHANGED <<dep, grounds, usage, revoked, bindings, provider>>

-----------------------------------------------------------------------------
(* reconcile_one, called by manual_reconcile and by the worker.            *)

NeedsReceipt(row) == row.state = "PROVIDER_UNKNOWN" /\ ~row.order /\ AccountResolves(dep)

\* The reconciler asks the order adapter's account about the payment.
Visible == AccountResolves(dep) /\ DebitAccount(dep) = OrderAccount(dep)

ReconcileRead(s) ==
  /\ At(s, "idle")
  /\ txn.state \notin TerminalStates
  /\ Become(s, [Idle EXCEPT !.pc = "loaded", !.row = txn])
  /\ UNCHANGED <<dep, grounds, usage, revoked, txn, lock, bindings, provider>>

\* Mutant: payments are looked for by order only, as if there were no debits.
ObserveByOrder(s, answered) ==
  LET row == sess[s].row IN
  /\ At(s, "loaded")
  /\ Become(s, [sess[s] EXCEPT !.pc = "observed",
                  !.found = row.order \/ (NeedsReceipt(row) /\ order)])
  /\ UNCHANGED <<dep, grounds, usage, revoked, txn, lock, bindings, provider>>

\* An order found by receipt has no payments yet: those are Settlement.tla's.
ReconcileObserve(s, answered) ==
  LET row == sess[s].row IN
  /\ At(s, "loaded")
  /\ Become(s, [sess[s] EXCEPT !.pc = "observed",
                  !.found = row.order \/ (NeedsReceipt(row) /\ order),
                  !.seen = IF row.pay /\ Visible /\ answered THEN debit ELSE NoDebit])
  /\ UNCHANGED <<dep, grounds, usage, revoked, txn, lock, bindings, provider>>

KnownStatus(seen) ==
  seen.status \in {"authorized", "failed"} \/ (seen.status = "captured" /\ dep.word = "captured")

\* A decline is believed without the value checks the other statuses pass.
ReconcileTarget(seen) ==
  CASE seen.status = "declined" -> "DECLINED"
    [] KnownStatus(seen) /\ seen.right ->
         (CASE seen.status = "captured" -> "PAID"
            [] seen.status = "failed" -> "FAILED"
            [] OTHER -> "PROVIDER_AUTHORIZED")
    [] OTHER -> "none"

Reconciles(row, seen) ==
  LET to == ReconcileTarget(seen) IN to = row.state \/ Legal(row.state, to)

ReconcileSettle(s) ==
  LET row == sess[s].row IN
  /\ At(s, "observed")
  /\ Reconciles(row, sess[s].seen)
  /\ Commit(s, [row EXCEPT !.state = ReconcileTarget(sess[s].seen), !.order = sess[s].found])
  /\ Finish(s)
  /\ UNCHANGED <<dep, grounds, usage, revoked, bindings, provider>>

\* The unreconciled exits that commit: no payment seen, or a wrong value.
GivesUpWithCommit(seen) == seen.status = "none" \/ (KnownStatus(seen) /\ ~seen.right)

ReconcileGiveUp(s) ==
  LET row  == sess[s].row
      seen == sess[s].seen
  IN
  /\ At(s, "observed")
  /\ ~Reconciles(row, seen)
  /\ GivesUpWithCommit(seen) \/ Handler(s)
  /\ IF GivesUpWithCommit(seen) THEN Commit(s, [row EXCEPT !.order = sess[s].found])
     ELSE UNCHANGED <<txn, lock>>
  /\ Become(s, IF Handler(s) THEN Idle ELSE [Idle EXCEPT !.pc = "recount"])
  /\ UNCHANGED <<dep, grounds, usage, revoked, bindings, provider>>

WorkerReload(s) ==
  /\ At(s, "recount")
  /\ Become(s, [Idle EXCEPT !.pc = "counting", !.row = txn])
  /\ UNCHANGED <<dep, grounds, usage, revoked, txn, lock, bindings, provider>>

\* One more failed pass, and the dead letter at the limit.
WorkerCount(s) ==
  LET row  == sess[s].row
      seen == sess[s].seen
      n    == OneMore(row.attempts)
  IN
  /\ s \in Workers
  /\ \/ At(s, "counting")
     \/ At(s, "observed") /\ ~Reconciles(row, seen) /\ ~GivesUpWithCommit(seen)
  /\ Commit(s, [row EXCEPT !.attempts = n,
                  !.order = IF At(s, "observed") THEN sess[s].found ELSE @,
                  !.state = IF n >= DeadLetterAfter THEN Try(@, "PROVIDER_UNKNOWN") ELSE @])
  /\ Finish(s)
  /\ UNCHANGED <<dep, grounds, usage, revoked, bindings, provider>>

-----------------------------------------------------------------------------
(* Administration, time, and the provider (external).                      *)

RevokeAuthorization ==
  /\ Unused
  /\ usage' = MaxUsage
  /\ revoked' = TRUE
  /\ UNCHANGED <<dep, grounds, txn, lock, bindings, sess, provider>>

\* A ground is withdrawn by revocation, suspension or the clock, and some come
\* back.  Neither touches authorizations, bindings or the provider's mandate.
Withdraw(g) ==
  /\ g \in Withdrawable \cap grounds
  /\ grounds' = grounds \ {g}
  /\ UNCHANGED <<dep, usage, revoked, txn, lock, bindings, sess, provider>>

Restore(g) ==
  /\ g \in Restorable \ grounds
  /\ grounds' = grounds \cup {g}
  /\ UNCHANGED <<dep, usage, revoked, txn, lock, bindings, sess, provider>>

\* bind_provider_mandate: an ACTIVE mandate inside its window, and a provider
\* reference the unique index has not seen.
Bind(r) ==
  /\ {"mandate", "window"} \subseteq grounds
  /\ bindings[r] = "none"
  /\ bindings' = [bindings EXCEPT ![r] = "active"]
  /\ UNCHANGED <<dep, grounds, usage, revoked, txn, lock, sess, provider>>

BindingExpires(r) ==
  /\ bindings[r] = "active"
  /\ bindings' = [bindings EXCEPT ![r] = "expired"]
  /\ UNCHANGED <<dep, grounds, usage, revoked, txn, lock, sess, provider>>

ProviderRevokes(r) ==
  /\ instr[r]
  /\ instr' = [instr EXCEPT ![r] = FALSE]
  /\ UNCHANGED <<dep, grounds, usage, revoked, txn, lock, bindings, sess, asked, debit, order>>

\* A contract may capture by itself, or drop what it authorized.
ProviderResolves(how) ==
  /\ ~Simulated
  /\ debit.status = "authorized"
  /\ debit' = [debit EXCEPT !.status = how]
  /\ UNCHANGED <<dep, grounds, usage, revoked, txn, lock, bindings, sess, asked, instr, order>>

-----------------------------------------------------------------------------
ConsumeStep(s) ==
  \/ Revalidate(s) \/ Reserve(s) \/ RefuseRail(s)
  \/ \E ans \in {"ordered", "timeout", "refused"} : SubmitOrder(s, ans)
  \/ Load(s) \/ Record(s)

DebitStep(s) ==
  \/ \E r \in Refs : ChooseBinding(s, r)
  \/ NoBinding(s)
  \/ \E ans \in {"valid", "refused", "timeout"} : Validate(s, ans)
  \/ Authorize(s)
  \/ Submit(s)

\* The steps of a request that holds the lock of the row.
LockedStep(s) ==
  \/ Capture(s)
  \/ \E ans \in ReadbackAnswers : Readback(s, ans)
  \/ Settle(s)

ReconcileStep(s) ==
  \/ ReconcileRead(s)
  \/ \E answered \in BOOLEAN : ReconcileObserve(s, answered)
  \/ ReconcileSettle(s) \/ ReconcileGiveUp(s)
  \/ WorkerReload(s) \/ WorkerCount(s)

AdminStep ==
  \/ RevokeAuthorization
  \/ \E g \in Withdrawable : Withdraw(g) \/ Restore(g)
  \/ \E r \in Refs : Bind(r) \/ BindingExpires(r)

ProviderStep ==
  \/ \E r \in Refs : ProviderRevokes(r)
  \/ \E how \in {"captured", "failed", "declined"} : ProviderResolves(how)

Next ==
  \/ \E s \in Sessions : ConsumeStep(s) \/ DebitStep(s) \/ LockedStep(s)
                         \/ ReconcileStep(s) \/ Crash(s)
  \/ AdminStep
  \/ ProviderStep

Spec == Init /\ [][Next]_vars

\* The worker starts passes for ever and finishes or loses each; a crash or an
\* unreachable provider does not strike the same look-up or the same commit of a
\* settlement in every pass.  A request that holds the row's lock ends, because
\* every call of the adapter has a timeout (15 seconds).
Fairness ==
  /\ \A w \in Workers :
       /\ WF_vars(ReconcileRead(w))
       /\ SF_vars(ReconcileObserve(w, TRUE))
       /\ SF_vars(ReconcileSettle(w))
       /\ WF_vars(ReconcileGiveUp(w) \/ WorkerReload(w) \/ WorkerCount(w))
  /\ \A s \in Sessions \ Workers : WF_vars(lock = s /\ (LockedStep(s) \/ Crash(s)))

FairSpec == Spec /\ Fairness

-----------------------------------------------------------------------------
(* Properties.                                                             *)

\* Every variable holds a value of its type, and only a request between its
\* flush and its commit holds the row's lock.
TypeOK ==
  /\ dep \in Deployments /\ grounds \subseteq Grounds
  /\ usage \in 0 .. MaxUsage /\ revoked \in BOOLEAN
  /\ asked \in [debits : Nat, orders : Nat]
  /\ txn \in Row /\ sess \in [Sessions -> Session]
  /\ bindings \in [Refs -> {"none", "active", "expired"}]
  /\ instr \in [Refs -> BOOLEAN] /\ debit \in Debit /\ order \in BOOLEAN
  /\ lock \in Sessions \cup {NoSession}
  /\ \A s \in Sessions :
       lock = s <=> sess[s].pc \in {"capturing", "corroborating", "settling"}

\* The use, the money and the reports that PaymentLifecycle speaks of.
Grant == IF revoked THEN "revoked" ELSE IF usage = 0 THEN "open" ELSE "spent"
Money == IF debit.status = "captured" /\ debit.right THEN "taken" ELSE "kept"
Told  == IF txn.state = "PAID" THEN "paid" ELSE "unsettled"

L == INSTANCE PaymentLifecycle WITH
       grant <- Grant, requests <- asked.debits + asked.orders, money <- Money, report <- Told

\* Both rails together implement the promise of an authorization: whatever
\* requests race or die, there is one debit request or one order request, never
\* both, none once the authorization has been revoked, and PAID is recorded only
\* after the provider captured exactly the authorized value.
ImplementsLifecycle == L!Spec

\* docs/PROVIDER_AUTONOMOUS_SETTLEMENT.md, rule 4, and the startup refusals taken
\* together: in the autonomous posture no checkout order is ever created, and in
\* production the money moves at the real provider or in the reference adapter.
FailsClosed ==
  /\ Autonomous(dep) => asked.orders = 0
  /\ Production(dep) => /\ asked.orders = 0
                        /\ debit.status # "none" => Simulated \/ ApiBase(dep) = "production"

\* A row that has got as far as the provider's answer names the payment it is
\* about, and PROVIDER_SUBMITTED is never left behind by a debit: a crash takes
\* the flushed state and the payment id away together.
RowNamesItsDebit ==
  /\ txn.state \in {"PROVIDER_SUBMITTED", "PROVIDER_AUTHORIZED", "CAPTURED", "PAID", "DECLINED"}
       => txn.pay \/ txn.order
  /\ txn.pay => txn.state # "PROVIDER_SUBMITTED" /\ debit.status # "none"

\* What an outsider is told: a settlement attributed to the provider was never
\* taken in memory or at a simulator.
HonestSource ==
  SettlementSource(txn.env) = "provider" => ~Simulated /\ ApiBase(dep) = "production"

\* A deployment does what its variables say, and says what it did.
DeploymentHonoured == FailsClosed /\ HonestSource

\* Once a ground is gone for good and no execution is past its checks, nothing
\* is submitted any more.  A request already past them is not stopped: the
\* property does not hold without that condition (see RevocationBlocks).
LostForGood == \E g \in Withdrawable \ Restorable : g \notin grounds
Quiet ==
  /\ asked.debits + asked.orders = 0
  /\ \A s \in Sessions : sess[s].pc \in {"idle", "loaded", "observed", "recount", "counting"}
RevocationSticks == [][LostForGood /\ Quiet => asked' = asked /\ (LostForGood /\ Quiet)']_vars

\* A debit whose payment id was committed is settled once the provider reports
\* it captured in this value, whatever request died on the way: when the
\* reconciler's account is the one that was debited.
KnownDebitSettles ==
  (txn.pay /\ Visible /\ Corroborated(debit)) ~> txn.state = "PAID"
=============================================================================
