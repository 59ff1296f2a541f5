---------------------------- MODULE Governance ----------------------------
(***************************************************************************)
(* How one agent's payment intents are decided and authorized: submission  *)
(* under the user's mandates and their serialization gates (on Postgres),  *)
(* step-up approval by the parent, and the sweepers.  Rows of two agents   *)
(* meet nowhere in this code, so one agent is enough.                      *)
(*                                                                         *)
(* A request is a database session whose committed steps interleave with   *)
(* those of other requests; `now` is read once, when the request arrives.  *)
(***************************************************************************)
EXTENDS Naturals, FiniteSetsExt

CONSTANTS
  Sessions,         \* requests in progress
  Keys,             \* idempotency keys; an intent is known by its key
  Amounts,          \* requested amounts, in minor units
  AgentLimit,       \* agents.payment_limit_minor_units
  Mandates,         \* mandate ids: gates are taken in their order
  Limits,           \* what the user agreed to in each mandate
  MandateRequired,  \* PAARI_MODE=autonomous
  VelocityMax, VelocityWindow, ReviewTTL, ChallengeTTL,
  Challenges,       \* ids of the step-up challenges that may be issued
  MaxClock,         \* bound on time
  NoSession, NoKey  \* SQL NULL, and no holder of a lock

ASSUME GovernanceAssumption ==
  /\ Amounts \subseteq Nat /\ AgentLimit \in Nat /\ Mandates \subseteq Nat
  /\ MandateRequired \in BOOLEAN
  /\ {VelocityMax, VelocityWindow, ReviewTTL, ChallengeTTL, MaxClock} \subseteq Nat
  /\ Limits \in [Mandates -> [each : Nat, reviewAbove : Nat,
                              budgets : SUBSET [window : Nat, limit : Nat]]]
  /\ NoSession \notin Sessions /\ NoKey \notin Keys

VARIABLES
  clock,
  authority,  \* agent, credential and parent are ACTIVE
  mand,       \* user_payment_mandates
  gate,       \* who holds the advisory lock of each mandate
  intents,    \* payment_intents, by idempotency key
  auths,      \* keys of the intents with a bounded authorization
  chals,      \* mfa_challenges
  sess        \* what each request holds between two of its steps

vars == <<clock, authority, mand, gate, intents, auths, chals, sess>>

Times == 0 .. MaxClock
Decisions == {"ALLOW", "REVIEW", "DENY"}

\* `born` is when the row was committed, and is not read by the code.
Mandate == [status : {"none", "active", "revoked", "expired"},
            from : Nat, until : Nat, born : Nat]

\* `under` is MandateDecision.evaluated, the mandates that permitted the intent.
\* mfa_required and review_expires_at are functions of the other columns.
Intent == [decision : Decisions \cup {"none"}, amount : Nat, created : Nat,
           verified : BOOLEAN, under : SUBSET Mandates]

Challenge == [key : Keys \cup {NoKey}, until : Nat, used : BOOLEAN]

InGates == {"evaluating", "recording", "trying", "committing"}
Submitting == InGates \cup {"resolving", "free", "minting"}
Pcs == Submitting \cup {"idle", "challenging", "verifying"}

Session == [pc : Pcs, key : Keys \cup {NoKey}, amount : Nat, now : Nat,
            want : SUBSET Mandates, under : SUBSET Mandates,
            verdict : Decisions, burn : SUBSET Challenges]

NoMandate == [status |-> "none", from |-> 0, until |-> 0, born |-> 0]
NoIntent == [decision |-> "none", amount |-> 0, created |-> 0,
             verified |-> FALSE, under |-> {}]
Unissued == [key |-> NoKey, until |-> 0, used |-> FALSE]
Idle == [pc |-> "idle", key |-> NoKey, amount |-> 0, now |-> 0, want |-> {},
         under |-> {}, verdict |-> "DENY", burn |-> {}]

Init ==
  /\ clock = 0 /\ authority = TRUE
  /\ mand = [m \in Mandates |-> NoMandate]
  /\ gate = [m \in Mandates |-> NoSession]
  /\ intents = [k \in Keys |-> NoIntent]
  /\ auths = {}
  /\ chals = [c \in Challenges |-> Unissued]
  /\ sess = [s \in Sessions |-> Idle]

-----------------------------------------------------------------------------
(* What the code reads.                                                    *)

At(s, pc) == sess[s].pc = pc
Become(s, rec) == sess' = [sess EXCEPT ![s] = rec]
Recorded(k) == intents[k].decision # "none"
Undenied(k) == intents[k].decision \in {"ALLOW", "REVIEW"}

\* STEP_UP_THRESHOLD_RATIO is 0.8.
MfaRequired(amount) == 5 * amount > 4 * AgentLimit

\* The status and validity filter of active_mandates.
ActiveAt(now) ==
  {m \in Mandates : mand[m].status = "active" /\ mand[m].from <= now /\ mand[m].until > now}

\* Mutant: a lapsed mandate is the same as none (as it was before MandateState).
NeverLapsed == FALSE

\* mandate_history_exists: any mandate in any status.
Lapsed == \E m \in Mandates : mand[m].status # "none"

\* The amounts of the rows that _spend_since selects, added up.
Total(rows, keys) == MapThenSumSet(LAMBDA k : rows[k].amount, keys)

\* _spend_since over the window that ends now, clamped to the validity start;
\* reviews hold budget until they are denied.
Spent(m, window, now) ==
  Total(intents, {k \in Keys : Undenied(k) /\ intents[k].created <= now
                               /\ intents[k].created + window >= now
                               /\ intents[k].created >= mand[m].from})

\* _check_one.  Budgets are the hourly and the daily limit; the budgets of one
\* merchant or category are the same sum over fewer intents.
Permits(m, amount, now) ==
  /\ amount <= Limits[m].each
  /\ \A b \in Limits[m].budgets : amount + Spent(m, b.window, now) <= b.limit

\* The velocity check counts intents of every decision.
TooFast(now) ==
  Cardinality({k \in Keys : Recorded(k) /\ intents[k].created + VelocityWindow >= now})
    >= VelocityMax

NeedsReview(active, amount, now) ==
  \/ MfaRequired(amount)
  \/ \E m \in active : amount > Limits[m].reviewAbove
  \/ TooFast(now)

\* Every active mandate must permit the payment.
Verdict(active, amount, now) ==
  IF \E m \in active : ~Permits(m, amount, now) THEN "DENY"
  ELSE IF NeedsReview(active, amount, now) THEN "REVIEW" ELSE "ALLOW"

-----------------------------------------------------------------------------
(* submit_payment_intent.                                                  *)

\* A replayed key returns the recorded decision and changes nothing, so only a
\* key with no intent starts.  `fits` is every check on capabilities, currency,
\* merchant and signature; a request that fails it is denied.
Submit(s, k, amount, fits) ==
  /\ At(s, "idle")
  /\ authority
  /\ ~Recorded(k)
  /\ Become(s, [Idle EXCEPT
       !.pc = IF fits /\ amount > 0 /\ amount <= AgentLimit THEN "resolving" ELSE "recording",
       !.key = k, !.amount = amount, !.now = clock])
  /\ UNCHANGED <<clock, authority, mand, gate, intents, auths, chals>>

\* The active mandates as of `now`; without one, LAPSED denies in every mode and
\* NONE denies when a mandate is required.
Resolve(s) ==
  LET active == ActiveAt(sess[s].now) IN
  /\ At(s, "resolving")
  /\ Become(s, [sess[s] EXCEPT
       !.want = active,
       !.pc = IF active # {} THEN "trying"
              ELSE IF Lapsed \/ MandateRequired THEN "recording" ELSE "free"])
  /\ UNCHANGED <<clock, authority, mand, gate, intents, auths, chals>>

\* Mutant: the lock is not waited for.
GateIgnored(m) == TRUE

GateFree(m) == gate[m] = NoSession

\* Mutant: the transaction that recorded the intent stays open.
GatesKept(s) == gate

\* Committing or rolling back ends the transaction the gates belong to.
WithoutGates(s) == [m \in Mandates |-> IF gate[m] = s THEN NoSession ELSE gate[m]]

\* pg_try_advisory_xact_lock on the next mandate in sorted order.
TakeGate(s) ==
  LET m == Min(sess[s].want) IN
  /\ At(s, "trying")
  /\ GateFree(m)
  /\ gate' = [gate EXCEPT ![m] = s]
  /\ Become(s, [sess[s] EXCEPT
       !.want = @ \ {m},
       !.pc = IF sess[s].want = {m} THEN "evaluating" ELSE "committing"])
  /\ UNCHANGED <<clock, authority, mand, intents, auths, chals>>

\* acquire_gate for the next mandate commits first, which releases the others.
CommitForNext(s) ==
  /\ At(s, "committing")
  /\ gate' = WithoutGates(s)
  /\ Become(s, [sess[s] EXCEPT !.pc = "trying"])
  /\ UNCHANGED <<clock, authority, mand, intents, auths, chals>>

\* Five seconds without the lock: the request is denied as contended.
GateTimeout(s) ==
  /\ At(s, "trying")
  /\ ~GateFree(Min(sess[s].want))
  /\ Become(s, [sess[s] EXCEPT !.pc = "recording", !.want = {}])
  /\ UNCHANGED <<clock, authority, mand, gate, intents, auths, chals>>

\* Under the gates: resolve again, check every mandate, then velocity and step-up.
\* When no mandate is left the user's consent has lapsed meanwhile.
Evaluate(s) ==
  LET active == ActiveAt(sess[s].now) IN
  /\ At(s, "evaluating")
  /\ Become(s, [sess[s] EXCEPT
       !.pc = "recording", !.under = active,
       !.verdict = IF active = {} THEN "DENY" ELSE Verdict(active, sess[s].amount, sess[s].now)])
  /\ UNCHANGED <<clock, authority, mand, gate, intents, auths, chals>>

EvaluateFree(s) ==
  /\ At(s, "free")
  /\ Become(s, [sess[s] EXCEPT
       !.pc = "recording", !.under = {},
       !.verdict = Verdict({}, sess[s].amount, sess[s].now)])
  /\ UNCHANGED <<clock, authority, mand, gate, intents, auths, chals>>

\* Mutant: an intent held for review is authorized at once.
MintsReview(verdict) == verdict # "DENY"

Mints(verdict) == verdict = "ALLOW"

\* _record_intent.  A denial is stamped when it is written.  When the key was
\* taken meanwhile the insert is rolled back and the existing intent stands in
\* for the new one.
Record(s) ==
  LET r == sess[s] IN
  /\ At(s, "recording")
  /\ intents' = IF Recorded(r.key) THEN intents
                ELSE [intents EXCEPT ![r.key] =
                  [decision |-> r.verdict, amount |-> r.amount, verified |-> FALSE,
                   created |-> IF r.verdict = "DENY" THEN clock ELSE r.now,
                   under |-> r.under]]
  /\ gate' = WithoutGates(s)
  /\ Become(s, IF Mints(r.verdict) THEN [Idle EXCEPT !.pc = "minting", !.key = r.key, !.now = r.now]
               ELSE Idle)
  /\ UNCHANGED <<clock, authority, mand, auths, chals>>

\* _mint_bounded_authorization in a second transaction.  authorization_id is the
\* intent's id and unique: a second mint fails and changes nothing.
Mint(s) ==
  /\ At(s, "minting")
  /\ auths' = auths \cup {sess[s].key}
  /\ Become(s, Idle)
  /\ UNCHANGED <<clock, authority, mand, gate, intents, chals>>

\* The request dies; its open transaction is rolled back.
Crash(s) ==
  /\ ~At(s, "idle")
  /\ gate' = WithoutGates(s)
  /\ Become(s, Idle)
  /\ UNCHANGED <<clock, authority, mand, intents, auths, chals>>

-----------------------------------------------------------------------------
(* Step-up approval.                                                       *)

AwaitsApproval(k) == intents[k].decision = "REVIEW" /\ MfaRequired(intents[k].amount)

\* The UPDATE that burns the open challenges sees the committed ones only.
ChallengeRead(s, k) ==
  /\ At(s, "idle")
  /\ authority /\ AwaitsApproval(k)
  /\ Become(s, [Idle EXCEPT !.pc = "challenging", !.key = k, !.now = clock,
       !.burn = {c \in Challenges : chals[c].key = k /\ ~chals[c].used}])
  /\ UNCHANGED <<clock, authority, mand, gate, intents, auths, chals>>

ChallengeIssue(s, c) ==
  /\ At(s, "challenging")
  /\ chals[c].key = NoKey
  /\ chals' = [d \in Challenges |->
       IF d = c THEN [key |-> sess[s].key, until |-> sess[s].now + ChallengeTTL, used |-> FALSE]
       ELSE IF d \in sess[s].burn THEN [chals[d] EXCEPT !.used = TRUE] ELSE chals[d]]
  /\ Become(s, Idle)
  /\ UNCHANGED <<clock, authority, mand, gate, intents, auths>>

\* The parent has signed the challenge's context.
VerifyRead(s, c) ==
  /\ At(s, "idle")
  /\ authority
  /\ chals[c].key # NoKey /\ ~chals[c].used /\ chals[c].until >= clock
  /\ AwaitsApproval(chals[c].key)
  /\ Become(s, [Idle EXCEPT !.pc = "verifying", !.key = chals[c].key, !.burn = {c}])
  /\ UNCHANGED <<clock, authority, mand, gate, intents, auths, chals>>

\* Approval and mint in one transaction, from what was read before: it fails as
\* a whole when the intent has an authorization already.
VerifyCommit(s) ==
  LET k == sess[s].key IN
  /\ At(s, "verifying")
  /\ IF k \in auths THEN UNCHANGED <<intents, auths, chals>>
     ELSE /\ intents' = [intents EXCEPT ![k].decision = "ALLOW", ![k].verified = TRUE]
          /\ auths' = auths \cup {k}
          /\ chals' = [c \in Challenges |->
               IF c \in sess[s].burn THEN [chals[c] EXCEPT !.used = TRUE] ELSE chals[c]]
  /\ Become(s, Idle)
  /\ UNCHANGED <<clock, authority, mand, gate>>

-----------------------------------------------------------------------------
(* The trusted surface, the sweepers and time.                             *)

CreateMandate(m, from, until) ==
  /\ mand[m].status = "none"
  /\ from < until
  /\ mand' = [mand EXCEPT ![m] =
       [status |-> "active", from |-> from, until |-> until, born |-> clock]]
  /\ UNCHANGED <<clock, authority, gate, intents, auths, chals, sess>>

\* Whatever the status was.
RevokeMandate(m) ==
  /\ mand[m].status \in {"active", "expired"}
  /\ mand' = [mand EXCEPT ![m].status = "revoked"]
  /\ UNCHANGED <<clock, authority, gate, intents, auths, chals, sess>>

SweepMandates ==
  LET over == {m \in Mandates : mand[m].status = "active" /\ mand[m].until <= clock} IN
  /\ over # {}
  /\ mand' = [m \in Mandates |->
       IF m \in over THEN [mand[m] EXCEPT !.status = "expired"] ELSE mand[m]]
  /\ UNCHANGED <<clock, authority, gate, intents, auths, chals, sess>>

\* Mutant: reviews that await a step-up approval have an end too.
AnyReviewStale(k) == intents[k].decision = "REVIEW" /\ intents[k].created + ReviewTTL <= clock

\* review_expires_at is only set on reviews that no step-up can approve.
Stale(k) ==
  /\ intents[k].decision = "REVIEW" /\ ~MfaRequired(intents[k].amount)
  /\ intents[k].created + ReviewTTL <= clock

ExpireReviews ==
  /\ \E k \in Keys : Stale(k)
  /\ intents' = [k \in Keys |->
       IF Stale(k) THEN [intents[k] EXCEPT !.decision = "DENY"] ELSE intents[k]]
  /\ UNCHANGED <<clock, authority, mand, gate, auths, chals, sess>>

RevokeAuthority ==
  /\ authority
  /\ authority' = FALSE
  /\ UNCHANGED <<clock, mand, gate, intents, auths, chals, sess>>

Tick ==
  /\ clock < MaxClock
  /\ clock' = clock + 1
  /\ UNCHANGED <<authority, mand, gate, intents, auths, chals, sess>>

-----------------------------------------------------------------------------
SubmitStep(s) ==
  \/ \E k \in Keys, amount \in Amounts, fits \in BOOLEAN : Submit(s, k, amount, fits)
  \/ Resolve(s)
  \/ TakeGate(s)
  \/ CommitForNext(s)
  \/ GateTimeout(s)
  \/ Evaluate(s)
  \/ EvaluateFree(s)
  \/ Record(s)
  \/ Mint(s)
  \/ Crash(s)

ApprovalStep(s) ==
  \/ \E k \in Keys : ChallengeRead(s, k)
  \/ \E c \in Challenges : ChallengeIssue(s, c) \/ VerifyRead(s, c)
  \/ VerifyCommit(s)

AdminStep ==
  \/ \E m \in Mandates, from \in Times, until \in 1 .. MaxClock + 1 : CreateMandate(m, from, until)
  \/ \E m \in Mandates : RevokeMandate(m)
  \/ SweepMandates
  \/ ExpireReviews
  \/ RevokeAuthority
  \/ Tick

Next == (\E s \in Sessions : SubmitStep(s) \/ ApprovalStep(s)) \/ AdminStep

Spec == Init /\ [][Next]_vars

\* Submissions that overlap carry different keys and read the same time.
Orderly == \A s, t \in Sessions :
  s # t /\ sess[s].pc \in Submitting /\ sess[t].pc \in Submitting
    => sess[s].key # sess[t].key /\ sess[s].now = sess[t].now

OrderlySpec == Init /\ [][Next /\ Orderly']_vars

-----------------------------------------------------------------------------
(* Properties.                                                             *)

\* Every variable holds a value of its type, and a gate is only held inside the
\* transaction that took it: no session that is not submitting holds one.
TypeOK ==
  /\ clock \in Times /\ authority \in BOOLEAN
  /\ mand \in [Mandates -> Mandate]
  /\ gate \in [Mandates -> Sessions \cup {NoSession}]
  /\ intents \in [Keys -> Intent]
  /\ auths \subseteq Keys
  /\ chals \in [Challenges -> Challenge]
  /\ sess \in [Sessions -> Session]
  /\ \A s \in Sessions : ~At(s, "idle") => sess[s].key \in Keys
  /\ \A m \in Mandates : gate[m] # NoSession => sess[gate[m]].pc \in InGates

\* A recorded decision changes in two ways only: the sweeper denies a review that
\* no step-up can approve, and a parent's approval allows one that needs it.  A
\* denial is final, and so is an approval, whatever raced with them.
DecisionIsFinal ==
  [][\A k \in Keys :
       Recorded(k) /\ intents'[k].decision # intents[k].decision =>
         /\ intents[k].decision = "REVIEW"
         /\ intents'[k].decision = IF MfaRequired(intents[k].amount) THEN "ALLOW" ELSE "DENY"]_vars

\* The mandates `under` are all that bind a payment which arrived at t: every one
\* in force at t and not ended since is among them, and none existed if they are none.
BoundBy(under, t) ==
  /\ under = {} => ~MandateRequired
  /\ \A m \in Mandates : mand[m].status # "none" /\ mand[m].born < t =>
       /\ under # {}
       /\ m \in ActiveAt(t) => m \in under

\* A mandate binds every payment that arrives after it: an undenied intent was
\* permitted by each mandate that was in force when it arrived and still is, and
\* no lapse, revocation or race turns a mandate into no limit at all.
MandatesBind ==
  \A k \in Keys : Undenied(k) => BoundBy(intents[k].under, intents[k].created)

\* No budget of a mandate is exceeded in any of its windows by the intents it
\* permitted, reviews included.  Holds when overlapping submissions read the same
\* time (mandates.py: two submissions must not both pass a budget check against
\* the same stale totals).
BudgetKept ==
  \A m \in Mandates : \A b \in Limits[m].budgets : \A start \in Times :
    Total(intents, {k \in Keys : /\ Undenied(k) /\ m \in intents[k].under
                                 /\ intents[k].created \in start .. start + b.window})
      <= b.limit

\* An authorization exists only for an intent that is allowed and, when its amount
\* needs step-up, approved by the parent.  Holds when no key is submitted twice at
\* the same time.
AuthorizedOnlyIfAllowed ==
  \A k \in auths :
    /\ intents[k].decision = "ALLOW"
    /\ MfaRequired(intents[k].amount) => intents[k].verified
=============================================================================
