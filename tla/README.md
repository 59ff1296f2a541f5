# Paari Payments Protocol: a TLA+ verification project

Paari lets an AI agent ask for a payment, decides the request against what a parent
authority delegated and a user consented to, mints a single-use *bounded authorization*
for what it allows, executes it at a provider (Razorpay) and follows it to settlement.
This directory holds TLA+ models of that program, the TLC configurations that check
them, and proofs checked by TLAPS. Paths below are relative to `src/`; a bare file name
is under `app/` or `app/routers/`.

    tlc -workers 2 -config MCSettlement.cfg MCSettlement     # any .cfg, with its module
    tlapm SettlementProofs.tla                               # any module with theorems

## 1. The system

| Component | State it keeps | Operations | Talks to | Modelled in |
|---|---|---|---|---|
| Transaction state machine (`transitions.py`) | none | `transition_txn` | every writer of a transaction row | `PaariTransitions` |
| Intent governance (`payments.py` 208-470) | `payment_intents`, `bounded_authorizations` | `submit_payment_intent`, `_record_intent`, `_mint_bounded_authorization` | mandates, audit, identity | `Governance` |
| User mandates and gates (`mandates.py`, `serialization.py`, `v1.py` 51-237) | `user_payment_mandates`, Postgres advisory locks | create, revoke, evaluate, two sweepers | governance | `Governance` |
| Step-up approval (`payments.py` 472-542) | `mfa_challenges` | challenge, verify | governance, parent keys | `Governance` |
| Execution (`payments.py` 545-943, `v1.py` 651-672) | `usage_count`, `provider_transactions` | consume, revoke | provider, identity, mandates | `Settlement`, `AutonomousSettlement` |
| Autonomous settlement (`providers/agentic.py`, `razorpay_agentic.py`, `reference_autonomous.py`, `payments.py` 603-777) | `payment_instrument_bindings` | bind, validate, authorize, capture, read back | consume, reconciliation | `AutonomousSettlement` |
| Webhooks, capture confirmation (`payments.py` 946-1101, `reconcile.py` 151-248) | `provider_transactions` | `razorpay_webhook`, `confirm_capture` | provider | `Settlement` |
| Reconciliation and worker (`reconcile.py`, `reconcile_worker.py`) | `provider_transactions` | `reconcile_one`, `_run_batch`, dead-letter | provider | `Settlement`, `AutonomousSettlement` |
| Refund (`payments.py` 1104-1150) | `provider_transactions` | `refund_authorization` | provider | `Settlement` |
| Configuration, start-up, routing (`config.py`, `main.py`, `provider_accounts.py`) | environment | `load_config`, start-up refusals, choice of account and adapter | consume, reconciliation | `Deployment` |
| Agent identity (`agents.py`, `auth.py`, `security.py`) | agents, credentials, nonces, delegations, request proofs | register, challenge, verify, rotate, revoke | every protected route | `Identity` |
| Parent authorities (`parents.py`) | `parent_authorities` | register, approve, reject, revoke | identity | `Identity` |
| Audit chain (`audit.py`, `serialization.py`) | `audit_events` | `record_audit`, `verify_chain` | every component | `AuditLog`, `AuditChain` |
| Proof bundle and audit trail (`proof_bundle.py`, `v1.query_audit`) | none | `collect_proof_bundle`, `get_proof_bundle`, `query_audit` | all tables | `Evidence` |
| LLM agent and SDK (`llm_agent/`, `sdk/paari_agent/client.py`) | the run, authorizations in hand | onboarding, turns, tool calls | model, server | `AgentRun` |
| Migrations (`alembic/`) | the schema and its rows | nineteen revisions up and down | the database, the container | `Migrations` |
| Rate limiter, crypto, protocol package, schemas, scripts | signatures, buckets | pure functions, drivers | | not modelled |

All components of the service share one SQL database; there are no queues. Concurrency
comes from request threads, several service processes and the worker's thread, each with
a SQLAlchemy session. What makes the code hard is the same everywhere:

* a session reads a row, keeps the copy across a provider call or a lock wait, and at
  commit issues an `UPDATE` by primary key of the columns that differ from its copy;
* a handler commits more than once, or flushes before it commits, and a crash or another
  session comes in between;
* the provider answers late, twice, never, or says two things that disagree;
* several statements read what other transactions are changing, without a snapshot;
* time passes between reading the clock and using it;
* a migration is killed half-way on a database whose DDL is, or is not, transactional.

What makes each component correct: money is asked for once and never after revocation;
the row says PAID only when money moved; a capture is eventually recorded; a deployment
takes money only where it says; a decision once recorded is not rewritten; every mandate
binds and its budgets hold; an authorization exists only for what was allowed; a nonce or
proof is used once; an audit chain stays one chain and what is shown of it stays shown; a
run of an agent does not reach past what it was given; a database ends up with the schema
of its version and rows that mean what they meant.

## 2. Modules

| Module | What it is |
|---|---|
| `PaariTransitions` | the state table and terminal set, without variables |
| `PaymentLifecycle` | abstract: what one authorization promises, whichever rail executes it |
| `Settlement` | consume, revoke, webhooks, confirmation, reconciliation, worker, refund, and the provider; implements `PaymentLifecycle` |
| `Deployment` | what the environment variables amount to, without variables |
| `AutonomousSettlement` | execution over a provider mandate, with revalidation and the choice of rail; implements `PaymentLifecycle` |
| `Governance` | submission, mandates and gates, minting, step-up approval, sweepers |
| `Identity` | parent, agents, credentials, nonces, sessions, request proofs |
| `AuditLog` | abstract: what the audit trail promises its readers |
| `AuditChain` | `record_audit`, the chain lock, commit and rollback on both dialects; implements `AuditLog` |
| `Evidence` | `AuditChain` composed with the rows its transactions write and with the queries that read both |
| `AgentRun` | one run of an LLM agent, the broker, the client, and the server by what a run sees of it |
| `Migrations` | the schema history and the runs that move a database along it |
| `SettlementProofs`, `AutonomousProofs`, `GovernanceProofs`, `IdentityProofs`, `AuditProofs`, `EvidenceProofs`, `AgentRunProofs`, `MigrationsProofs` | theorems, each about the module it is named after (`AuditProofs` about `AuditChain` and about the chains in `Evidence`) |
| `MC...` | instances for TLC, and promises of the documents that the code does not keep |

How they fit: an intent that `Governance` allows and mints is the authorization that
`Settlement` and `AutonomousSettlement` start from; the two share `PaariTransitions` and
the abstract `PaymentLifecycle`, and `AutonomousSettlement` extends `Deployment`.
`Governance` sees of identity only whether agent, credential and parent are ACTIVE
(`authority`), and `AutonomousSettlement` sees each of the twelve things
`_revalidate_execution` asks as a *ground* that may be withdrawn. `Evidence` extends
`AuditChain`: its writers are the requests of `AuditChain`, each with the rows of its
transaction. `AgentRun` and `Migrations` have the service as their environment.

### PaymentLifecycle

The one use of an authorization (`grant`), the requests for money sent, the authorized
value in the provider's books (`money`) and what the row tells (`report`). A report may be
withdrawn (`Report` allows any value the books back), because the code does withdraw
one (finding 1 of section 6); the promise is that it is never ahead of the books.

### Settlement

One bounded authorization and its row: no handler touches the rows of two
authorizations. `txn` is the row; `usage` is `usage_count`; `sess[s]` is what session `s`
holds: where it is (`pc`), its copy of the row (`row`), what it saw at the provider
(`obs`), the event it applies (`evt`). `order`, `pays`, `last`, `events`, `refunds` are
the provider; `calls` and `revoked` are history for the properties.

* Reading, calling the provider and committing are separate actions. `Commit` merges
  the columns a session changed into the row as it now is (`Merged`). Sessions have
  `autoflush` off and reload a row after a commit, hence `ConsumeLoad`, `ConfirmLoad`
  and `WorkerReload`.
* `consume_authorization` = `ConsumeReserve`, `SubmitOrder`, `ConsumeLoad`,
  `ConsumeRecord`. The conditional `UPDATE` and the increment of `attempts` are one
  transaction, so one action. The order may exist after a timeout or an error.
* `razorpay_webhook` = `WebhookRead`, `WebhookApply`, then `confirm_capture` =
  `ConfirmLoad`, `ConfirmRead`, `ConfirmCommit`. A delivery that an early return
  rejects changes nothing and is no action. `events` is never emptied, so an event
  arrives any number of times in any order, or never.
* `reconcile_one` = `ReconcileRead`, `ReconcileObserve`, then `ReconcileSettle` or
  `ReconcileGiveUp`; the worker adds `WorkerReload` and `WorkerCount`. The three provider
  reads are one observation. A terminal row is not scanned.
* `Crash` also stands for a provider read or refund that fails before anything changed.

Abstractions: amount and currency are the set `Matching` of payments with the right
value; `attempts` saturates at `DeadLetterAfter`, its only use; audit writes are left
out; revalidation and the autonomous branch are in `AutonomousSettlement`.

### Deployment and AutonomousSettlement

`Deployment` is a record `d` of what the environment, the tenant's rows and the contract
with the provider amount to, and functions of it: may it start (`Starts`), which posture
is it in (`Autonomous`), which adapter and account does a payment go to (`Adapter`,
`Capable`, `OrderAccount`, `DebitAccount`), what provenance is stamped. An instance of
`AutonomousSettlement` picks one deployment that starts and keeps it.

`grounds` is the set of the things `_revalidate_execution` asks that hold now; `txn`,
`usage` and `sess` are as in `Settlement`; `bindings` the instrument bindings; `instr`,
`debit` and `order` the provider. `lock` is the row lock of a session that has flushed.

* `consume_authorization` = `Revalidate`, `Reserve`, then one of `RefuseRail`,
  `SubmitOrder`, `ChooseBinding`, `NoBinding`; `Load` and `Record` for every exit before
  a debit is accepted.
* `_consume_agentic_settlement` = `Validate`, `Authorize`, `Load`, `Submit`, `Capture`,
  `Readback`, `Settle`. `Submit` flushes PROVIDER_SUBMITTED, the payment id and two audit
  events and takes the row's lock; `Settle` commits them with the outcome; `Crash` in
  between takes them away although the provider was asked. Every other writer waits for
  the lock (`Commit`).
* What an adapter may answer, and the debit it leaves behind, are sets:
  `ReferenceAuthorize`, `RazorpayCapture` and so on. A debit may have been taken although
  its answer was lost. The answer of a capture call is the provider's word alone: it may say captured of a debit
  that is only authorized, so that at the read-back the status, the amount or the reading itself can be
  what fails (the row then stays CAPTURED until it is reconciled). The order rail is followed up to the order.
* Reconciliation is that of `Settlement`, for a row that names a debit; it asks the order
  adapter's account (`Visible`), which need not be the account that was debited.

Abstractions: `MaxUsage` is 1, as minted; the value of a debit is right or wrong; grounds that
hold are one read, since nothing is written between them.

### Governance

One agent: rows of two agents never meet in this code. `intents` is keyed by idempotency key;
`auths` is the set of keys with an authorization; `mand`, `gate`, `chals` are the mandates,
the advisory locks and the challenges; `authority` lumps agent, credential and parent
being active, which a request reads once.

* `submit_payment_intent` = `Submit` (everything before the mandates, with `now`
  read once), `Resolve`, then per mandate `TakeGate` and `CommitForNext` (or `GateTimeout`),
  `Evaluate` or `EvaluateFree`, `Record`, and `Mint`. `CommitForNext` exists
  because `acquire_gate` commits first and a Postgres advisory lock ends with its transaction.
  On SQLite the last `BEGIN IMMEDIATE` is the global write lock, which covers every mandate.
* `Record` is `_record_intent`: the unique constraint on the key, the rollback and the
  existing intent that then stands in. A replayed key returns the recorded decision and
  changes nothing, so `Submit` needs an unrecorded key.
* `request_mfa_challenge` = `ChallengeRead`, `ChallengeIssue`; `verify_mfa_challenge` =
  `VerifyRead`, `VerifyCommit`. `authorization_id` is the intent's id and unique, so a
  second mint fails as a whole.
* The sweepers are one action each. `run_sweepers` reads and commits in two steps, but
  the one race that follows, EXPIRED written over REVOKED, ends the mandate either way.

Abstractions: `fits` is the outcome of the checks on capability, currency, merchant,
category and signature; budgets of one merchant or category are the same sum over fewer
intents and only the window budgets are kept; `mfa_required` and
`review_expires_at` are functions of other columns; `under` is `MandateDecision.evaluated`
and `born` is history.

### Identity

One parent; parents share no row. `parent`, `used`, `agents`, `creds`, `nonces`, `burned` are
tables (`used` the consumed `delegation_id`s, `burned` the `jti`s); `tokens` the signed session
tokens; `req[r]` what a request holds between its read and its write; `served`, `told`
(the key an agent's last rotation replaced, and the sunset announced for each key) and `ended` are history.

* `register_agent` and `v1_register_agent` = `Register`, `RegisterCommit`; v1 commits agent and
  credential together, the legacy route commits the credential later (`IssueCredential`). The
  unique `delegation_id` is the guard of `Consume`.
* `rotate_agent_key` = `RotateKey`, `RotateCommit`: the credentials it read are revoked, and of the
  agent's row only the columns that differ from the row it read are written (`Written`).
* `approve_parent`, `revoke_parent`, `rotate_parent_key` likewise are a read and a commit;
  a request that finds the value it would set writes nothing. `reject_parent`, `revoke_agent` and
  `create_challenge` have no read that their write depends on, so they are one action.
* `verify_challenge` = `VerifyChallenge`, `BurnNonce`, `OpenSession`, its three moments: checks,
  first commit, token after the second commit.
* `_authenticate` and `verify_request_proof` = `Authenticate`: the `jti` is inserted in the
  request's transaction, so that another insert of it waits (`Fresh`); `ActCommit` keeps it and
  `Abort` gives it back.

Abstractions: signatures, envelopes and document contents are inputs that pass; the several SELECTs of
one handler are one read; the revocation ids of parent-signed revocations are left out, since a
replayed revocation revokes again; `kyb` and organizations change no check modelled here; a
new key sunset counts as different from the one before, as timestamps do not repeat.

### AuditChain and Evidence

`events` are the committed rows; `next` the id sequence; `tail[r]` the predecessor request
`r` has read; `pending[r]` what its open transaction has flushed; `locks[r]` its advisory
locks. `record_audit` = `AcquireLock` (the lock of `acquire_chain_lock`), `ReadTail`, `Flush`;
the request's own `Commit` or `Rollback` ends the transaction and its locks. A request
may append several times and to several chains. `Locked` is the dialect: without it (SQLite)
the lock does nothing and `MayWrite` admits one writing transaction, which begins at the first
insert and not at the read of the tail (sessions do not flush before a query).

`AuditLog` is the promise: a set of events per chain that only grows at its end and of which
`verify_chain` is True (`Linked`). `AuditChain` implements it with `log <- events`; reads,
locks and flushes are stutters. Abstraction: an event's hash is its id, so a changed row
and the content of a hash are outside the model.

`Evidence` gives each transaction the rows it commits with its events (`Decide`, `Mint`,
`Approve`, `Sweep`, `Move`; `Save` commits both, `GiveUp` loses both and blanks its events in `content`).
`Mint` asks nothing of the committed decision, as the code mints on the verdict of the request in hand
(`payments.py` 446): the loser of an idempotency key mints for whatever intent the winner recorded, and `raced`
keeps the intents for which that was not an allowed one. The two submissions are taken to carry one
transaction id, hence one chain. `Evidence` also adds the readers:
`collect_proof_bundle` = `ReadIntent`, `ReadEvents`, `ReadTransaction`, `VerifyChain`, in the
order of its queries (`BundleReads`), and `query_audit` = `ReadTrail`, `VerifyChain`. Each
query sees what is committed when it runs. The state of a provider transaction is known by
the id of the event that names it (`shown`), so that "the state beside the events" can be
compared with them; `MoveUnnamed` are the states written without an event. A chain is a
transaction id, which is the client's: two agents' intents may share one.

### AgentRun

`client` is onboarding and session; `run` is `run_goal`'s turn, tool-call queue and outcome;
`broker` holds the authorizations in hand (`pending`), the transactions of the run (`known`),
the count of payments and the causal stamp; `wire` and `answer` are the request and the answer
under way. `intents`, `auths`, `moved` are the server; `origin`, `asked`, `acked` history.

* A reply is up to `MaxReply` calls; each is refused (`RefuseCall`), only read (`Query`), or
  sent (`Propose`, `Confirm`) and answered (`ReceiveDecision`, `ReceiveExecution`). A call is a
  record: its tool, the arguments given, those of them that are malformed, and its amount,
  currency and transaction; `Valid` is `tools.validate`.
* `GiveUp` is the timeout of the client: the run ends, and the request it left on the wire may
  still be handled.
* The server decides, executes, refuses, and lets others revoke and approve; governance and
  settlement are the other modules' subject.

### Migrations

`dialect`, what is committed (`disk`: version, schema, rows), what the run sees (`work`), the
command and its remaining statements (`run`). A schema is a set of named objects: tables,
columns, enum types and labels, foreign keys with their names, the scratch table of a
rebuild. A statement needs the objects it drops and the table (or type) its objects are part of
(`Host`), and the parity revision passes over a reference whose tables are not there (`Attachable`,
`f5a6` 103): a downgrade killed on SQLite after a DROP leaves a later version without one. Each revision is the sequence of statements of its `upgrade` and `downgrade`, and
`Batch` is `batch_alter_table` on each dialect. `Execute`, `Record`, `Finish` run them; `Fail` is
a statement that cannot succeed (`Succeeds`), `Crash` a kill between two statements. The rows
are one payment, one mandate, one audit event and the dangling references, written by
the application of the version on disk between runs.

Abstractions: lengths, nullability, indexes and the baseline keys to parents and agents are left out. External:
PostgreSQL runs a whole command in one transaction, which an autocommit block commits; on
SQLite a schema change is durable at once until a statement that changes rows opens a
transaction, and alembic commits revision by revision. The application is stopped while a
migration runs, and the container runs `alembic upgrade head` at each start (`Dockerfile` 27).

## 3. Runs

| Run | Specification | What it shows |
|---|---|---|
| `settlement` | `Spec` | `ExecutesOnce`, `BackedByProvider`, `RowSound` and the refinement `ImplementsLifecycle` under every interleaving of a request and the worker, with two attempts, one of the wrong value |
| `settlement_serial` | `SerialSpec` | `LegalTransitions` with two attempts of different value, closings and two refunds |
| `settlement_recovery` | `FairSpec` | `OrderIsRecovered`, `CaptureIsSettled` |
| `autonomous` | `FairSpec` | sixteen deployments, those that start: `ImplementsLifecycle`, `DeploymentHonoured`, `RowNamesItsDebit`, `RevocationSticks`, `KnownDebitSettles` |
| `governance` | `Spec` | `MandatesBind`, `DecisionIsFinal` under every interleaving |
| `governance_orderly` | `OrderlySpec` | `BudgetKept`, `AuthorizedOnlyIfAllowed` |
| `identity` | `Spec` | `DelegationUsedOnce`, `ProofServedOnce`, `RevocationIsFinal` under every interleaving, with requests that roll back |
| `identity_serial` | `SerialSpec` | `OneSessionPerNonce`, `CredentialsLive`, `KeyGrace`, with crashes between commits and two rotations within one grace period |
| `evidence` | `EvidenceSpec`, locked | `ChainVerifies`, `AppendOnlyLog` (the refinement of `AuditLog`), `ShownIsVerified`, `BundleCoherent`, `AuthorizationStands` while rows and events change under a reader and same-key submissions mint |
| `agent_run` | `FairSpec` | `WithinGrant`, `TracedToCall`, `OutcomeIsTrue`, `RunEnds` |
| `migrations` | `FairSpec` | `SchemaSound`, `OnlyOrphansAbort`, `RowsSound`, `RowsKeepMeaning`, `UpgradeCompletes` on both dialects |
| `paid_regresses` | `Spec` | **violated**: a stale webhook writes PROVIDER_AUTHORIZED over PAID |

The last one is the sentence of a document quoted in `PROJECT.json`. The passing runs check
the same subject under the condition that excludes a known defect, so that anything else that breaks it shows:
`SerialSpec` (at most one session open, while provider and payer act between its steps) and
`Orderly` (overlapping submissions carry different keys and read the same time). Two invariants state their
exception themselves: `KeyGrace` covers the key an agent's *last* rotation replaced, and `AuthorizationStands` an intent that
no loser of its idempotency key minted for; the unrestricted forms are refuted below.

Eighteen more configurations each refute one property. They are kept beside the runs and are run by hand, each with the MC module it begins with (`MCAuditUnlocked` with `MCEvidence`).

| Configuration | Refutes | Sentence | What the trace shows |
|---|---|---|---|
| `MCSettlementTwoAttempts` | `CaptureIsSettled` | `tests/test_phase9_state_machine.py` 23-25, money reported captured is recorded | a declined attempt makes the row DECLINED, which is terminal (`reconcile.py` 110); the next attempt's capture is never recorded |
| `MCSettlementClosed` | `ClosedOrderEnds` | `README.md` 149 and `tests/test_state_reachability.py` 26, EXPIRED and CANCELLED are states a payment reaches | an order expires with its payment declined: the branch for a closed order returns at the illegal transition (`reconcile.py` 84-103) before the payment is looked at, and the row stays PROVIDER_UNKNOWN for ever |
| `MCGovernanceRetry` | `AuthorizedOnlyIfAllowed` | `docs/SECURITY.md` 67 | the loser of an idempotency race goes on with the winner's intent and mints for its REVIEW (`payments.py` 447) |
| `MCGovernanceTwoMandates` | `BudgetKept` | `mandates.py` 228-233 | taking the second mandate's gate commits and so releases the first (`serialization.py` 47) |
| `MCGovernanceStaleClock` | `BudgetKept` | `mandates.py` 207-211, "the next evaluator necessarily observes the earlier spend" | `now` is read before the gate is waited for (`payments.py` 303), so spend dated after it is not counted |
| `MCAuditUnlocked` | `ChainVerifies` | `serialization.py` 14, "SQLite already serializes writers, so it is a no-op there" | both requests read the tail before the first insert takes the write lock, and the chain forks |
| `MCIdentityNonce` | `OneSessionPerNonce` | `auth.py` 7, "a single-use, short-lived nonce" | two verifications read the nonce unused; `used = True` is unconditional; two sessions |
| `MCIdentityParent` | `ParentRevocationIsFinal` | `parents.py` 42, 409 "Parent authority has been revoked" | revoke, reject, approve: the parent is ACTIVE |
| `MCIdentityRotation` | `RotationSupersedes` | `docs/PHASE7_8.md` 36, "revoked/superseded on rotation" | two overlapping rotations each revoke only what they read; two credentials stay live |
| `MCIdentityGrace` | `GraceIsKept` | `models.py` 207, "previous key stays verifiable until key_sunset_at (24h grace for in-flight clients)" | a second rotation within the grace period overwrites the one slot for a previous key (`v1.py` 623), and the first key's grace ends early |
| `MCAutonomousAmbiguous` | `AmbiguousIsReconciled` | `docs/PROVIDER_AUTONOMOUS_SETTLEMENT.md`, rule 6 | a debit whose answer was lost is on no row, and no pass looks for it |
| `MCAutonomousRevocation` | `RevocationBlocks` | `docs/PHASE7_USER_MANDATE_AND_AUTONOMOUS_SETTLEMENT.md`, revoking the mandate blocks an authorization not yet consumed | the mandate is revoked between revalidation and the reservation, and the use is taken |
| `MCAutonomousAccount` | `OwnAccount` | `provider_accounts.py`, "never silently falls back" | the Razorpay agentic adapter reads the unscoped keys, so a tenant's debit is taken at the default account |
| `MCAgentRunUnknown` | `ExecutesAtMost` | `llm_agent/broker.py` 178, "this run may execute at most" | a payment whose answer was an error is not counted, and another is executed |
| `MCEvidenceTorn` | `DecisionShownAllows` | the bundle shows the decision under which it was authorized | the approval commits between the read of the intent and that of the authorization: REVIEW beside an authorization |
| `MCEvidenceRetry` | `OnlyAllowedShown` | the same, without the exception of `AuthorizationStands` | the loser of an idempotency key mints for a REVIEW that the sweeper then denies, and the bundle is served |
| `MCMigrationsRerun` | `RerunCompletes` | `b8c9d0e1f2a3` 124, "Resolve or delete them, then re-run upgrade" | on SQLite the tables created before the abort stay, and the re-run fails on them |
| `MCMigrationsReads` | `MandatesReadable` | `d3e4f5a6b7c8` 21, on SQLite "the model and migration already agree" | a row written with the column's default has a value the model cannot read |

`MCMigrationsDeep` refutes `OnlyOrphansAbort` for databases taken down to nothing (enum types stay on
PostgreSQL, so the next upgrade fails).

### Bounds

* **Two sessions, a request thread and the worker.** The races are of pairs: one
  session's copy goes stale by another's commit. The theorems of section 5 hold for any number.
* **Payments.** Two for the interleaving and the serial run, one of the wrong value, so that look-ups pick between
  attempts; one for the liveness run.
* **`DeadLetterAfter`** is 2 in the serial run, so that a row is counted once before it is dead-lettered,
  and 1 in the others. **Closings** are in the serial run. **`RefundParts`** 1 or 2: a refund with and without value left.
* **Deployments**: one for each way the code tells them apart, and those that must not start;
  one provider reference; one ground that comes back (`credential`, by rotation) and one that
  does not (`mandate`). The theorems hold for every set of deployments and grounds.
* **Keys** one or two, **amounts** 3 and 5 against a limit of 5: below and above the
  step-up ratio. **Mandates** 1 and 2: one that never asks for review, one that does and
  has two budgets. The governance run has one key, on which every race of a decision
  meets; the orderly run has two keys, on which budgets are shared.
* **`MaxClock`** 1 or 2 with windows 0 and 1: a window can be left, a mandate and a
  challenge can lapse, a review can go stale. `VelocityMax` 1: the second intent is too fast.
* **Challenges**: one per run; a second is issued only by the same step that burns the first.
* **Identity**: two requests that overlap, with two agents, credentials and delegations, one session and
  one proof, at one moment: what the three properties of `identity` speak of depends on time only through
  guards that a lapse makes false. `identity_serial` has one request at a time and time to 2, so that a
  credential, a nonce, a session and the grace period each can lapse, with four delegations that bind three
  keys (a rotation can return to the first key, or replace a second one within the grace of the first) and are signed by two parent keys, three
  credentials and two sessions of one nonce.
* **Evidence**: two requests, two chains, two agents with an intent each that may share a chain, `MaxId` 5:
  a submission (two events), its mint, and two more of another intent or a sweep, an approval or a move, with a
  reader between any two statements. Each of these transactions writes to one chain; several chains in one
  transaction, so that locks are taken in both orders and deadlocked transactions roll back, are in `AuditChain` and
  in its theorems, for any number of requests.
* **AgentRun**: three turns of up to two calls, at most four calls in all, eleven calls to choose from,
  one for each way a call can be wrong, a cap and a budget of 1: a second payment can be asked for after
  the first succeeded, failed, or was not answered.
* **Migrations**: targets on both sides of every revision that looks at rows or at the dialect, two commands
  or dangling rows, one kill: down and up again, or down with a row that then aborts the way up.

`CHECK_DEADLOCK FALSE` where the system may stop: an authorization with a finished row has nothing left
to do, the governance and evidence models stop when their keys, ids, mandates and time are used up, a run of
an agent ends, a database at its version is left alone.

### Fairness

* **Settlement**: only the worker is fair. `_loop` runs a batch every `interval_seconds` for ever and catches
  every exception: weak fairness of starting a pass. Strong fairness of the later steps
  says that a crash or an unreachable provider does not strike the same step in every pass.
  No request, delivery or payer is assumed to make progress, so the liveness properties say
  that reconciliation alone is enough. `settlement_recovery` has no closings: an order closed
  with an attempt under way that is captured later is never settled, since
  `reconcile_one` returns at the illegal transition (`reconcile.py` 84-103).
* **AutonomousSettlement**: the worker as above, and a request that holds the row's lock ends, by its commit
  or by a crash, because every call of an adapter has a timeout (15 seconds). Without that
  the worker would wait for ever.
* **AgentRun**: the run itself takes its next step, because the HTTP clients have timeouts (30 and 90
  seconds). The server owes nothing.
* **Migrations**: a run that has begun goes on, the container is restarted until the upgrade is done, and the operator
  does what the message of an abort asks for (strong, as every restart disables it).

## 4. Mutants

Every property of a passing run has a mutant in `PROJECT.json`, a property with several parts one for each:
an operator beside the definition it replaces, such as `UnusedUnchecked` (the reservation is unconditional),
`WebhookTargetPaid` (an event settles by itself), `RevokeWithoutBurn`, `SettleWithoutPay` (the flushed payment id is not
committed), `OrdersIfIncapable` (autonomous mode falls back to checkout), `RotatedWhole` (a commit writes the whole row back),
`LookedUp` (a proof is looked up but not inserted), `LockIgnored`, `EventsLast` (a bundle lists events after the rows),
`NeverLapsed` (a lapsed mandate is no mandate, as it was before `MandateState`), `InHandKept`, `StampOfTurn`,
`ReconcileSettleNameless` (a pass settles without the payment id), `RotatedForgetful` (a rotation keeps no previous key),
`CorroboratedByValue` (the read-back looks at the value but not at the status), or `AddLabelsUnguarded` (an enum label is added without asking whether it is there).

## 5. Theorems

They hold for every value of the constants that satisfies the module's named assumption
(`SettlementAssumption`, `NoEventAssumption`, `AutonomousAssumption`, `GovernanceAssumption`, `AuditAssumption`,
`IdentityAssumption`, `RunAssumption`, `TargetsAssumption`, `BoundsAssumption`): the NULL values are
not ids, counters and limits are numbers, deployments are deployment records, migration targets are versions.
No fairness is used.

| Theorem | Statement | Argument |
|---|---|---|
| `TypeCorrect` | `Spec => []TypeOK` (Settlement) | one leaf per action; a commit merges two well-typed rows |
| `SubmittedOnce` | `Spec => []ExecutesOnce` | at most one session is between reservation and call, and then `usage` is used up and `calls` is 0; revocation uses up `usage` |
| `SettledOnlyIfCapturedHolds` | `Spec => []BackedByProvider` | what a session holds is as sound as the row: a copy that says PAID, an observation of a capture and a refund in hand each imply a capture; captures are never undone |
| `RowStaysSound` | `Spec => []RowSound` | `RowInv`: payment ids come from value-checked events or observations, an order id is there before a payment id, and a payment id before PAID; no copy is ahead of the row and none of the three is ever taken back, so columns merged from copies of different age still agree |
| `ClosedNeverRecorded` | `Spec => []NeverClosed` | a row with an order id has left AUTHORIZED, the only state from which the table allows CANCELLED or EXPIRED, and the branches for a closed order need that id |
| `SerialTransitionsLegal` | `SerialSpec => LegalTransitions` | the only open session's copy is the row, so the check on the copy is a check on the row |
| `OrderRailImplementsLifecycle` | `Spec => ImplementsLifecycle` (Settlement) | under the invariants above, only the reservation, the revocation, the order, the capture and the refund move anything but the report, and the report is backed in the next state |
| `AutonomousTypeCorrect` | `Spec => []TypeOK` (AutonomousSettlement) | with `SessionsTyped`: the lock and the place of a session change together |
| `AutonomousRailImplementsLifecycle` | `Spec => ImplementsLifecycle` (AutonomousSettlement) | `UseInv`: one session is past the reservation, and until it asks nothing has been asked; `BookInv`: what the row and the sessions say of the debit is in the provider's books, where captured stays captured |
| `RowAlwaysNamesItsDebit` | `Spec => []RowNamesItsDebit` | `RailInv`: a payment id in the row or in a copy belongs to the mandate rail, an order id and PROVIDER_SUBMITTED to the order rail, and no deployment has both |
| `DeploymentAlwaysHonoured` | `Spec => []DeploymentHonoured` | `RailInv`, and what the start-up refusals leave (`StartedWell`): production means autonomous and the production base |
| `RevocationAlwaysSticks` | `Spec => RevocationSticks` | every execution passes `Revalidate`, which a ground lost for good disables |
| `GovernanceTypeCorrect` | `Spec => []TypeOK` (Governance) | a step of one session keeps the types if what it becomes is well typed and it leaves no gate behind |
| `RecordedDecisionIsFinal` | `Spec => DecisionIsFinal` | `ApprovalInv`: an intent in the hand of a verification still awaits approval or is approved and authorized; the sweeper only touches intents no verification can hold |
| `MandatesAlwaysBind` | `Spec => []MandatesBind` | `MandateInv`: a session's time has passed and the mandates it was judged under bind it; mandates only appear now or end, so what bound once binds for ever |
| `AuthorizedNeedsAllow` | `OrderlySpec => []AuthorizedOnlyIfAllowed` | `OrderInv`: a key in hand and not yet recorded stays unrecorded, since only its own session can write it; what is allowed stays allowed |
| `BudgetAlwaysKept` | `OneMandate => (OrderlySpec => []BudgetKept)` | `BudgetInv`: from reading what is spent until it is written a submission holds the gate, so what it found room for still fits; no undenied intent is later than one still in hand, so every window the new intent falls in is within the one it was judged by. `Total` is a sum by recursion on the subsets of a set: that it is defined, does not depend on the order (`TotalSplit`), grows with the set and depends on its rows only is proved by induction over subsets (`SubsetInduction`) |
| `ChainAlwaysVerifies` | `Locked => (Spec => []ChainVerifies)` | `ChainInv`: who has flushed to or read the tail of a chain holds its lock, ids are unique and below `next`, and what a transaction sees of a chain is linked |
| `ImplementsAuditLog` | `Locked => (Spec => AppendOnlyLog)` | under `ChainInv`, a commit's events of a chain all come after the committed ones of it |
| `EvidenceKeepsChains` | `Locked => (EvidenceSpec => []ChainVerifies /\ AppendOnlyLog)` | every step of the composition is a step of `AuditChain` or leaves its variables alone, so the two theorems above carry over |
| `AuthorizationStaysAllowed` | `EvidenceSpec => []AuthorizationStands` | `Accounted`: what is minted, or in the hand of an approval, is allowed, waits for a step-up, which the sweeper does not take, or is in `raced`; a mint that commits for anything else enters it there, and only a decision, an approval or a sweep writes the row |
| `WhatIsShownStays` | `Locked => (EvidenceSpec => []ShownIsVerified)` | `ShownInv`: what is listed is the beginning of its chain; a commit is an `Append`, so it puts nothing in front of it, and a part of linked events is linked |
| `IdentityTypeCorrect` | `Spec => []TypeOK` (Identity) | with `Hands`: what a request holds at each `pc` is what its handler goes on to write |
| `ProofsServeOnce` | `Spec => []ProofServedOnce` | `ProofInv`: a proof in a request's hand is in no other's and not burned; `served` is 1 exactly for the burned |
| `DelegationsAreUsedOnce` | `Spec => []DelegationUsedOnce` | `DelegationInv`: a request that still has to issue a credential is the only one whose delegation has an agent and no credential |
| `RevocationsStand` | `Spec => RevocationIsFinal` | `RevokedExist`: revoked credentials and those a request holds have been issued, so no insert overwrites one; no commit writes a status it did not set |
| `NoncesOpenOneSession` | `SerialSpec => []OneSessionPerNonce` | `NonceInv`: a used nonce has its session, or the one request (`OneOpen`) that is about to open it, or was given up |
| `LiveCredentialsAreCurrent` | `SerialSpec => []CredentialsLive` | `CredInv`: what the open request read of credentials, parent and agent is still so when it writes |
| `OldKeysExpire` | `SerialSpec => []KeyGrace` | `KeyInv`: the row a rotation read is the row it writes, and it read the clock before; what the row keeps as previous key and sunset is what `told` says of the last rotation, so that key is accepted until then and no other replaced key is |
| `BundlesCohere` | `Locked => (EvidenceSpec => []BundleCoherent)` | `CurrentInv`: the event that names the row's state is the last one of its intent, as an operation appends to its own intent's chain under that chain's lock (`OwnInv`); `LeadInv`: a recorded intent's chain has a first decision and a commit puts nothing before it; `BundleInv` carries both to what the reader holds between two queries |
| `AgentRunTypeCorrect` | `Spec => []TypeOK` (AgentRun) | with `RunInv` |
| `RunStaysWithinGrant` | `Spec => []WithinGrant` | `RowInv`: what is in hand was allowed and never asked for, and taking it out of hand is what asking does; `CountInv`: acknowledged payments are those counted and the one answer under way, and none is on the wire when the budget is spent |
| `IntentsTraceToCalls` | `Spec => []TracedToCall` | `TravelInv` and `RowInv`: the one request on the wire carries the label of the call that is being executed, for a transaction with no row yet |
| `OutcomesAreTrue` | `Spec => []OutcomeIsTrue` | `CountInv` and `TravelInv`: only the answer to the confirmation being executed sets the outcome |
| `MigrationsTypeCorrect` | `Spec => []TypeOK` (Migrations) | `HistoryInv`, below |
| `RowsStaySound` | `Spec => []RowsSound` | `HistoryInv`: `Plan` and `Repairs`, what the statements left between two versions may and will still do; each of the nineteen revisions is shown to be such a plan, loops over tables by induction on their length (`FlattenIn`) |
| `SchemaStaysSound` | `Spec => []SchemaSound` | `SchemaInv`, below |
| `OrphansAloneAbort` | `0 \notin Targets => (Spec => []OnlyOrphansAbort)` | `LeadInv`, below |
| `MeaningIsKept` | `Spec => RowsKeepMeaning` | `MeaningInv` of `HistoryInv`: what a run holds means what is committed, so a commit and a rollback keep it |

The properties are not inductive by themselves: they speak of rows, while the danger is
in what a session carries from an old row to a later commit. Each strengthening says what
a session may hold at each `pc`.

`OneMandate` is needed: with two, taking the second gate gives up the first (`MCGovernanceTwoMandates`).

`SchemaSound` speaks of a committed schema, while a run holds one that is half of a revision. `SchemaInv` looks
ahead: `Result(run.left, work.schema)`, what the statements left will make of it, is the schema of the version they
lead to (`Heading`), so a commit of the whole revision, or a rollback, finds a version's schema. A statement moves
objects from what is to come to what is there, and nothing else (`ResultStays`). That rests on the order
of the statements (`Orderly`: before an autocommit block only types and labels are made, so what it commits is still
the old version) and on each of the nineteen revisions being the reverse of itself: `Reverses(d, n, X, Y)` gives what
it adds and takes back whatever schema it finds, with a date of birth for every object (`Birth`), from which follows
that no downgrade takes an older object. For the references: the parity revision is about to add the keys that are missing (`Whole` of
the result), later revisions touch only columns, and a dangling row is never where a key is or will be added
without a look at it (`OrphanInv`). TLC checked `SchemaInv` for all twenty targets before it was proved.

`OnlyOrphansAbort` says that a statement in hand succeeds, so `LeadInv` says that all those left do: `Leads(d, left, s, c, t)`
holds when the statements `left` succeed one after the other from the schema `s`, given what is known of the rows `c`
(that a look for dangling rows, or an upper-casing, has been passed), and end at the schema `t`. Each of the nineteen
revisions is shown to climb (`Climbs`) and to descend (`Descends`) from every schema that is `Ready` for its version: it has all
that the revisions up to there make (`Makes`), and no table, column, native type or key of a later one (types and
labels a downgrade left may be there). A fresh database is `Ready` at every version (`FreshReady`), so is a PostgreSQL schema
that is that of its version in what downgrades take back (`ReadySame`), and
SQLite that was never cut short is exactly fresh between runs. During a run `Marked` carries what the passed looks have shown
to the statement that relies on it, and the one that fails on SQLite by itself, the drop of a nameless key in
the downgrade of the parity revision, is where the run is `Stuck`. `0 \notin Targets` is not a convenience: taken down to nothing
PostgreSQL keeps its enum types and the next upgrade fails on them, which `MCMigrationsDeep` shows.

Induction. The library's induction theorems take an operator, which no installed prover instantiates. Where a
proof needs induction over data it is done on a *set* of values, from the theorem that a nonempty set has a minimal
element of a well-founded order (`WFMin`): over numbers (`Induct`, `CountUp`) and over the subsets of a finite set
(`SubsetInduction`).

Only model-checked: the liveness properties (fairness is out of the prover's reach). Every invariant and every
action property of a passing run is stated by a theorem, `OnlyOrphansAbort` for targets other than nothing.

## 6. Findings

What the models show of the code that its documents, comments or messages do not say. The first is a
listed run; those with a configuration in parentheses are refuted by it; the others follow from the
modelled definitions and were met while writing them.

1. **PAID is withdrawn** (`MCSettlementPaidFinal`). A webhook that read PROVIDER_SUBMITTED commits
   PROVIDER_AUTHORIZED over a PAID committed meanwhile (`payments.py` 1068), against `docs/SECURITY.md` 39.
   `settlement_recovery` shows that the worker puts it right.
2. Settlement:
   * a declined attempt makes the row DECLINED and a later capture is lost (`MCSettlementTwoAttempts`);
   * no row is ever EXPIRED or CANCELLED (`ClosedNeverRecorded`), although `README.md` 149 and
     `tests/test_state_reachability.py` 26-33 list both as states that are reached; `docs/BLUEPRINT_IMPLEMENTATION_AUDIT.md`
     176 says as much. The row of a closed order stays as it is, even when its payment was declined (`MCSettlementClosed`).
3. Governance: the loser of an idempotency race mints for a REVIEW (`MCGovernanceRetry`); the second mandate's gate
   releases the first (`MCGovernanceTwoMandates`); the budget window is that of a clock read before the wait
   (`MCGovernanceStaleClock`).
4. Identity: one nonce opens two sessions (`MCIdentityNonce`); a revoked parent comes back by way of reject
   (`MCIdentityParent`); overlapping rotations leave two live credentials (`MCIdentityRotation`);
   a second rotation within the grace period ends the first key's grace early (`MCIdentityGrace`).
5. Audit: on SQLite the chain may fork, since both requests read before either writes (`MCAuditUnlocked`).
6. Autonomous settlement:
   * a debit whose answer was lost, or that a crash overtook before the commit, is on no row and is
     never reconciled; an error that is no timeout is recorded as FAILED (`MCAutonomousAmbiguous`);
   * a mandate revoked after revalidation does not block the request (`MCAutonomousRevocation`);
   * the Razorpay agentic adapter reads the unscoped keys, so a tenant is debited at the default account, where
     its own reconciliation does not look (`MCAutonomousAccount`);
   * `provider_accounts.py` strips non-word characters from an organization's id, so two organizations may share a variable name;
   * a production deployment whose agentic provider is the reference provider is not refused at start-up;
   * the cap of a binding is not asked when it is debited; a binding stays active when its mandate is revoked, and
     its unique provider reference cannot be bound again after it expires;
   * a contract that says "paid" without a capture path leaves the row PROVIDER_UNKNOWN for good;
   * a debit of a real agentic provider is stamped "unattributed";
   * a deployment in the `provider_mandate` mode that has no token list counts as capable, and every validation fails.
7. Evidence: a denial or a lapsed review for which a same-key submission minted is shown as authorized (`MCEvidenceRetry`);
   a bundle can show REVIEW beside an authorization (`MCEvidenceTorn`); the state it shows may be ahead
   of the events it lists; `chain_verified` speaks of a chain read again, longer than the one listed; for an intent
   without an authorization the bundle fails on `auth.agent_id` (`proof_bundle.py` 312).
8. Agent: a payment that was answered with an error after the provider was asked is not counted against
   "at most N payment(s)" (`MCAgentRunUnknown`); the authorization taken out of hand by a refused execution cannot be
   tried again; transport errors pass through `execute`, which "Never raises"; `payment_executed` is true of an
   answer 200 whose state is FAILED or DECLINED.
9. Migrations:
   * on SQLite, a kill or an abort part-way leaves tables on which the re-run fails (`MCMigrationsRerun`); in
     the same way `f5a6` can never be taken down there (exempted in `OnlyOrphansAbort`);
   * `d3e4` calls model and migration agreed on SQLite, and a row with the default is unreadable (`MCMigrationsReads`);
   * on SQLite, a downgrade killed between a DROP and the record of its revision leaves a version without a table it
     has, and the next upgrade passes over that table's keys without a word (`f5a6` 103; in `ReferencesHold`);
   * taken down to nothing, PostgreSQL keeps its enum types and the next upgrade fails (`MCMigrationsDeep`);
   * `f5a6` taken down on PostgreSQL drops a foreign key of `e4f5` that has the same name, against its "Drop only
     constraints this revision created" (exempted at that version in `SchemaOfVersion`);
   * `b2c3` down and up again marks version-2 events as version 1, so their chains no longer verify (`stripped`);
     `c3d4` down rewrites rows it did not produce; `b8c9` down and up again forgets the tenants.

## 7. Not modelled

* **Rate limiter**: `check_rate` is called by no route. **Mandate signing, crypto, schemas, the protocol package**:
  pure functions; a signature, a token or a document either passes or does not, and that is an input.
* **HTTP, page rendering, logging**, the HTML of a proof bundle, and its rows of agent, credential, delegation and
  revocations, each read by one query that no other part of the bundle is related to.
* **Provider accounts**: which account a payment goes to is modelled, the routes that edit the rows are not: they
  are single-row writes that consume and reconciliation read once.
* **The provider's side of Razorpay**: orders, payments, events, refunds and mandates are environment, modelled from how the code uses them.
* **Scripts, demos, examples**: drivers of the service that keep no state.
* Per-merchant budgets, `kyb` tiers, lengths and nullability of columns: data that the properties do not tell apart.

Hazards without a property, with the reason, are in `PROJECT.json`: a capture after a declined attempt; an order closed with an
attempt under way that is captured later; an order created but recorded as FAILED; a crash between decision and mint; a
rejected parent that was revoked. The code does the wrong thing in each whenever the sequence occurs, so the property would
be false rather than informative.

## 8. Plan

1. `AgentRun` composed with `Governance`, so that what the server answers is what it decides.
2. Liveness of `Settlement` with closings, once `reconcile_one` does not return at an illegal transition.
