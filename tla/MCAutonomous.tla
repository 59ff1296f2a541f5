--------------------------- MODULE MCAutonomous ---------------------------
(***************************************************************************)
(* Instances of AutonomousSettlement: the deployments, and what the        *)
(* documentation promises and the code does not keep.                      *)
(***************************************************************************)
EXTENDS AutonomousSettlement

Sandbox ==
  [env |-> "sandbox", live |-> FALSE, secrets |-> TRUE, db |-> "sqlite", base |-> "unset",
   key |-> "test", mode |-> "autonomous", require |-> FALSE, org |-> "default",
   account |-> FALSE, global |-> "razorpay", scoped |-> "none", attested |-> TRUE,
   tokenMode |-> TRUE, tokenList |-> TRUE, validatePath |-> FALSE, capturePath |-> TRUE, word |-> "captured"]

Prod == [Sandbox EXCEPT !.env = "prod", !.db = "postgresql", !.base = "production", !.key = "live"]

\* One deployment for each way the code tells them apart; some must not start.
MCDeployments ==
  {Prod,
   [Sandbox EXCEPT !.global = "reference"],
   [Sandbox EXCEPT !.global = "malformed"],
   [Sandbox EXCEPT !.attested = FALSE],
   [Sandbox EXCEPT !.tokenList = FALSE],
   [Sandbox EXCEPT !.tokenList = FALSE, !.tokenMode = FALSE],
   [Sandbox EXCEPT !.mode = "standard", !.global = "none"],
   [Sandbox EXCEPT !.mode = "standard", !.global = "none", !.base = "simulator"],
   [Sandbox EXCEPT !.mode = "standard", !.require = TRUE, !.global = "none"],
   [Sandbox EXCEPT !.mode = "standard", !.org = "tenant", !.global = "reference"],
   [Sandbox EXCEPT !.org = "tenant", !.account = TRUE, !.scoped = "razorpay",
                   !.capturePath = FALSE, !.word = "paid"],
   [Prod EXCEPT !.base = "simulator"],
   [Prod EXCEPT !.mode = "standard"],
   [Prod EXCEPT !.mode = "standard", !.global = "none"],
   [Prod EXCEPT !.secrets = FALSE],
   [Prod EXCEPT !.db = "sqlite"]}

\* One that can settle, for what the reconciler must and cannot find.
MCSettling == {Sandbox}

\* docs/PROVIDER_AUTONOMOUS_SETTLEMENT.md, rule 6: an ambiguous answer becomes
\* PROVIDER_UNKNOWN and is reconciled later, so a debit that was really taken in
\* the authorized value is settled in the end.
AmbiguousIsReconciled == Corroborated(debit) ~> txn.state = "PAID"

\* docs/PHASE7_USER_MANDATE_AND_AUTONOMOUS_SETTLEMENT.md: revoking the mandate
\* blocks a previously minted authorization that is not yet consumed.
RevocationBlocks == [][usage' > usage => "mandate" \in grounds]_vars

\* app/provider_accounts.py: Paari never silently falls back to the default
\* Razorpay account.
OwnAccount == debit.status # "none" /\ ~Simulated => DebitAccount(dep) = OrderAccount(dep)
=============================================================================
