---------------------------- MODULE Deployment ----------------------------
(***************************************************************************)
(* The environment a Paari process runs in, whether it is allowed to start *)
(* (app/config.py, app/main.py), and where its provider calls then go      *)
(* (app/provider_accounts.py, app/providers/agentic.py, razorpay.py).      *)
(* Everything is a function of the deployment record d; nothing here has   *)
(* state.                                                                  *)
(***************************************************************************)

\* What the environment variables, the tenant's rows and the contract with the
\* provider amount to, as far as the code tells them apart.
DeploymentType ==
  [env     : {"sandbox", "test", "prod", "prod-live"},  \* PAARI_ENV
   live    : BOOLEAN,                                   \* PAARI_LIVE = 1
   secrets : BOOLEAN,                                   \* the required secrets are all set
   db      : {"sqlite", "postgresql"},                  \* the scheme of the database URL
   base    : {"unset", "production", "simulator"},      \* RAZORPAY_API_BASE
   key     : {"test", "live", "other"},                 \* prefix of RAZORPAY_KEY_ID
   mode    : {"standard", "autonomous", "typo"},        \* PAARI_MODE
   require : BOOLEAN,                                   \* PAARI_REQUIRE_USER_MANDATE = 1
   org     : {"default", "tenant"},                     \* whose payment it is
   account : BOOLEAN,           \* the tenant has a provider account and its keys
   global  : {"none", "malformed", "reference", "razorpay"},  \* PAARI_AGENTIC_PROVIDER
   scoped  : {"none", "malformed", "reference", "razorpay"},  \* ... __TENANT
   attested    : BOOLEAN,       \* the capability flag, authorize and payment paths are set
   tokenMode   : BOOLEAN,       \* ..._AUTH_PAYLOAD_MODE is the recurring token one
   tokenList   : BOOLEAN,       \* RAZORPAY_AGENTIC_TOKEN_LIST_PATH is set
   validatePath : BOOLEAN,      \* RAZORPAY_AGENTIC_VALIDATE_PATH is set
   capturePath : BOOLEAN,       \* RAZORPAY_AGENTIC_CAPTURE_PATH is set
   word        : {"captured", "paid"}]  \* how the contract reports a capture

-----------------------------------------------------------------------------
(* config.py and main.py: what may start.                                  *)

\* mandate_policy: an unknown mode raises; the legacy flag only strengthens.
PolicyValid(d) == d.mode # "typo"
Autonomous(d) == d.mode = "autonomous" \/ d.require

Production(d) == d.env \in {"prod", "prod-live"}

\* load_config: a development environment gets the production base by default.
ApiBase(d) == IF d.base = "unset" /\ ~Production(d) THEN "production" ELSE d.base

ConfigLoads(d) == PolicyValid(d) /\ (Production(d) \/ d.live => d.secrets)

StartupRefusals(d) ==
  (IF (Production(d) \/ d.live) /\ d.db # "postgresql" THEN {"database"} ELSE {})
  \cup (IF Production(d) /\ ApiBase(d) # "production" THEN {"base"} ELSE {})
  \cup (IF Production(d) /\ ~Autonomous(d) THEN {"mandate"} ELSE {})

Starts(d) == ConfigLoads(d) /\ StartupRefusals(d) = {}

-----------------------------------------------------------------------------
(* Which provider a payment of d.org goes to.                              *)

\* Mutant: the environment is told from the key alone.
EnvironmentByKey(d) == IF d.key \in {"test", "live"} THEN d.key ELSE "unknown"

\* An empty base means the production one to classify_environment.
Environment(d) ==
  IF ApiBase(d) = "simulator" THEN "simulated"
  ELSE IF d.key \in {"test", "live"} THEN d.key ELSE "unknown"

\* get_provider_for_org: a tenant never borrows the default account.
AccountResolves(d) == d.org = "default" \/ d.account
OrderAccount(d) == d.org

\* _resolve_agentic_spec: a tenant never borrows the global adapter.
Adapter(d) == IF d.org = "default" THEN d.global ELSE d.scoped

\* supports_autonomous_settlement of the three adapters.
Configured(d) == d.secrets /\ d.attested
Capable(d) ==
  \/ Adapter(d) = "reference"
  \/ Adapter(d) = "razorpay" /\ Configured(d) /\ (d.tokenMode => d.tokenList)

\* Where a debit of the adapter is taken.  The Razorpay adapter reads the keys
\* that are not scoped to a tenant, whoever's adapter it is.
DebitAccount(d) == IF Adapter(d) = "reference" THEN "memory" ELSE "default"

\* The provenance stamped with a debit: only the reference adapter states one.
DebitEnvironment(d) == IF Adapter(d) = "reference" THEN "simulated" ELSE "unknown"

\* proof_bundle: what an outsider is told of the origin of a settlement.
SettlementSource(environment) ==
  CASE environment \in {"test", "live"} -> "provider"
    [] environment = "simulated" -> "simulator"
    [] OTHER -> "unattributed"
=============================================================================
