---------------------------- MODULE Migrations ----------------------------
(***************************************************************************)
(* The schema history of the database (alembic/versions) and the runs of   *)
(* `alembic upgrade` and `alembic downgrade` that move a database along    *)
(* it, on PostgreSQL, where a whole run is one transaction, and on SQLite, *)
(* where a statement that changes the schema is durable at once unless a   *)
(* statement that changes rows has opened a transaction before it.  A run  *)
(* is killed between any two statements, or stops at one that fails, and   *)
(* an operator runs it again; between runs the application of the version  *)
(* on disk writes a payment, a mandate, an audit event and a dangling row. *)
(*                                                                         *)
(* A schema is a set of named objects; lengths, nullability, defaults of   *)
(* columns no row depends on, and indexes are left out.                    *)
(***************************************************************************)
EXTENDS Integers, FiniteSets, SequencesExt

CONSTANTS
  Targets,          \* versions an operator moves the database to
  MaxDisturbances,  \* commands other than `upgrade head`, and dangling rows
  MaxCrashes        \* runs killed half-way

ASSUME TargetsAssumption == Targets \subseteq 0..19
ASSUME BoundsAssumption == MaxDisturbances \in Nat /\ MaxCrashes \in Nat

VARIABLES
  dialect,       \* "postgresql" or "sqlite"
  disk,          \* what is committed: version table, schema, rows
  work,          \* what the run sees: committed and its own changes
  run,           \* the command running, and the statements left of its revision
  cut,           \* history: the directions in which a run has stopped half-way
  disturbances, crashes

vars == <<dialect, disk, work, run, cut, disturbances, crashes>>

Dialects == {"postgresql", "sqlite"}
Latest == 19

-----------------------------------------------------------------------------
\* Objects of a schema.

Table(t) == <<"table", t>>
Column(t, c) == <<"column", t, c>>
Native(t, c) == <<"native", t, c>>            \* the column has an enum type
Key(t, c, ref, name) == <<"key", t, c, ref, name>>
Type(n) == <<"type", n>>
Label(n, l) == <<"label", n, l>>
Scratch(t) == <<"scratch", t>>                \* _alembic_tmp_<t> of a rebuild

-----------------------------------------------------------------------------
\* Statements.

Plain == [mode |-> "schema", needs |-> {}, adds |-> {}, drops |-> {},
          orphans |-> {}, write |-> "nothing"]
Add(objects) == [Plain EXCEPT !.adds = objects]
Drop(objects) == [Plain EXCEPT !.drops = objects]
Rewrite(how) == [Plain EXCEPT !.mode = "rows", !.write = how]
RefuseOrphans(os) == [Plain EXCEPT !.orphans = os]

\* An autocommit block commits the transaction so far, and each statement in it.
Commit == [Plain EXCEPT !.mode = "commit"]
AddLabelsUnguarded(labels, s) == [Add(labels) EXCEPT !.mode = "commit"]
AddLabels(labels, s) == [Add(labels \ s) EXCEPT !.mode = "commit"]

CreateTables(ts) == [i \in DOMAIN ts |-> Add({Table(ts[i])})]
DropTables(ts) == [i \in DOMAIN ts |-> Drop({Table(ts[i])})]
AddColumns(t, cs) == [i \in DOMAIN cs |-> Add({Column(t, cs[i])})]
DropColumns(t, cs) == [i \in DOMAIN cs |-> Drop({Column(t, cs[i])})]

\* batch_alter_table: ALTERs on PostgreSQL; on SQLite a scratch table is created,
\* then filled, and takes the place of the old one.
Batch(d, t, adds, drops) ==
  IF d = "postgresql"
  THEN << [Add(adds) EXCEPT !.drops = drops] >>
  ELSE << [Add({Scratch(t)}) EXCEPT !.needs = drops],
          [Rewrite("nothing") EXCEPT !.adds = adds, !.drops = drops \cup {Scratch(t)}] >>

\* A loop of a revision: the statements of each element, one after the other.
ForEach(Steps(_), seq) == FlattenSeq([i \in DOMAIN seq |-> Steps(seq[i])])

-----------------------------------------------------------------------------
\* The revisions, oldest first, as the statements of upgrade() and downgrade().

BaselineTables ==
  <<"auth_nonces", "bounded_authorizations", "mfa_challenges", "parent_authorities",
    "payment_intents", "provider_transactions", "revocation_records", "agents",
    "delegation_records", "credentials">>

EnumsOf(d, t) ==
  CASE d = "postgresql" /\ t = "parent_authorities" -> {Type("parentstatus")}
    [] d = "postgresql" /\ t = "payment_intents" -> {Type("governancedecision")}
    [] d = "postgresql" /\ t = "agents" -> {Type("agentstatus")}
    [] OTHER -> {}

Baseline(d) ==
  [i \in DOMAIN BaselineTables |->
     Add({Table(BaselineTables[i])} \cup EnumsOf(d, BaselineTables[i]))]

DropBaseline ==
  DropTables(<<"credentials", "delegation_records", "agents", "revocation_records",
               "provider_transactions", "payment_intents", "parent_authorities",
               "mfa_challenges", "bounded_authorizations", "auth_nonces">>)

ReviewExpiry ==
  [up |-> AddColumns("payment_intents", <<"review_expires_at">>),
   down |-> DropColumns("payment_intents", <<"review_expires_at">>)]

ReconciledAt ==
  [up |-> AddColumns("provider_transactions", <<"reconciled_at">>),
   down |-> DropColumns("provider_transactions", <<"reconciled_at">>)]

AuditEvents ==
  [up |-> << Add({Table("audit_events"), Column("audit_events", "org_id")}) >>,
   down |-> DropTables(<<"audit_events">>)]

AgentProtocol ==
  [up |-> AddColumns("agents", <<"protocol_version">>),
   down |-> DropColumns("agents", <<"protocol_version">>)]

TrustTierStays(d) ==
  [up |-> AddColumns("parent_authorities", <<"trust_tier", "kyb_provider_ref">>)
          \o AddColumns("agents", <<"old_public_key_pem", "key_sunset_at">>)
          \o AddColumns("credentials", <<"superseded_by", "rotates_at">>),
   down |-> DropColumns("credentials", <<"rotates_at", "superseded_by">>)
            \o DropColumns("agents", <<"key_sunset_at", "old_public_key_pem">>)
            \o DropColumns("parent_authorities", <<"kyb_provider_ref">>)]

TrustRotation(d) ==
  [up |-> AddColumns("parent_authorities", <<"trust_tier", "kyb_provider_ref">>)
          \o << Rewrite("nothing") >> \o Batch(d, "parent_authorities", {}, {})
          \o AddColumns("agents", <<"old_public_key_pem">>)
          \o AddColumns("credentials", <<"superseded_by", "rotates_at">>)
          \o AddColumns("agents", <<"key_sunset_at">>),
   down |-> DropColumns("credentials", <<"rotates_at", "superseded_by">>)
            \o DropColumns("agents", <<"key_sunset_at", "old_public_key_pem">>)
            \o DropColumns("parent_authorities", <<"kyb_provider_ref", "trust_tier">>)]

RateBuckets ==
  [up |-> << Add({Table("rate_buckets"), Column("rate_buckets", "org_id")}) >>,
   down |-> DropTables(<<"rate_buckets">>)]

AddOrgColumnTables ==
  <<"parent_authorities", "delegation_records", "revocation_records", "agents",
    "credentials", "auth_nonces", "payment_intents", "mfa_challenges",
    "bounded_authorizations", "provider_transactions">>

References == \* ORPHAN_CHECKS without payment_intents.agent_id
  << <<"bounded_authorizations", "agent_id", "agents">>,
     <<"bounded_authorizations", "intent_id", "payment_intents">>,
     <<"provider_transactions", "authorization_id", "bounded_authorizations">>,
     <<"provider_transactions", "agent_id", "agents">>,
     <<"provider_transactions", "intent_id", "payment_intents">>,
     <<"mfa_challenges", "intent_id", "payment_intents">> >>

\* A dangling row: its table, the column, and the id that is in it.
Ids == {"unauthenticated", "deleted"}
Dangling(refs) == {<<r[1], r[2], id>> : r \in refs, id \in Ids}
OrphanChecksForgotten == {<<"payment_intents", "agent_id", "deleted">>}
OrphanChecks == Dangling(Range(References)) \cup {<<"payment_intents", "agent_id", "deleted">>}

MultitenancyKeys ==
  {Key(r[1], r[2], r[3], <<"fk_0008", r[1], r[2]>>) : r \in Range(References)}

\* The row that opens the transaction is the default organization; the columns, the
\* back-fill and the NOT NULLs after it are one step, being in that transaction.
Multitenancy(d, s) ==
  [up |-> CreateTables(<<"organizations", "provider_accounts">>)
          \o << Rewrite("nothing"),
                Add({Column(t, "org_id") : t \in Range(AddOrgColumnTables)} \ s),
                RefuseOrphans(OrphanChecks) >>
          \o IF d = "postgresql" THEN << Add(MultitenancyKeys) >> ELSE << >>,
   down |-> (IF d = "postgresql" THEN << Drop(MultitenancyKeys) >> ELSE << >>)
            \o ForEach(LAMBDA t : Batch(d, t, {}, {Column(t, "org_id")}), AddOrgColumnTables)
            \o DropTables(<<"provider_accounts", "organizations">>)]

RequestProofs(d) ==
  LET key == Key("request_proofs", "agent_id", "agents", <<"fk_request_proofs_agent">>) IN
  [up |-> CreateTables(<<"request_proofs">>)
          \o IF d = "postgresql" THEN << Add({key}) >> ELSE << >>,
   down |-> (IF d = "postgresql" THEN << Drop({key}) >> ELSE << >>)
            \o DropTables(<<"request_proofs">>)]

\* A constraint declared in a column has the name the database gives it, or none.
Inline(d, t, c) == IF d = "postgresql" THEN <<t, c, "fkey">> ELSE << >>

MandateKey(t) ==
  Key(t, "mandate_id", "user_payment_mandates", <<"fk", t, "mandate_id">>)

UserPaymentMandates(d) ==
  LET mandates == "user_payment_mandates"
      bindings == "payment_instrument_bindings"
      intents == {Column("payment_intents", "mandate_id"),
                  Column("payment_intents", "merchant_category"), MandateKey("payment_intents")}
      authorizations == {Column("bounded_authorizations", "mandate_id"),
                         MandateKey("bounded_authorizations")}
  IN [up |-> << Add({Table(mandates),
                     Key(mandates, "agent_id", "agents", Inline(d, mandates, "agent_id"))}),
                Add({Table(bindings),
                     Key(bindings, "mandate_id", mandates, Inline(d, bindings, "mandate_id"))}) >>
             \o Batch(d, "payment_intents", intents, {})
             \o Batch(d, "bounded_authorizations", authorizations, {}),
      down |-> Batch(d, "bounded_authorizations", {}, authorizations)
               \o Batch(d, "payment_intents", {}, intents)
               \o DropTables(<<bindings, mandates>>)]

SigningAndAudit ==
  [up |-> AddColumns("user_payment_mandates",
            <<"signing_key_id", "signature_b64", "user_public_key_pem", "signed_at">>)
          \o AddColumns("payment_intents",
               <<"llm_run_id", "llm_model", "llm_tool_call_id", "llm_tool_name">>)
          \o AddColumns("user_payment_mandates",
               <<"max_per_hour", "max_per_merchant_per_day", "max_category_per_day">>),
   down |-> DropColumns("user_payment_mandates",
              <<"max_category_per_day", "max_per_merchant_per_day", "max_per_hour">>)
            \o DropColumns("payment_intents",
                 <<"llm_tool_name", "llm_tool_call_id", "llm_model", "llm_run_id">>)
            \o DropColumns("user_payment_mandates",
                 <<"signature_b64", "user_public_key_pem", "signed_at", "signing_key_id">>)]

LlmAttributed ==
  [up |-> AddColumns("payment_intents", <<"llm_attributed">>),
   down |-> DropColumns("payment_intents", <<"llm_attributed">>)]

ParentSuspended(d, s) ==
  [up |-> IF d = "postgresql"
          THEN << Commit, AddLabels({Label("parentstatus", "SUSPENDED")}, s) >> ELSE << >>,
   down |-> << >>]

MandateStatusEnum(d, s) ==
  LET status == Native("user_payment_mandates", "status") IN
  [up |-> IF d # "postgresql" THEN << >>
          ELSE << Add({Type("mandatestatus")} \ s), Commit,
                  Rewrite("upper"), [Add({status}) EXCEPT !.write = "cast"] >>,
   down |-> IF d # "postgresql" THEN << >> ELSE << Drop({status}) >>]

\* The name a key of the parity revision gets, which one of e4f5a6b7c8d9 has too.
FkName(t, c, ref) == <<"fk", t, c, ref>>
AgentKey == Key("payment_intents", "agent_id", "agents",
                FkName("payment_intents", "agent_id", "agents"))

IntentAgentKey(d, s) ==
  [up |-> IF d # "postgresql" THEN << >>
          ELSE << RefuseOrphans(Dangling({<<"payment_intents", "agent_id">>})),
                  Add({AgentKey}) >>,
   down |-> IF d # "postgresql" THEN << >> ELSE << Drop({AgentKey} \cap s) >>]

RequiredFks ==
  << <<"payment_intents", "agent_id", "agents">>,
     <<"payment_intents", "mandate_id", "user_payment_mandates">>,
     <<"mfa_challenges", "intent_id", "payment_intents">>,
     <<"bounded_authorizations", "intent_id", "payment_intents">>,
     <<"bounded_authorizations", "agent_id", "agents">>,
     <<"bounded_authorizations", "mandate_id", "user_payment_mandates">>,
     <<"provider_transactions", "authorization_id", "bounded_authorizations">>,
     <<"provider_transactions", "intent_id", "payment_intents">>,
     <<"provider_transactions", "agent_id", "agents">>,
     <<"user_payment_mandates", "agent_id", "agents">>,
     <<"payment_instrument_bindings", "mandate_id", "user_payment_mandates">>,
     <<"request_proofs", "agent_id", "agents">> >>

KeysOn(s, t, c) == {e \in s : e[1] = "key" /\ e[2] = t /\ e[3] = c}
Enforced(s, fk) == \E e \in KeysOn(s, fk[1], fk[2]) : e[4] = fk[3]
OwnKey(fk) == Key(fk[1], fk[2], fk[3], FkName(fk[1], fk[2], fk[3]))

\* A key is missing only between tables that are there.
Attachable(s, fk) == {Table(fk[1]), Table(fk[3])} \subseteq s
Missing(s, fk) == Attachable(s, fk) /\ ~Enforced(s, fk)

AddFksUnchecked(d, s) ==
  ForEach(LAMBDA fk : IF Missing(s, fk) THEN Batch(d, fk[1], {OwnKey(fk)}, {}) ELSE << >>,
          RequiredFks)

\* The keys a database lacks are added one by one, after a look for dangling rows.
AddMissingFks(d, s) ==
  << RefuseOrphans(Dangling({fk \in Range(RequiredFks) : Missing(s, fk)})) >>
  \o ForEach(LAMBDA fk : IF Missing(s, fk) THEN Batch(d, fk[1], {OwnKey(fk)}, {}) ELSE << >>,
             RequiredFks)

\* Dropped by its own name is also the key that is found to have none.
DropOwnFks(d, s) ==
  ForEach(LAMBDA fk :
            IF OwnKey(fk) \in s \/ \E e \in KeysOn(s, fk[1], fk[2]) : e[5] = << >>
            THEN Batch(d, fk[1], {}, {OwnKey(fk)}) ELSE << >>,
          Reverse(RequiredFks))

FkParity(d, s) == [up |-> AddMissingFks(d, s), down |-> DropOwnFks(d, s)]

Provenance(d) ==
  LET columns == <<"provider_environment", "provider_key_id_prefix", "provider_api_base">> IN
  [up |-> AddColumns("provider_transactions", columns),
   down |-> Batch(d, "provider_transactions", {},
                  {Column("provider_transactions", c) : c \in Range(columns)})]

HashVersion == Column("audit_events", "hash_version")
AuditHashVersion(d) ==
  [up |-> << Add({HashVersion}) >>, down |-> Batch(d, "audit_events", {}, {HashVersion})]

StateVocabularySwapped == [up |-> << Rewrite("restore") >>, down |-> << Rewrite("retire") >>]
StateVocabulary == [up |-> << Rewrite("retire") >>, down |-> << Rewrite("restore") >>]

Revision(n, d, s) ==
  CASE n = 1 -> [up |-> Baseline(d), down |-> DropBaseline]
    [] n = 2 -> ReviewExpiry            [] n = 3 -> ReconciledAt
    [] n = 4 -> AuditEvents             [] n = 5 -> AgentProtocol
    [] n = 6 -> TrustRotation(d)        [] n = 7 -> RateBuckets
    [] n = 8 -> Multitenancy(d, s)      [] n = 9 -> RequestProofs(d)
    [] n = 10 -> UserPaymentMandates(d) [] n = 11 -> SigningAndAudit
    [] n = 12 -> LlmAttributed          [] n = 13 -> ParentSuspended(d, s)
    [] n = 14 -> MandateStatusEnum(d, s) [] n = 15 -> IntentAgentKey(d, s)
    [] n = 16 -> FkParity(d, s)         [] n = 17 -> Provenance(d)
    [] n = 18 -> AuditHashVersion(d)    [] n = 19 -> StateVocabulary

\* The statements of the revision a run with this goal runs next.
Statements(d, s, version, goal) ==
  IF version < goal THEN Revision(version + 1, d, s).up
  ELSE IF version > goal THEN Revision(version, d, s).down ELSE << >>

-----------------------------------------------------------------------------
\* What a statement does, and when it can.

NoRows == [txn |-> "none", mandate |-> "none", digest |-> 0, marked |-> 0,
           stripped |-> FALSE, orphans |-> {}]

\* The hash version the rows that are there get with the column.
MarkedNewest == 2
HashVersionDefault == 1
HashVersionNewest == 2

RelabelledAll(how, rows) ==
  CASE how = "retire" /\ rows.txn # "none" -> [rows EXCEPT !.txn = "PROVIDER_AUTHORIZED"]
    [] how = "restore" /\ rows.txn # "none" -> [rows EXCEPT !.txn = "PAYMENT_PENDING"]
    [] OTHER -> rows

Relabelled(how, rows) ==
  CASE how = "retire" /\ rows.txn = "PAYMENT_PENDING" -> [rows EXCEPT !.txn = "PROVIDER_AUTHORIZED"]
    [] how = "restore" /\ rows.txn = "PROVIDER_AUTHORIZED" -> [rows EXCEPT !.txn = "PAYMENT_PENDING"]
    [] how = "upper" /\ rows.mandate = "active" -> [rows EXCEPT !.mandate = "ACTIVE"]
    [] OTHER -> rows

\* A row goes with its table, a value with its column; a new column has its default.
Kept(rows, step) ==
  LET Gone(t) == Table(t) \in step.drops
      unmarked == Gone("audit_events") \/ HashVersion \in step.drops
  IN [txn |-> IF Gone("provider_transactions") THEN "none" ELSE rows.txn,
      mandate |-> IF Gone("user_payment_mandates") THEN "none" ELSE rows.mandate,
      digest |-> IF Gone("audit_events") THEN 0 ELSE rows.digest,
      marked |-> IF unmarked THEN 0
                 ELSE IF HashVersion \in step.adds /\ rows.digest # 0 THEN HashVersionDefault
                 ELSE rows.marked,
      stripped |-> ~Gone("audit_events") /\ (rows.stripped \/ (unmarked /\ rows.marked # 0)),
      orphans |-> {o \in rows.orphans : ~Gone(o[1])}]

\* What a table has goes with it, but not a scratch table left by a failed rebuild.
Dropped(step, s) ==
  IF step.drops = {} THEN {}
  ELSE {e \in s : e \in step.drops \/ (Table(e[2]) \in step.drops /\ e[1] # "scratch")}

Run(step, w) ==
  [w EXCEPT !.schema = (@ \ Dropped(step, @)) \cup step.adds,
            !.rows = Kept(Relabelled(step.write, @), step)]

\* What an object is part of: a column of its table, a label of its type.
Host(e) == IF e[1] = "type" THEN e ELSE IF e[1] = "label" THEN Type(e[2]) ELSE Table(e[2])

\* PostgreSQL checks a new key against tables and rows, refuses to drop a table another
\* one refers to, and converts only values that are labels of the type.
Accepts(d, step, w) ==
  d = "postgresql" =>
    /\ \A e \in step.adds : e[1] = "key" =>
         /\ Table(e[4]) \in w.schema \cup step.adds
         /\ \A o \in w.rows.orphans : <<o[1], o[2]>> # <<e[2], e[3]>>
    /\ step.drops # {} =>
         \A e \in w.schema : e[1] = "key" /\ Table(e[4]) \in step.drops => Table(e[2]) \in step.drops
    /\ step.write = "cast" => w.rows.mandate # "active"

Succeeds(d, step, w) ==
  /\ step.needs \cup step.drops \subseteq w.schema
  /\ step.adds \cap w.schema = {}
  /\ {Host(e) : e \in step.adds} \subseteq w.schema \cup step.adds
  /\ step.orphans \cap w.rows.orphans = {}
  /\ Accepts(d, step, w)

-----------------------------------------------------------------------------
Idle == [on |-> FALSE, goal |-> 0, open |-> FALSE, left |-> << >>]
Empty == [version |-> 0, schema |-> {}, rows |-> NoRows]

Init ==
  /\ dialect \in Dialects
  /\ disk = Empty /\ work = Empty
  /\ run = Idle /\ cut = {}
  /\ disturbances = 0 /\ crashes = 0

\* `alembic upgrade head`, what the container runs whenever it starts.
UpgradeHead ==
  /\ ~run.on /\ disk.version # Latest
  /\ run' = [on |-> TRUE, goal |-> Latest, open |-> FALSE,
             left |-> Statements(dialect, disk.schema, disk.version, Latest)]
  /\ UNCHANGED <<dialect, disk, work, cut, disturbances, crashes>>

\* An upgrade or a downgrade to a revision an operator names.
Command(goal) ==
  /\ ~run.on /\ disk.version # goal
  /\ disturbances < MaxDisturbances /\ disturbances' = disturbances + 1
  /\ run' = [on |-> TRUE, goal |-> goal, open |-> FALSE,
             left |-> Statements(dialect, disk.schema, disk.version, goal)]
  /\ UNCHANGED <<dialect, disk, work, cut, crashes>>

\* On SQLite a transaction begins with the first statement that changes rows.
Durable(step) ==
  \/ step.mode = "commit"
  \/ dialect = "sqlite" /\ ~run.open /\ step.mode = "schema"

Execute ==
  /\ run.on /\ run.left # << >>
  /\ LET step == Head(run.left) IN
       /\ Succeeds(dialect, step, work)
       /\ work' = Run(step, work)
       /\ disk' = IF Durable(step) THEN work' ELSE disk
       /\ run' = [run EXCEPT !.left = Tail(@), !.open = @ \/ step.mode = "rows"]
  /\ UNCHANGED <<dialect, cut, disturbances, crashes>>

\* Alembic records the revision; on SQLite it then commits, revision by revision.
Record ==
  /\ run.on /\ run.left = << >> /\ work.version # run.goal
  /\ work' = [work EXCEPT !.version = IF @ < run.goal THEN @ + 1 ELSE @ - 1]
  /\ disk' = IF dialect = "sqlite" THEN work' ELSE disk
  /\ run' = [run EXCEPT !.open = FALSE,
                        !.left = Statements(dialect, work'.schema, work'.version, run.goal)]
  /\ UNCHANGED <<dialect, cut, disturbances, crashes>>

Finish ==
  /\ run.on /\ run.left = << >> /\ work.version = run.goal
  /\ disk' = work /\ run' = Idle
  /\ UNCHANGED <<dialect, work, cut, disturbances, crashes>>

\* What was not committed is rolled back.
Stop ==
  /\ work' = disk /\ run' = Idle
  /\ cut' = cut \cup {IF work.version < run.goal THEN "up" ELSE "down"}
  /\ UNCHANGED <<dialect, disk, disturbances>>

Fail ==
  /\ run.on /\ run.left # << >> /\ ~Succeeds(dialect, Head(run.left), work)
  /\ Stop /\ UNCHANGED crashes

Crash ==
  /\ run.on /\ crashes < MaxCrashes
  /\ Stop /\ crashes' = crashes + 1

-----------------------------------------------------------------------------
\* Between two runs: the application of the version on disk, and the operator.

Write(rows) ==
  /\ ~run.on /\ rows # disk.rows
  /\ disk' = [disk EXCEPT !.rows = rows] /\ work' = disk'
  /\ UNCHANGED <<dialect, run, cut, crashes>>

WriteTransaction ==
  /\ Table("provider_transactions") \in disk.schema /\ disk.rows.txn = "none"
  /\ \E state \in {"PAID", IF disk.version = Latest THEN "PROVIDER_AUTHORIZED" ELSE "PAYMENT_PENDING"} :
       Write([disk.rows EXCEPT !.txn = state])
  /\ UNCHANGED disturbances

\* The ORM writes the label; a row written without one gets the column's default.
WriteMandate ==
  /\ Table("user_payment_mandates") \in disk.schema /\ disk.rows.mandate = "none"
  /\ \E status \in {"REVOKED", IF dialect = "postgresql" /\ disk.version >= 14 THEN "ACTIVE" ELSE "active"} :
       Write([disk.rows EXCEPT !.mandate = status])
  /\ UNCHANGED disturbances

WriteEvent ==
  /\ Table("audit_events") \in disk.schema /\ disk.rows.digest = 0
  /\ LET newest == IF HashVersion \in disk.schema THEN HashVersionNewest ELSE 0 IN
       Write([disk.rows EXCEPT !.digest = IF newest = 0 THEN 1 ELSE newest, !.marked = newest])
  /\ UNCHANGED disturbances

\* A row that refers to nothing, where no key forbids it.
WriteOrphan ==
  /\ disturbances < MaxDisturbances /\ disturbances' = disturbances + 1
  /\ \E o \in {<<"payment_intents", "agent_id", "unauthenticated">>,
               <<"provider_transactions", "authorization_id", "deleted">>} :
       /\ Table(o[1]) \in disk.schema /\ KeysOn(disk.schema, o[1], o[2]) = {}
       /\ Write([disk.rows EXCEPT !.orphans = @ \cup {o}])

\* "Resolve or delete them, then re-run upgrade."
Resolve == Write([disk.rows EXCEPT !.orphans = {}]) /\ UNCHANGED disturbances

Migrate == Execute \/ Record \/ Finish \/ Fail

Next ==
  \/ UpgradeHead \/ \E goal \in Targets : Command(goal)
  \/ Execute \/ Record \/ Finish \/ Fail \/ Crash
  \/ WriteTransaction \/ WriteMandate \/ WriteEvent \/ WriteOrphan \/ Resolve

Spec == Init /\ [][Next]_vars

\* A run that started goes on; the container restarts until the upgrade is done, and
\* the operator does what the message of an abort says.
FairSpec == Spec /\ WF_vars(Migrate) /\ WF_vars(UpgradeHead) /\ SF_vars(Resolve)

-----------------------------------------------------------------------------
\* The type invariant: versions, rows and statements are of the history, outside a
\* run both views agree, and on PostgreSQL no statement is durable on its own
\* (app/models.py; alembic/env.py, begin_transaction).
TypeOK ==
  /\ dialect \in Dialects
  /\ \A w \in {disk, work} :
       /\ w.version \in 0..Latest
       /\ w.rows.txn \in {"none", "PAYMENT_PENDING", "PROVIDER_AUTHORIZED", "PAID"}
       /\ w.rows.mandate \in {"none", "active", "ACTIVE", "REVOKED"}
       /\ {w.rows.digest, w.rows.marked} \subseteq 0..2
       /\ w.rows.txn # "none" => Table("provider_transactions") \in w.schema
       /\ w.rows.marked # 0 <=> w.rows.digest # 0 /\ HashVersion \in w.schema
  /\ run.on \/ (run = Idle /\ work = disk)
  /\ cut \subseteq {"up", "down"}
  /\ disturbances \in 0..MaxDisturbances /\ crashes \in 0..MaxCrashes

\* What an upgrade leaves: the rebuilt tables, and no scratch table.
Adds(steps) == UNION {step.adds : step \in Range(steps)}
Upgraded(s, steps) == s \cup {e \in Adds(steps) : e[1] # "scratch"}

\* The schemas an upgrade of an empty database passes through, of either dialect.
Fresh[n \in 0..Latest] ==
  [d \in Dialects |->
     IF n = 0 THEN {}
     ELSE LET s == Fresh[n - 1][d] IN Upgraded(s, Statements(d, s, n - 1, n))]

\* Objects a downgrade takes back: enum types and labels stay, and the agent key that
\* e4f5a6b7c8d9 made is dropped by the downgrade of the revision after it.
Reverted(s, version) ==
  {e \in s : e[1] \in {"table", "column", "native", "key", "scratch"}
              /\ ~(version = 15 /\ e = AgentKey)}

\* Whatever runs were killed, failed, or went down and up again, the committed schema
\* is on PostgreSQL exactly that of the recorded version, at every moment; on SQLite
\* it has, between runs, all the version needs, unless a downgrade was cut short
\* (upgrade and downgrade of every revision; alembic/env.py:71).
SchemaOfVersion ==
  LET fresh == Fresh[disk.version][dialect] IN
  IF dialect = "postgresql"
  THEN Reverted(disk.schema, disk.version) = Reverted(fresh, disk.version)
  ELSE ~run.on /\ "down" \notin cut => fresh \subseteq disk.schema

\* From the parity revision on, every foreign key the models declare is there on both
\* databases, under whatever name, and no row dangles; whatever was cut short, as far as
\* the tables are there (f5a6b7c8d9e0, upgrade).
ReferencesHold ==
  disk.version >= 16 =>
    \A fk \in Range(RequiredFks) : Attachable(disk.schema, fk) =>
      Enforced(disk.schema, fk) /\ \A o \in disk.rows.orphans : <<o[1], o[2]>> # <<fk[1], fk[2]>>

\* The committed schema is that of its version, and what it declares holds.
SchemaSound == SchemaOfVersion /\ ReferencesHold

\* The one thing a run stops at is a check for dangling rows, which says so; no
\* statement clashes with what the database holds.  Except on SQLite after a run was
\* cut short, or in the downgrade of the parity revision, which names keys that have
\* no name (b8c9d0e1f2a3:121; e4f5a6b7c8d9:54; f5a6b7c8d9e0:87).
OnlyOrphansAbort ==
  run.on /\ run.left # << >> /\ ~Succeeds(dialect, Head(run.left), work) =>
    \/ Head(run.left).orphans \cap work.rows.orphans # {}
    \/ dialect = "sqlite" /\ (cut # {} \/ (work.version = 16 /\ run.goal < 16))

\* At the last version no payment is in the retired state, and on PostgreSQL no mandate
\* is in the lower case the model cannot read (c3d4e5f6a7b8; d3e4f5a6b7c8:54).
RowsReadable ==
  disk.version = Latest =>
    /\ disk.rows.txn # "PAYMENT_PENDING"
    /\ dialect = "postgresql" => disk.rows.mandate # "active"

\* An audit event is marked with the version its digest was made with, so the chain
\* verifies, unless a downgrade removed the mark (b2c3d4e5f6a7; app/audit.py).
EventsVerify ==
  disk.rows.marked # 0 => disk.rows.marked = disk.rows.digest \/ disk.rows.stripped

\* What the migrations leave can be read and verified by the code of the version.
RowsSound == RowsReadable /\ EventsVerify

Meaning(value) ==
  CASE value = "PAYMENT_PENDING" -> "PROVIDER_AUTHORIZED" [] value = "active" -> "ACTIVE"
    [] OTHER -> value

\* No run changes what a payment or a mandate is: a PAID payment stays paid, a revoked
\* mandate revoked, and a value gets another spelling only, or goes with its table
\* (c3d4e5f6a7b8:57; d3e4f5a6b7c8:17).
RowsKeepMeaning ==
  [][run.on => \A f \in {"txn", "mandate"} :
       disk'.rows[f] = "none" \/ Meaning(disk'.rows[f]) = Meaning(disk.rows[f])]_vars

\* On PostgreSQL the restarted container reaches the last version, whatever runs were
\* killed and whatever dangling rows aborted them (Dockerfile:27).
UpgradeCompletes ==
  dialect = "postgresql" => <>[](disk.version = Latest /\ ~run.on)

=============================================================================
