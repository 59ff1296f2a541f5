----------------------------- MODULE Evidence -----------------------------
(***************************************************************************)
(* What an agent is shown as evidence of a payment: the proof bundle       *)
(* (proof_bundle.py) and the audit trail (v1.query_audit), read while      *)
(* other requests change the same rows and append to the same chain.       *)
(*                                                                         *)
(* The writers are the requests of AuditChain, each now with the rows that *)
(* its transaction changes together with the events it appends.  A reader  *)
(* sends one query after the other, and each sees what is committed when   *)
(* it runs: the session takes no snapshot.                                 *)
(*                                                                         *)
(* The state of a provider transaction is known by the event that names    *)
(* it: `shown` is the id of that event, or Unnamed after a step that       *)
(* records none (the reservation, a failure, an unknown outcome).          *)
(***************************************************************************)
EXTENDS AuditChain, Sequences

CONSTANTS
  Agents, Intents,
  Owner,      \* the agent of an intent
  None        \* no intent, no chain

VARIABLES
  row,        \* committed payment_intents: transaction id and decision
  shown,      \* the event that names the state of an intent's provider
              \* transaction; Unminted before authorization and transaction exist
  content,    \* what an event is about: its intent and its kind
  work,       \* what the open transaction of a request changes
  reader,     \* one request for evidence, and what it has read so far
  raced       \* history: the intents that a submission of the same key minted
              \* for although they did not stand as allowed

evidenceVars == <<vars, row, shown, content, work, reader, raced>>

Unminted == -1
Unnamed  == 0

\* "stepup" and "timed" are REVIEW: with mfa_required, which a parent's
\* approval ends, and with review_expires_at, which the sweeper ends.
Decisions == {"allow", "deny", "stepup", "timed"}
Absent    == [chain |-> None, decision |-> "absent"]
Rows      == [chain : Chains, decision : Decisions]
Kinds     == {"proposed", "decided", "mfa", "minted", "expired", "moved"}

\* What an event that was rolled back was about.
Gone == [intent |-> None, kind |-> "gone"]
Entry == [intent : Intents, kind : Kinds] \cup {Gone}

Idle == [op |-> "none", intent |-> None, row |-> Absent, left |-> <<>>]

Nothing ==
  [asks |-> "nothing", chain |-> None, left |-> <<>>, intent |-> None,
   decision |-> "absent", listed |-> {}, policy |-> None, shown |-> Unminted,
   verified |-> FALSE]

EvidenceInit ==
  /\ Init
  /\ row = [i \in Intents |-> Absent]
  /\ shown = [i \in Intents |-> Unminted]
  /\ content = <<>>
  /\ work = [r \in Requests |-> Idle]
  /\ reader = Nothing
  /\ raced = {}

Recorded(i) == row[i] # Absent
Minted(i)   == shown[i] # Unminted
Trail(x)    == {e \in events : e.chain = x}

-----------------------------------------------------------------------------
(* Writers                                                                 *)

Untouched(r) == locks[r] = {} /\ tail[r] = {} /\ pending[r] = {}

Free(r) == work[r] = Idle /\ Untouched(r)

\* An insert waits for another transaction's insert under the same unique key.
Inserting(i, ops) == \E q \in Requests : work[q].op \in ops /\ work[q].intent = i

Begin(r, op, i, new, kinds) ==
  /\ Free(r)
  /\ work' = [work EXCEPT ![r] = [op |-> op, intent |-> i, row |-> new, left |-> kinds]]
  /\ UNCHANGED <<vars, row, shown, content, reader, raced>>

\* _record_intent: the intent and its two events in one transaction.  The
\* transaction id is the client's, and nothing makes it unique.
Decide(r, i) ==
  /\ ~Recorded(i) /\ ~Inserting(i, {"decide"})
  /\ \E new \in Rows : Begin(r, "decide", i, new, <<"proposed", "decided">>)

\* The intent as approved.  A mint and a move do not write it (Save).
Allowed(i) == [row[i] EXCEPT !.decision = "allow"]

\* authorization_id is the intent's id: a second insert of it fails.
Mintable(i) == ~Minted(i) /\ ~Inserting(i, {"mint", "approve"})

\* submit_payment_intent goes on to mint in a second transaction, on the verdict of
\* its own request.  The intent is the one that _record_intent returned: the row
\* of another submission, whatever was decided there, when that one took the
\* idempotency key first.  The two carry one transaction id, as a request that is
\* sent twice does (the code does not compare them).
Mint(r, i) ==
  /\ Recorded(i) /\ Mintable(i)
  /\ Begin(r, "mint", i, Allowed(i), <<"minted">>)

\* verify_mfa_challenge
Approve(r, i) ==
  /\ row[i].decision = "stepup" /\ Mintable(i)
  /\ Begin(r, "approve", i, Allowed(i), <<"mfa", "minted">>)

\* Mutant: the sweeper takes every review.
AnyReview == {"timed", "stepup"}

\* Only a review with an expiry is swept.
Sweepable == {"timed"}

\* expire_stale_reviews, of the lapsed reviews it commits together one at a time.
Sweep(r, i) ==
  /\ row[i].decision \in Sweepable
  /\ Begin(r, "sweep", i, [row[i] EXCEPT !.decision = "deny"], <<"expired">>)

\* The result of a consume, a webhook, a reconciliation or a refund: an event
\* that names the new state, in the transaction that writes it (the two events
\* of a submitted order name the same state).
Move(r, i) ==
  /\ Minted(i)
  /\ Begin(r, "move", i, Allowed(i), <<"moved">>)

\* Every append of a transaction: the lock, the tail, the insert.
Lock(r) ==
  /\ work[r].left # <<>>
  /\ AcquireLock(r, work[r].row.chain)
  /\ UNCHANGED <<row, shown, content, work, reader, raced>>

ReadOwnTail(r) ==
  /\ work[r].left # <<>>
  /\ ReadTail(r, work[r].row.chain)
  /\ UNCHANGED <<row, shown, content, work, reader, raced>>

Insert(r) ==
  /\ work[r].left # <<>>
  /\ Flush(r)
  /\ content' = Append(content, [intent |-> work[r].intent, kind |-> Head(work[r].left)])
  /\ work' = [work EXCEPT ![r].left = Tail(@)]
  /\ UNCHANGED <<row, shown, reader, raced>>

LastOf(r) == CHOOSE e \in pending[r] : \A f \in pending[r] : f.id <= e.id

\* The commit.
Save(r) ==
  LET i == work[r].intent IN
  /\ work[r].op # "none" /\ work[r].left = <<>>
  /\ Commit(r)
  /\ row' = IF work[r].op \in {"decide", "approve", "sweep"}
              THEN [row EXCEPT ![i] = work[r].row] ELSE row
  /\ shown' = IF work[r].op \in {"mint", "approve", "move"}
                THEN [shown EXCEPT ![i] = LastOf(r).id]
                ELSE shown
  /\ raced' = IF work[r].op = "mint" /\ row[i].decision # "allow" THEN raced \cup {i} ELSE raced
  /\ work' = [work EXCEPT ![r] = Idle]
  /\ UNCHANGED <<content, reader>>

\* An error, a crash, a unique key that another request took: what was appended
\* is gone, and its ids are not used again.
GiveUp(r) ==
  /\ work[r] # Idle
  /\ Rollback(r) \/ (Untouched(r) /\ UNCHANGED vars)
  /\ work' = [work EXCEPT ![r] = Idle]
  /\ content' = [k \in 1 .. next |-> IF \E e \in pending[r] : e.id = k THEN Gone ELSE content[k]]
  /\ UNCHANGED <<row, shown, reader, raced>>

\* A state written without an event: EXECUTION_ATTEMPTED at the reservation,
\* FAILED and PROVIDER_UNKNOWN of an execution.  The update waits for the row.
MoveUnnamed(i) ==
  /\ Minted(i)
  /\ \A q \in Requests : work[q].op = "move" /\ work[q].intent = i => pending[q] = {}
  /\ shown' = [shown EXCEPT ![i] = Unnamed]
  /\ UNCHANGED <<vars, row, content, work, reader, raced>>

-----------------------------------------------------------------------------
(* Readers                                                                 *)

\* Mutant: the events are listed after the rows they describe.
EventsLast == <<"intent", "transaction", "events", "chain">>

\* The order of collect_proof_bundle's queries.  An authorization is never
\* changed in what the bundle shows and exists from the same commit as its
\* transaction: its query and that of the transaction are one read.
BundleReads == <<"intent", "events", "transaction", "chain">>

Reads(found) ==
  /\ reader' = found
  /\ UNCHANGED <<vars, row, shown, content, work, raced>>

\* A refused request ends, and another may be sent.
Refused == Nothing

Matches(x) == {i \in Intents : Recorded(i) /\ row[i].chain = x}

\* Mutant: of several intents one is taken.
TakesOne(i, x) == i \in Matches(x)

\* An id that several intents share is refused as ambiguous.
TheOnly(i, x) == Matches(x) = {i}

\* GET /proof/{x}: no intent is a 404, several are a 409.
ReadIntent(x) ==
  /\ reader.asks = "nothing"
  /\ \E i \in Intents :
       /\ TheOnly(i, x)
       /\ Reads([reader EXCEPT !.asks = "bundle", !.chain = x, !.left = Tail(BundleReads),
                               !.intent = i, !.decision = row[i].decision])

Decided(log) == {e \in log : content[e.id].kind = "decided"}

\* policy_results are those of the first decision in the chain.
FirstDecided(log) ==
  IF Decided(log) = {} THEN None
  ELSE content[CHOOSE k \in 1 .. next : \E e \in Decided(log) :
                 e.id = k /\ \A f \in Decided(log) : k <= f.id].intent

Due(what) == reader.left # <<>> /\ Head(reader.left) = what

ReadEvents ==
  /\ Due("events")
  /\ LET log == Trail(reader.chain) IN
     Reads([reader EXCEPT !.left = Tail(@), !.listed = log, !.policy = FirstDecided(log)])

\* Without an authorization the causal provenance fails on auth.authorization_id.
ReadTransaction ==
  /\ Due("transaction")
  /\ Reads(IF Minted(reader.intent)
             THEN [reader EXCEPT !.left = Tail(@), !.shown = shown[reader.intent]]
             ELSE Refused)

Actors(log) == {Owner[content[e.id].intent] : e \in log}

\* GET /audit/{x}: refused when there are no events, or when another agent has
\* a part in them.
ReadTrail(a, x) ==
  /\ reader.asks = "nothing"
  /\ Actors(Trail(x)) = {a}
  /\ Reads([reader EXCEPT !.asks = "trail", !.chain = x, !.left = <<"chain">>,
                          !.listed = Trail(x)])

\* verify_chain reads the chain again; get_proof_bundle compares the owner last.
VerifyChain(a) ==
  /\ Due("chain")
  /\ Reads(IF reader.asks = "bundle" /\ Owner[reader.intent] # a
             THEN Refused
             ELSE [reader EXCEPT !.left = Tail(@), !.verified = L!Linked(Trail(reader.chain))])

EvidenceNext ==
  \/ \E r \in Requests, i \in Intents :
       Decide(r, i) \/ Mint(r, i) \/ Approve(r, i) \/ Sweep(r, i) \/ Move(r, i)
  \/ \E r \in Requests : Lock(r) \/ ReadOwnTail(r) \/ Insert(r) \/ Save(r) \/ GiveUp(r)
  \/ \E i \in Intents : MoveUnnamed(i)
  \/ \E x \in Chains : ReadIntent(x) \/ \E a \in Agents : ReadTrail(a, x)
  \/ ReadEvents \/ ReadTransaction \/ \E a \in Agents : VerifyChain(a)

EvidenceSpec == EvidenceInit /\ [][EvidenceNext]_evidenceVars

-----------------------------------------------------------------------------
(* Properties                                                              *)

EvidenceTypeOK ==
  /\ TypeOK
  /\ row \in [Intents -> Rows \cup {Absent}]
  /\ shown \in [Intents -> Unminted .. next]
  /\ content \in Seq(Entry) /\ Len(content) = next
  /\ \A r \in Requests : work[r] # Idle =>
       work[r].intent \in Intents /\ work[r].row \in Rows
  /\ raced \subseteq Intents
  /\ reader.listed \subseteq events
  /\ reader.asks = "nothing" => reader = Nothing

Served       == reader.asks # "nothing" /\ reader.left = <<>>
BundleServed == reader.asks = "bundle" /\ Served

\* What the reader listed is verified and is the beginning of the chain, and
\* stays so: no later commit puts an event in front of one that was shown
\* (proof_bundle: "never presents a broken chain as intact evidence").
ShownIsVerified ==
  /\ Served => reader.verified
  /\ \A e \in reader.listed :
       {f \in events : f.chain = e.chain /\ f.id <= e.id} \subseteq reader.listed

Moves(i) == {e \in reader.listed :
              content[e.id].intent = i /\ content[e.id].kind \in {"minted", "moved"}}

\* No listed event is ahead of the state beside it: the final_state of a bundle
\* is named by the last transition the bundle lists, by a later one, or was
\* written by a step that records none.
StateNotBehind ==
  BundleServed =>
    reader.shown = Unnamed \/ \A e \in Moves(reader.intent) : e.id <= reader.shown

\* A bundle's policy_results are those of its own intent, although the id of the
\* transaction is the client's and another intent may be recorded under it
\* while the bundle is being read.
OwnPolicyResults == BundleServed => reader.policy = reader.intent

\* The parts of a bundle agree with each other.
BundleCoherent == StateNotBehind /\ OwnPolicyResults

\* A bundle that is served shows an authorization, and its intent stands as allowed
\* although the sweeper, approvals and commits overlap, unless a submission that
\* lost the race for the idempotency key minted for it on its own verdict
\* (submit_payment_intent): then a lapsed or denied intent is shown as authorized
\* (MCEvidenceRetry).
AuthorizationStands ==
  BundleServed => row[reader.intent].decision = "allow" \/ reader.intent \in raced

\* The decision a bundle shows agrees with the authorization it shows.  Not so
\* when the step-up is approved between the two reads (MCEvidenceTorn).
DecisionShownAllows == BundleServed => reader.decision = "allow"
=============================================================================
