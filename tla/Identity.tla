----------------------------- MODULE Identity -----------------------------
(***************************************************************************)
(* Who may act: one parent authority, the agents it delegates to, their    *)
(* credentials and keys, the nonces that open sessions and the proofs that *)
(* each signed request burns.  Parents share nothing, so one is enough.    *)
(*                                                                         *)
(* A request reads and checks in one step and writes in a later one, as a  *)
(* database session does that commits at the end; requests interleave at   *)
(* those steps.  Signatures are inputs that verify or are refused, and a   *)
(* refused request changes nothing, so only the ones that pass are steps.  *)
(***************************************************************************)
EXTENDS Naturals, FiniteSets

CONSTANTS
  Requests, Agents, Creds, Nonces, Tokens, Proofs, \* rows and ids not used yet
  Keys, ParentKeys,
  Delegations,  \* documents the parent may sign, by delegation_id:
  Bound,        \*   agent_public_key_fingerprint
  Signer,       \*   the parent key that signed it
  Until,        \*   expires_at
  FirstKey,     \* the key the parent registered with
  CredTTL, NonceTTL, SessionTTL, Grace,  \* SessionTTL with its leeway
  MaxClock,     \* bound on time
  None          \* SQL NULL

ASSUME IdentityAssumption ==
  /\ Bound \in [Delegations -> Keys]
  /\ Signer \in [Delegations -> ParentKeys]
  /\ Until \in [Delegations -> Nat]
  /\ FirstKey \in ParentKeys
  /\ {CredTTL, NonceTTL, SessionTTL, Grace, MaxClock} \subseteq Nat
  /\ None \notin Requests \cup Agents \cup Creds \cup Nonces \cup Tokens \cup Proofs
                 \cup Keys \cup ParentKeys \cup Delegations

VARIABLES
  clock,
  parent,   \* parent_authorities
  used,     \* delegation_records
  agents,   \* agents
  creds,    \* credentials
  nonces,   \* auth_nonces
  tokens,   \* session tokens Paari has signed
  burned,   \* request_proofs
  req,      \* what each request holds between its read and its write
  served,   \* how many requests each proof has carried to a commit
  told,     \* of each agent: the key its last rotation replaced, and the sunset
            \* that the answer to a rotation last announced for each key
  ended     \* the parent has been revoked at some time

\* The last three are history, which the code does not keep.
vars == <<clock, parent, used, agents, creds, nonces, tokens, burned, req, served, told, ended>>

Statuses == {"pending_verification", "active", "rejected", "revoked"}
Opt(S) == S \cup {None}

Parent == [status : Statuses, key : ParentKeys]
Agent == [status : {"none", "active", "revoked"}, deleg : Opt(Delegations), key : Opt(Keys),
          old : Opt(Keys), sunset : Nat, until : Nat, v1 : BOOLEAN]
Cred == [agent : Opt(Agents), deleg : Opt(Delegations), until : Nat, revoked : BOOLEAN]
Nonce == [agent : Opt(Agents), until : Nat, used : BOOLEAN]
Token == [agent : Opt(Agents), nonce : Opt(Nonces), cred : Opt(Creds), key : Opt(Keys),
          until : Nat, v1 : BOOLEAN]

Announced == [key : Opt(Keys), until : [Keys -> Nat]]

Pcs == {"idle", "approving", "revoking", "purging", "rekeying", "registering", "issuing",
        "rotating", "burning", "opening", "acting"}

\* `row` is the agent as it was read, `live` the credentials that were read.
Request == [pc : Pcs, now : Nat, agent : Opt(Agents), deleg : Opt(Delegations),
            key : Opt(Keys), pkey : Opt(ParentKeys), row : Agent, live : SUBSET Creds,
            nonce : Opt(Nonces), cred : Opt(Creds), proof : Opt(Proofs), v1 : BOOLEAN]

NoAgent == [status |-> "none", deleg |-> None, key |-> None, old |-> None,
            sunset |-> 0, until |-> 0, v1 |-> FALSE]
NoCred == [agent |-> None, deleg |-> None, until |-> 0, revoked |-> FALSE]
NoNonce == [agent |-> None, until |-> 0, used |-> FALSE]
NoToken == [agent |-> None, nonce |-> None, cred |-> None, key |-> None,
            until |-> 0, v1 |-> FALSE]
Idle == [pc |-> "idle", now |-> 0, agent |-> None, deleg |-> None, key |-> None,
         pkey |-> None, row |-> NoAgent, live |-> {}, nonce |-> None, cred |-> None,
         proof |-> None, v1 |-> FALSE]

TypeOK ==
  /\ clock \in Nat
  /\ parent \in Parent
  /\ used \subseteq Delegations
  /\ agents \in [Agents -> Agent]
  /\ creds \in [Creds -> Cred]
  /\ nonces \in [Nonces -> Nonce]
  /\ tokens \in [Tokens -> Token]
  /\ burned \subseteq Proofs
  /\ req \in [Requests -> Request]
  /\ served \in [Proofs -> Nat]
  /\ told \in [Agents -> Announced]
  /\ ended \in BOOLEAN

\* register_parent: a parent starts unverified, with an Ed25519 key.
Init ==
  /\ clock = 0
  /\ parent = [status |-> "pending_verification", key |-> FirstKey]
  /\ used = {}
  /\ agents = [a \in Agents |-> NoAgent]
  /\ creds = [c \in Creds |-> NoCred]
  /\ nonces = [n \in Nonces |-> NoNonce]
  /\ tokens = [t \in Tokens |-> NoToken]
  /\ burned = {}
  /\ req = [r \in Requests |-> Idle]
  /\ served = [j \in Proofs |-> 0]
  /\ told = [a \in Agents |-> [key |-> None, until |-> [k \in Keys |-> 0]]]
  /\ ended = FALSE

-----------------------------------------------------------------------------
(* What the code reads.                                                    *)

At(r, pc) == req[r].pc = pc
Become(r, rec) == req' = [req EXCEPT ![r] = rec]
Done(r) == Become(r, Idle)

\* A delegation the parent stands behind now, and that no one has consumed.
\* What else it must say, when it was issued among it, is an input.
Presentable(d) ==
  /\ parent.status = "active" /\ parent.key = Signer[d]
  /\ d \notin used

Issued(c) == creds[c].agent # None
Live(c) == Issued(c) /\ ~creds[c].revoked
LiveOf(a) == {c \in Creds : Live(c) /\ creds[c].agent = a}

\* Mutant: the previous key never sets.
KeyAcceptedForever(a, k) ==
  \/ k = agents[a].key
  \/ k = agents[a].old

\* The previous key counts until its sunset, at authentication and for the
\* sessions that are bound to it.
KeyAccepted(a, k) ==
  \/ k = agents[a].key
  \/ k = agents[a].old /\ agents[a].sunset > clock

\* Mutant: a credential without an expiry.
CredUnending(d) == None

\* A credential never outlives the delegation that authorized it.
CredUntil(d) == IF clock + CredTTL < Until[d] THEN clock + CredTTL ELSE Until[d]
NewCred(a, d) == [agent |-> a, deleg |-> d, until |-> CredUntil(d), revoked |-> FALSE]

-----------------------------------------------------------------------------
(* The parent.  Its handlers load the row, check it, and write the columns  *)
(* that change: a request that finds the value it sets writes nothing.      *)

ApproveParent(r) ==
  /\ At(r, "idle")
  /\ parent.status \notin {"active", "revoked"}
  /\ Become(r, [Idle EXCEPT !.pc = "approving"])
  /\ UNCHANGED <<clock, parent, used, agents, creds, nonces, tokens, burned, served, told, ended>>

ApproveCommit(r) ==
  /\ At(r, "approving")
  /\ parent' = [parent EXCEPT !.status = "active"]
  /\ Done(r)
  /\ UNCHANGED <<clock, used, agents, creds, nonces, tokens, burned, served, told, ended>>

\* No status is checked.
RejectParent ==
  /\ parent' = [parent EXCEPT !.status = "rejected"]
  /\ UNCHANGED <<clock, used, agents, creds, nonces, tokens, burned, req, served, told, ended>>

\* The credentials to revoke are those it finds, when the parent has been
\* revoked before as well.
RevokeParent(r) ==
  /\ At(r, "idle")
  /\ Become(r, [Idle EXCEPT !.pc = IF parent.status = "revoked" THEN "purging" ELSE "revoking",
                            !.live = {c \in Creds : Live(c)}])
  /\ UNCHANGED <<clock, parent, used, agents, creds, nonces, tokens, burned, served, told, ended>>

\* Mutant: the credentials of before the rotation stay.
RevokeNone(live) == creds

RevokeAll(live) == [c \in Creds |-> IF c \in live THEN [creds[c] EXCEPT !.revoked = TRUE]
                                    ELSE creds[c]]

RevokeParentCommit(r) ==
  /\ \/ At(r, "revoking") /\ parent' = [parent EXCEPT !.status = "revoked"]
     \/ At(r, "purging") /\ UNCHANGED parent
  /\ creds' = RevokeAll(req[r].live)
  /\ ended' = TRUE
  /\ Done(r)
  /\ UNCHANGED <<clock, used, agents, nonces, tokens, burned, served, told>>

\* rotate_parent_key: delegations signed by the old key stop verifying at once.
RotateParentKey(r, k) ==
  /\ At(r, "idle")
  /\ parent.status = "active" /\ k # parent.key
  /\ Become(r, [Idle EXCEPT !.pc = "rekeying", !.pkey = k])
  /\ UNCHANGED <<clock, parent, used, agents, creds, nonces, tokens, burned, served, told, ended>>

RotateParentKeyCommit(r) ==
  /\ At(r, "rekeying")
  /\ parent' = [parent EXCEPT !.key = req[r].pkey]
  /\ Done(r)
  /\ UNCHANGED <<clock, used, agents, creds, nonces, tokens, burned, served, told, ended>>

-----------------------------------------------------------------------------
(* Agents.                                                                 *)

\* Both registration routes; v1 tells them apart.
Register(r, d, v1) ==
  /\ At(r, "idle")
  /\ Presentable(d)
  /\ Until[d] > clock \/ (~v1 /\ Until[d] = clock)
  /\ Become(r, [Idle EXCEPT !.pc = "registering", !.deleg = d, !.v1 = v1])
  /\ UNCHANGED <<clock, parent, used, agents, creds, nonces, tokens, burned, served, told, ended>>

\* Mutant: without the constraint both inserts succeed.
ConsumeAgain(d) == used' = used \cup {d}

\* delegation_id is unique: the second insert of one fails and its transaction
\* is rolled back.
Consume(d) ==
  /\ d \notin used
  /\ used' = used \cup {d}

\* v1 commits agent and credential together; the legacy route commits the agent
\* first and its credential in a second transaction.
RegisterCommit(r, a, c) ==
  /\ At(r, "registering")
  /\ agents[a].status = "none"
  /\ Consume(req[r].deleg)
  /\ agents' = [agents EXCEPT ![a] =
                  [NoAgent EXCEPT !.status = "active", !.deleg = req[r].deleg,
                                  !.key = Bound[req[r].deleg],
                                  !.until = Until[req[r].deleg], !.v1 = req[r].v1]]
  /\ IF req[r].v1
     THEN /\ ~Issued(c)
          /\ creds' = [creds EXCEPT ![c] = NewCred(a, req[r].deleg)]
          /\ Done(r)
     ELSE /\ Become(r, [req[r] EXCEPT !.pc = "issuing", !.agent = a])
          /\ UNCHANGED creds
  /\ UNCHANGED <<clock, parent, nonces, tokens, burned, served, told, ended>>

IssueCredential(r, c) ==
  /\ At(r, "issuing")
  /\ ~Issued(c)
  /\ creds' = [creds EXCEPT ![c] = NewCred(req[r].agent, req[r].deleg)]
  /\ Done(r)
  /\ UNCHANGED <<clock, parent, used, agents, nonces, tokens, burned, served, told, ended>>

\* One statement revokes every credential there is, whatever was read.
RevokeAgent(a) ==
  /\ agents[a].status # "none"
  /\ agents' = [agents EXCEPT ![a].status = "revoked"]
  /\ creds' = RevokeAll(LiveOf(a))
  /\ UNCHANGED <<clock, parent, used, nonces, tokens, burned, req, served, told, ended>>

RotateKey(r, a, d) ==
  /\ At(r, "idle")
  /\ agents[a].status = "active"
  /\ Presentable(d) /\ Until[d] > clock
  /\ Become(r, [Idle EXCEPT !.pc = "rotating", !.now = clock, !.agent = a, !.deleg = d,
                            !.row = agents[a], !.live = LiveOf(a)])
  /\ UNCHANGED <<clock, parent, used, agents, creds, nonces, tokens, burned, served, told, ended>>

\* The commit writes the columns that differ from the row that was read; the
\* rest stay as they are by then.
Written(now, read, new) == IF new = read THEN now ELSE new

\* Mutant: the commit writes the whole row back, its status included.
RotatedWhole(a, d, row, now) ==
  [row EXCEPT !.old = row.key, !.sunset = now + Grace, !.key = Bound[d], !.deleg = d,
              !.until = Until[d]]

\* Mutant: the key being replaced is not kept.
RotatedForgetful(a, d, row, now) ==
  [agents[a] EXCEPT !.sunset = now + Grace, !.key = Written(@, row.key, Bound[d]),
                    !.deleg = d, !.until = Written(@, row.until, Until[d])]

Rotated(a, d, row, now) ==
  [agents[a] EXCEPT !.old = Written(@, row.old, row.key), !.sunset = now + Grace,
                    !.key = Written(@, row.key, Bound[d]), !.deleg = d,
                    !.until = Written(@, row.until, Until[d])]

RotateCommit(r, c) ==
  LET a == req[r].agent
      d == req[r].deleg IN
  /\ At(r, "rotating")
  /\ ~Issued(c)
  /\ Consume(d)
  /\ agents' = [agents EXCEPT ![a] = Rotated(a, d, req[r].row, req[r].now)]
  /\ creds' = [RevokeAll(req[r].live) EXCEPT ![c] = NewCred(a, d)]
  /\ told' = [told EXCEPT ![a] =
                [key |-> agents[a].key,
                 until |-> [@.until EXCEPT ![agents[a].key] = req[r].now + Grace]]]
  /\ Done(r)
  /\ UNCHANGED <<clock, parent, nonces, tokens, burned, served, ended>>

-----------------------------------------------------------------------------
(* Sessions and requests.                                                  *)

\* create_challenge: what it checks is checked again by verify_challenge.
CreateChallenge(a, n) ==
  /\ agents[a].status = "active"
  /\ nonces[n].agent = None
  /\ nonces' = [nonces EXCEPT ![n] = [agent |-> a, until |-> clock + NonceTTL, used |-> FALSE]]
  /\ UNCHANGED <<clock, parent, used, agents, creds, tokens, burned, req, served, told, ended>>

\* Mutant: a used nonce is as good as an unused one.
SpendableAgain(n) == nonces[n].agent # None /\ nonces[n].until >= clock

Spendable(n) == nonces[n].agent # None /\ ~nonces[n].used /\ nonces[n].until >= clock

VerifyChallenge(r, n, c, k) ==
  LET a == nonces[n].agent IN
  /\ At(r, "idle")
  /\ Spendable(n)
  /\ agents[a].status = "active"
  /\ Live(c) /\ creds[c].agent = a /\ creds[c].until >= clock
  /\ KeyAccepted(a, k)
  /\ Become(r, [Idle EXCEPT !.pc = "burning", !.agent = a, !.nonce = n, !.cred = c, !.key = k])
  /\ UNCHANGED <<clock, parent, used, agents, creds, nonces, tokens, burned, served, told, ended>>

BurnNonce(r) ==
  /\ At(r, "burning")
  /\ nonces' = [nonces EXCEPT ![req[r].nonce].used = TRUE]
  /\ Become(r, [req[r] EXCEPT !.pc = "opening"])
  /\ UNCHANGED <<clock, parent, used, agents, creds, tokens, burned, served, told, ended>>

\* The audit event has its own commit; only then is the token made.
OpenSession(r, t) ==
  /\ At(r, "opening")
  /\ tokens[t].agent = None
  /\ tokens' = [tokens EXCEPT ![t] =
                  [agent |-> req[r].agent, nonce |-> req[r].nonce, cred |-> req[r].cred,
                   key |-> req[r].key, until |-> clock + SessionTTL,
                   v1 |-> agents[req[r].agent].v1]]
  /\ Done(r)
  /\ UNCHANGED <<clock, parent, used, agents, creds, nonces, burned, served, told, ended>>

Authentic(t) ==
  LET a == tokens[t].agent
      c == tokens[t].cred IN
  /\ a # None /\ tokens[t].until >= clock
  /\ agents[a].status = "active" /\ agents[a].until >= clock
  /\ Live(c) /\ creds[c].until >= clock
  /\ parent.status = "active"

\* Mutant: the proof is only looked up, not inserted, when it is checked.
LookedUp(j) == j \notin burned

\* Inserting a jti waits for the transaction that inserted it before, and fails
\* if that one commits.
Fresh(j) == j \notin burned /\ \A r \in Requests : req[r].proof # j

\* _authenticate: a v1 session needs a proof, signed by the key it is bound to.
Authenticate(r, t, j) ==
  /\ At(r, "idle")
  /\ Authentic(t)
  /\ IF tokens[t].v1 THEN j # None /\ KeyAccepted(tokens[t].agent, tokens[t].key) /\ Fresh(j)
     ELSE j = None
  /\ Become(r, [Idle EXCEPT !.pc = "acting", !.agent = tokens[t].agent,
                            !.key = tokens[t].key, !.proof = j])
  /\ UNCHANGED <<clock, parent, used, agents, creds, nonces, tokens, burned, served, told, ended>>

\* The route's first commit keeps the proof.
ActCommit(r) ==
  /\ At(r, "acting")
  /\ IF req[r].proof = None THEN UNCHANGED <<burned, served>>
     ELSE /\ burned' = burned \cup {req[r].proof}
          /\ served' = [served EXCEPT ![req[r].proof] = @ + 1]
  /\ Done(r)
  /\ UNCHANGED <<clock, parent, used, agents, creds, nonces, tokens, told, ended>>

\* A refusal after the read, a violated constraint or a crash: what was not
\* committed is gone, a proof that was about to be burned among it.
Abort(r) ==
  /\ ~At(r, "idle")
  /\ Done(r)
  /\ UNCHANGED <<clock, parent, used, agents, creds, nonces, tokens, burned, served, told, ended>>

Tick ==
  /\ clock < MaxClock
  /\ clock' = clock + 1
  /\ UNCHANGED <<parent, used, agents, creds, nonces, tokens, burned, req, served, told, ended>>

-----------------------------------------------------------------------------

\* A step that begins a request.
Begins(r) ==
  \/ ApproveParent(r) \/ RevokeParent(r) \/ \E k \in ParentKeys : RotateParentKey(r, k)
  \/ \E d \in Delegations, v1 \in BOOLEAN : Register(r, d, v1)
  \/ \E a \in Agents, d \in Delegations : RotateKey(r, a, d)
  \/ \E n \in Nonces, c \in Creds, k \in Keys : VerifyChallenge(r, n, c, k)
  \/ \E t \in Tokens, j \in Opt(Proofs) : Authenticate(r, t, j)

\* A step that goes on with one.
Continues(r) ==
  \/ ApproveCommit(r) \/ RevokeParentCommit(r) \/ RotateParentKeyCommit(r)
  \/ \E a \in Agents, c \in Creds : RegisterCommit(r, a, c)
  \/ \E c \in Creds : IssueCredential(r, c) \/ RotateCommit(r, c)
  \/ BurnNonce(r) \/ \E t \in Tokens : OpenSession(r, t)
  \/ ActCommit(r) \/ Abort(r)

AtOnce ==
  \/ RejectParent \/ Tick
  \/ \E a \in Agents : RevokeAgent(a) \/ \E n \in Nonces : CreateChallenge(a, n)

Next == AtOnce \/ \E r \in Requests : Begins(r) \/ Continues(r)

Spec == Init /\ [][Next]_vars

\* A deployment whose requests never overlap.
SerialNext ==
  \/ Tick
  \/ \E r \in Requests : Continues(r)
  \/ /\ \A r \in Requests : At(r, "idle")
     /\ AtOnce \/ \E r \in Requests : Begins(r)

SerialSpec == Init /\ [][SerialNext]_vars

-----------------------------------------------------------------------------

\* One delegation makes one agent and one credential, whatever registrations
\* and rotations present it at the same time (the unique delegation_id of
\* register_agent, v1_register_agent and rotate_agent_key).
DelegationUsedOnce ==
  /\ \A a, b \in Agents : agents[a].deleg = agents[b].deleg /\ a # b => agents[a].deleg = None
  /\ \A c, e \in Creds : creds[c].deleg = creds[e].deleg /\ c # e => creds[c].deleg = None
  /\ \A a \in Agents : agents[a].deleg \in Opt(used)
  /\ \A c \in Creds : creds[c].deleg \in Opt(used)

\* No proof carries two requests to a commit, although a request that is rolled
\* back gives its proof free again (verify_request_proof).
ProofServedOnce == \A j \in Proofs : served[j] <= 1

\* A revoked agent stays revoked, and so does a revoked credential, whatever a
\* rotation that read them before writes afterwards (revoke_agent).
RevocationIsFinal ==
  [][/\ \A a \in Agents : agents[a].status = "revoked" => agents'[a].status = "revoked"
     /\ \A c \in Creds : creds[c].revoked => creds'[c].revoked]_vars

\* A challenge opens one session (auth.py: a single-use nonce).
OneSessionPerNonce ==
  \A t, u \in Tokens : tokens[t].nonce = tokens[u].nonce /\ t # u => tokens[t].nonce = None

\* What is live was issued under the delegation that binds its agent now: a
\* rotation leaves no credential of before behind (rotate_agent_key).
LiveCredentialIsCurrent ==
  \A c \in Creds : Live(c) => creds[c].deleg = agents[creds[c].agent].deleg

\* The key that an agent's last rotation replaced is accepted until the sunset that
\* rotation announced; no replaced key is accepted past its own.  A key replaced
\* before is no longer covered: an agent has one previous key, so that a rotation
\* within the grace period ends the grace of the one before it (rotate_agent_key).
KeyGrace ==
  \A a \in Agents :
    /\ \A k \in Keys : KeyAccepted(a, k) => k = agents[a].key \/ clock < told[a].until[k]
    /\ told[a].key # None /\ clock < told[a].until[told[a].key] => KeyAccepted(a, told[a].key)

\* A revoked parent has no live credential left (revoke_parent: "Revoke live
\* credentials immediately").
RevocationReachesCredentials ==
  parent.status = "revoked" => \A c \in Creds : ~Live(c)

\* What the credentials table calls live is the agent's current key under a parent
\* that is not revoked.
CredentialsLive == LiveCredentialIsCurrent /\ RevocationReachesCredentials

\* A revoked parent is never approved again (approve_parent answers 409 "Parent
\* authority has been revoked").
ParentRevocationIsFinal == ended => parent.status # "active"
=============================================================================
